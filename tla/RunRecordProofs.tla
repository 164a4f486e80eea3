-------------------------- MODULE RunRecordProofs --------------------------
(***************************************************************************)
(* Proofs about RunRecord for all values of its constants: processes that  *)
(* die, writes that fail and decisions that come again leave the thread as *)
(* one undisturbed run, and the rows and the memory true to it.            *)
(***************************************************************************)
EXTENDS RunRecord, ShortsGraphProofs, SequenceTheorems, FiniteSetTheorems

\* Every step of the record is a step of the graph, or leaves it alone.
LEMMA GraphStep ==
    ASSUME RecordNext
    PROVE  (Invoke /\ Step) \/ (ResumeRun /\ Decided) \/ UNCHANGED vars
<1>1. CASE Invoke
    BY <1>1 DEF Invoke
<1>2. CASE Pause \/ PersistFinal \/ Remember \/ Crash
    BY <1>2 DEF Pause, PersistFinal, Remember, Crash
<1>3. CASE ResumeRun
    BY <1>3 DEF ResumeRun, Continue
<1> QED
    BY <1>1, <1>2, <1>3 DEF RecordNext

LEMMA GraphNext == RecordNext => [Next]_vars
BY GraphStep DEF Next, Decided

\* Crashes, failing writes and duplicate decisions give the thread no step
\* that one undisturbed run could not make (run.py, approve.py).
LEMMA RecordImplementsGraph == RecordSpec => Spec
<1>1. RecordInit => Init
    BY DEF RecordInit
<1>2. [RecordNext]_<<vars, doing, record>> => [Next]_vars
    <2>1. CASE RecordNext
        BY <2>1, GraphNext
    <2>2. CASE UNCHANGED <<vars, doing, record>>
        BY <2>2
    <2> QED
        BY <2>1, <2>2
<1> QED
    BY <1>1, <1>2, PTL DEF RecordSpec, Spec

\* The graph's own invariant holds along with the record.
LEMMA GraphInvariant == RecordSpec => []IInv
BY RecordImplementsGraph, Invariance, PTL

-----------------------------------------------------------------------------
(***************************************************************************)
(* The steps of the graph, seen from the rows.                             *)
(***************************************************************************)

\* A thread that has ended makes no step and takes no decision.
LEMMA EndedStays ==
    ASSUME IInv, next = END, RecordNext
    PROVE  UNCHANGED vars
<1>1. ~Step
    BY DEF Step, Research, MemoryRetrieve, Scriptwriter, Evaluator, QualityGate, HumanReview,
           Visualizer, Formatter, FallThrough, Enter, END
<1>2. ~Decided
    BY DEF Decided, Resume, IInv, ControlInv, END
<1> QED
    BY <1>1, <1>2, GraphStep

\* An ended thread has a final status.
LEMMA EndedStatus ==
    ASSUME IInv, next = END
    PROVE  status \in {"COMPLETED", "FAILED"} /\ paused = FALSE
<1>1. status \in StatusAt[next]
    BY DEF IInv, ControlInv
<1>2. paused = FALSE
    BY DEF IInv, TypeOK, ControlInv, END
<1> QED
    BY <1>1, <1>2 DEF StatusAt, END
-----------------------------------------------------------------------------
(***************************************************************************)
(* The record.                                                             *)
(***************************************************************************)

LEMMA InitRecord == RecordInit => RecordIInv
<1> SUFFICES ASSUME RecordInit PROVE RecordIInv
    OBVIOUS
<1> USE RecordAssumption, GraphAssumption DEF RecordInit
<1>1. RecordTypeOK
    BY DEF RecordTypeOK, Row, NoRow, NoScript, NoScore
<1>2. EndInv
    BY DEF EndInv, NoRow
<1>3. VersionInv
    BY DEF VersionInv, NoRow
<1>4. EarnedInv
    BY DEF EarnedInv
<1>5. RowFollowsThread
    BY DEF RowFollowsThread
<1> QED
    BY <1>1, <1>2, <1>3, <1>4, <1>5 DEF RecordIInv

\* A finished thread takes its record along unchanged.
LEMMA SameVars ==
    ASSUME RecordIInv, UNCHANGED vars, UNCHANGED <<rows, memory>>,
           doing' \in {"idle", "invoke"}
    PROVE  EndInv' /\ VersionInv' /\ EarnedInv'
<1>1. EndInv'
    BY DEF RecordIInv, EndInv, rows, vars, control, draft, best
<1>2. RecordedScript' = RecordedScript /\ IsBest' = IsBest
    BY DEF RecordedScript, IsBest, vars, draft, best
<1>3. VersionInv'
    BY <1>2 DEF RecordIInv, VersionInv, rows
<1>4. EarnedItem' = EarnedItem
    BY DEF EarnedItem, vars, best
<1>5. EarnedInv'
    BY <1>4 DEF RecordIInv, EarnedInv, rows
<1> QED
    BY <1>1, <1>3, <1>5

\* graph.invoke and resume_with_decision write no row.
LEMMA GoOnKeeps ==
    ASSUME IInv, RecordIInv, RecordNext, UNCHANGED record, doing' = "invoke"
    PROVE  RecordIInv'
<1>1. RecordTypeOK' /\ RowFollowsThread'
    BY DEF RecordIInv, RecordTypeOK, RowFollowsThread, record, rows, mishaps
<1>2. CASE row.final = "none"
    <2>1. EndInv'
        BY <1>2 DEF RecordIInv, EndInv, record, rows
    <2>2. versions' = <<>> /\ evaluations' = <<>> /\ memory' = <<>> /\ row'.final = "none"
        BY <1>2 DEF RecordIInv, EndInv, record, rows
    <2>3. VersionInv'
        BY <2>2 DEF VersionInv
    <2>4. EarnedInv'
        BY <2>2 DEF EarnedInv
    <2> QED
        BY <1>1, <2>1, <2>3, <2>4 DEF RecordIInv
<1>3. CASE row.final # "none"
    <2>1. UNCHANGED vars
        BY <1>3, EndedStays DEF RecordIInv, EndInv
    <2> QED
        BY <1>1, <2>1, SameVars DEF RecordIInv, record
<1> QED
    BY <1>2, <1>3

LEMMA CrashKeeps ==
    ASSUME RecordIInv, Crash
    PROVE  RecordIInv'
<1>1. EndInv' /\ VersionInv' /\ EarnedInv'
    BY SameVars DEF Crash
<1>2. RecordTypeOK'
    BY RecordAssumption DEF RecordIInv, RecordTypeOK, Crash, rows
<1>3. RowFollowsThread'
    BY RecordAssumption DEF RecordIInv, RecordTypeOK, RowFollowsThread, Crash
<1> QED
    BY <1>1, <1>2, <1>3 DEF RecordIInv

\* A fault is counted, and the claims about undisturbed runs say no more.
LEMMA FaultCounts ==
    ASSUME RecordTypeOK, Fault
    PROVE  faults' \in 0..MaxFaults /\ faults' # 0 /\ crashes' = crashes
BY RecordAssumption DEF RecordTypeOK, Fault

\* A pause is of a thread that has not ended, so of one without a result.
LEMMA PauseKeeps ==
    ASSUME IInv, RecordIInv, Pause
    PROVE  RecordIInv'
<1>1. row.final = "none"
    BY DEF RecordIInv, EndInv, Pause, IInv, ControlInv, END
<1>2. Checkpointed \in Row /\ Checkpointed.final = "none"
    BY <1>1 DEF Checkpointed, Row, InvokeStatus, IInv, TypeOK
<1>3. row' \in Row /\ row'.final = "none"
    BY <1>1, <1>2 DEF Pause, RecordIInv, RecordTypeOK
<1>4. versions' = <<>> /\ evaluations' = <<>> /\ memory' = <<>> /\ doing' = "idle"
    BY <1>1 DEF Pause, RecordIInv, EndInv
<1>5. RecordTypeOK'
    BY <1>3, <1>4, FaultCounts DEF RecordIInv, RecordTypeOK, Pause, mishaps
<1>6. EndInv' /\ VersionInv' /\ EarnedInv'
    BY <1>3, <1>4 DEF EndInv, VersionInv, EarnedInv
<1>7. RowFollowsThread'
    <2>1. CASE Fault
        BY <2>1, FaultCounts DEF RecordIInv, RowFollowsThread
    <2>2. CASE row' = Checkpointed
        BY <1>1, <2>2 DEF RowFollowsThread, Pause, Checkpointed, InvokeStatus, vars, control,
           draft, best
    <2> QED
        BY <2>1, <2>2 DEF Pause
<1> QED
    BY <1>5, <1>6, <1>7 DEF RecordIInv

\* _persist_final, when its transaction commits: the row is that of the ended
\* thread, and a version more has its script.
LEMMA CommitKeeps ==
    ASSUME IInv, RecordIInv, PersistFinal, row' = Finished(Checkpointed),
           IF RecordedScript = NoScript
             THEN UNCHANGED <<versions, evaluations>> ELSE AddScriptVersion /\ AddEvaluation,
           doing' = "remember", lost' = "none", UNCHANGED mishaps
    PROVE  RecordIInv'
<1>1. next = END /\ UNCHANGED vars /\ memory' = memory
    BY DEF PersistFinal
<1>2. status \in {"COMPLETED", "FAILED"} /\ paused = FALSE
    BY <1>1, EndedStatus
<1>3. row' = [status |-> status, script |-> generated_script, score |-> best_score,
              final |-> status]
    BY <1>2 DEF Finished, Checkpointed, InvokeStatus
<1>4. row' \in Row /\ row'.final = status /\ row'.final # "none"
    BY <1>2, <1>3 DEF Row, IInv, TypeOK
<1>5. RecordedScript' = RecordedScript /\ IsBest' = IsBest /\ EarnedItem' = EarnedItem
    BY <1>1 DEF RecordedScript, IsBest, EarnedItem, vars, draft, best
<1>6. /\ versions \in Seq(VersionRow) /\ evaluations \in Seq(EvaluationRow)
      /\ Len(evaluations) <= Len(versions)
    BY DEF RecordIInv, RecordTypeOK, VersionInv
<1>7. ASSUME RecordedScript = NoScript
      PROVE  VersionInv' /\ versions' \in Seq(VersionRow) /\ evaluations' \in Seq(EvaluationRow)
    <2>1. versions' = versions /\ evaluations' = evaluations
        BY <1>7
    <2>2. VersionInv'
        BY <1>5, <1>7, <2>1 DEF RecordIInv, VersionInv
    <2> QED
        BY <2>1, <2>2, <1>6
<1>8. ASSUME RecordedScript # NoScript
      PROVE  VersionInv' /\ versions' \in Seq(VersionRow) /\ evaluations' \in Seq(EvaluationRow)
    <2> DEFINE old == Unmarked(versions)
               new == [script |-> RecordedScript, version |-> script_version,
                       iteration |-> iteration, is_best |-> IsBest]
    <2>1. versions' = Append(old, new) /\ AddEvaluation
        BY <1>8 DEF AddScriptVersion
    <2>2. new \in VersionRow
        BY DEF VersionRow, RecordedScript, IsBest, IInv, TypeOK
    <2>3. /\ old \in Seq(VersionRow) /\ Len(old) = Len(versions)
          /\ \A i \in 1..Len(versions) :
                /\ old[i].script = versions[i].script
                /\ old[i].is_best = IF IsBest THEN FALSE ELSE versions[i].is_best
        <3>1. /\ DOMAIN versions = 1..Len(versions) /\ Len(versions) \in Nat
              /\ \A i \in 1..Len(versions) : versions[i] \in VersionRow
            BY <1>6
        <3>2. ASSUME NEW i \in 1..Len(versions)
              PROVE  /\ old[i] \in VersionRow
                     /\ old[i].script = versions[i].script
                     /\ old[i].is_best = IF IsBest THEN FALSE ELSE versions[i].is_best
            <4>1. old[i] = [versions[i] EXCEPT !.is_best =
                              IF IsBest THEN FALSE ELSE versions[i].is_best]
                BY <3>1 DEF Unmarked
            <4>2. versions[i] \in VersionRow
                BY <3>1
            <4> QED
                BY <4>1, <4>2 DEF VersionRow
        <3>3. old = [i \in 1..Len(versions) |-> old[i]]
            BY <3>1 DEF Unmarked
        <3> HIDE DEF old
        <3>4. old \in [1..Len(versions) -> VersionRow]
            BY <3>2, <3>3
        <3>5. old \in Seq(VersionRow) /\ Len(old) = Len(versions)
            BY <3>1, <3>4
        <3> QED
            BY <3>2, <3>5
    <2> HIDE DEF old, new
    <2>4. /\ versions' \in Seq(VersionRow)
          /\ Len(versions') = Len(versions) + 1
          /\ \A i \in 1..Len(versions) : versions'[i] = old[i]
          /\ versions'[Len(versions) + 1] = new
          /\ DOMAIN versions' = 1..(Len(versions) + 1)
        BY <1>6, <2>1, <2>2, <2>3
    <2>5. new.script = RecordedScript /\ new.is_best = IsBest
        BY DEF new
    <2>6. /\ \A i \in DOMAIN versions' :
                versions'[i].script = RecordedScript /\ (versions'[i].is_best => IsBest)
          /\ \A i, j \in DOMAIN versions' :
                versions'[i].is_best /\ versions'[j].is_best => i = j
        <3>1. \A i \in 1..Len(versions) :
                 versions[i].script = RecordedScript /\ (versions[i].is_best => IsBest)
            BY <1>6 DEF RecordIInv, VersionInv
        <3>2. \A i \in 1..Len(versions) :
                 versions'[i].script = RecordedScript /\ ~versions'[i].is_best
            BY <2>3, <2>4, <3>1
        <3> QED
            BY <1>6, <2>4, <2>5, <3>2
    <2>7. evaluations' \in Seq(EvaluationRow) /\ Len(evaluations') <= Len(versions) + 1
        <3>1. CASE evaluation = NoEvaluation
            BY <1>6, <2>1, <3>1 DEF AddEvaluation
        <3>2. CASE evaluation # NoEvaluation
            <4> DEFINE e == [of |-> Len(versions) + 1, judged |-> evaluation.script,
                             score |-> evaluation.score, approved |-> evaluation.approved]
            <4>1. e \in EvaluationRow
                BY <1>6, <3>2 DEF EvaluationRow, IInv, TypeOK, Evaluation
            <4>2. evaluations' = Append(evaluations, e)
                BY <2>1, <3>2 DEF AddEvaluation
            <4> HIDE DEF e
            <4> QED
                BY <1>6, <4>1, <4>2
        <3> QED
            BY <3>1, <3>2
    <2>8. VersionInv'
        BY <1>5, <1>6, <2>4, <2>6, <2>7 DEF VersionInv
    <2> QED
        BY <2>4, <2>7, <2>8
<1>9. VersionInv' /\ versions' \in Seq(VersionRow) /\ evaluations' \in Seq(EvaluationRow)
    BY <1>7, <1>8
<1>10. RecordTypeOK'
    BY <1>1, <1>4, <1>9 DEF RecordIInv, RecordTypeOK, mishaps
<1>11. EndInv'
    BY <1>1, <1>2, <1>3 DEF EndInv, vars, control, draft, best
<1>12. EarnedInv'
    <2>1. memory # <<>> => row.final = "COMPLETED" /\ status = row.final
        BY DEF RecordIInv, EarnedInv, EndInv
    <2> QED
        BY <1>1, <1>4, <1>5, <2>1 DEF RecordIInv, EarnedInv
<1>13. RowFollowsThread'
    BY DEF RowFollowsThread
<1> QED
    BY <1>9, <1>10, <1>11, <1>12, <1>13 DEF RecordIInv

\* When it does not, everything is as it was.
LEMMA RollbackKeeps ==
    ASSUME RecordIInv, UNCHANGED vars, memory' = memory, NEW why \in {"write", "history"},
           FinishFails(why)
    PROVE  RecordIInv'
<1>1. EndInv' /\ VersionInv' /\ EarnedInv'
    BY SameVars DEF FinishFails, rows
<1>2. RecordTypeOK' /\ RowFollowsThread'
    BY FaultCounts DEF FinishFails, RecordIInv, RecordTypeOK, RowFollowsThread, rows
<1> QED
    BY <1>1, <1>2 DEF RecordIInv

LEMMA PersistKeeps ==
    ASSUME IInv, RecordIInv, PersistFinal
    PROVE  RecordIInv'
<1>1. UNCHANGED vars /\ memory' = memory
    BY DEF PersistFinal
<1>2. CASE FinishFails("write") \/ HistoryFails
    BY <1>1, <1>2, RollbackKeeps DEF HistoryFails
<1>3. CASE ~(FinishFails("write") \/ HistoryFails)
    <2>1. /\ row' = Finished(Checkpointed)
          /\ IF RecordedScript = NoScript
                THEN UNCHANGED <<versions, evaluations>> ELSE AddScriptVersion /\ AddEvaluation
          /\ doing' = "remember" /\ lost' = "none" /\ UNCHANGED mishaps
        BY <1>3 DEF PersistFinal
    <2> QED
        BY <2>1, CommitKeeps
<1> QED
    BY <1>2, <1>3

\* The writer remembers the best script of a released run, with its own score.
LEMMA ItemsAreEarned ==
    ASSUME IInv, RecordTypeOK, Memorable, NEW kind \in MemoryKind, NEW about \in Nat
    PROVE  Item(kind, about) \in EarnedItem
<1>1. judged # {}
    BY DEF Memorable, IInv, ReviewInv, Worthy
<1>2. PICK e \in judged : best_script = e.script /\ best_score = e.score
    BY <1>1 DEF IInv, BestSoFar
<1>3. e.script \in Nat \ {NoScript} /\ e.score \in Scores
    BY DEF IInv, TypeOK, Evaluation
<1>4. MemoryScript = e.script /\ MemoryScore = e.score
    BY <1>2, <1>3, GraphAssumption DEF MemoryScript, MemoryScore, NoScript, NoScore
<1>5. MemoryScore >= MinScore
    BY DEF Memorable
<1> QED
    BY <1>3, <1>4, <1>5 DEF Item, EarnedItem, MemoryItem

LEMMA MemoryItemsAreEarned ==
    ASSUME IInv, RecordTypeOK, NEW issues \in BOOLEAN
    PROVE  /\ MemoryItems(issues) \in Seq(EarnedItem)
           /\ MemoryItems(issues) # <<>> => Memorable
<1>1. CASE ~Memorable
    BY <1>1 DEF MemoryItems
<1>2. CASE Memorable
    <2> DEFINE first == Item("successful_hook", NoScript)
               second == Item("script_success", NoScript)
               third == Item("unsuccessful_hook", evaluation.script)
    <2>1. first \in EarnedItem /\ second \in EarnedItem
        BY <1>2, ItemsAreEarned DEF MemoryKind, NoScript
    <2>2. evaluation # NoEvaluation => third \in EarnedItem
        <3>1. evaluation # NoEvaluation => evaluation.script \in Nat
            BY DEF IInv, TypeOK, Evaluation
        <3> QED
            BY <1>2, <3>1, ItemsAreEarned DEF MemoryKind
    <2> HIDE DEF first, second, third
    <2>3. <<first, second>> \in Seq(EarnedItem)
        BY <2>1
    <2>4. evaluation # NoEvaluation => <<third>> \in Seq(EarnedItem)
        BY <2>2
    <2>5. PICK more \in Seq(EarnedItem) : MemoryItems(issues) = <<first, second>> \o more
        <3>1. <<>> \in Seq(EarnedItem)
            OBVIOUS
        <3> QED
            BY <1>2, <2>4, <3>1 DEF MemoryItems, first, second, third
    <2>6. MemoryItems(issues) \in Seq(EarnedItem)
        BY <2>3, <2>5, ConcatProperties
    <2> QED
        BY <1>2, <2>6
<1> QED
    BY <1>1, <1>2

LEMMA RememberKeeps ==
    ASSUME IInv, RecordIInv, Remember
    PROVE  RecordIInv'
<1>1. /\ next = END /\ row.final = status /\ row.final # "none"
      /\ row = [status |-> status, script |-> generated_script,
                score |-> best_score, final |-> status]
    BY DEF RecordIInv, EndInv, Remember
<1>2. UNCHANGED <<vars, rows>> /\ doing' = "idle"
    BY DEF Remember
<1>3. PICK part \in Seq(EarnedItem) :
         /\ memory' = memory \o part
         /\ part # <<>> => Memorable
    <2>1. PICK issues \in BOOLEAN :
             LET items == MemoryItems(issues)
             IN  \/ memory' = memory \o items
                 \/ \E k \in 0..(Len(items) - 1) : memory' = memory \o SubSeq(items, 1, k)
                 \/ memory' = memory
        BY DEF Remember
    <2> DEFINE items == MemoryItems(issues)
    <2>2. items \in Seq(EarnedItem) /\ (items # <<>> => Memorable)
        BY MemoryItemsAreEarned DEF RecordIInv
    <2> HIDE DEF items
    <2>3. CASE memory' = memory \o items
        BY <2>2, <2>3
    <2>4. CASE \E k \in 0..(Len(items) - 1) : memory' = memory \o SubSeq(items, 1, k)
        <3>1. PICK k \in 0..(Len(items) - 1) : memory' = memory \o SubSeq(items, 1, k)
            BY <2>4
        <3>2. Len(items) \in Nat /\ k \in Nat /\ k <= Len(items)
            BY <2>2
        <3>3. SubSeq(items, 1, k) \in Seq(EarnedItem)
            BY <2>2, <3>2, SubSeqProperties
        <3>4. items # <<>>
            BY <2>2, <3>2
        <3> QED
            BY <2>2, <3>1, <3>3, <3>4
    <2>5. CASE memory' = memory
        <3>1. memory \in Seq(EarnedItem)
            BY DEF RecordIInv, EarnedInv
        <3>2. <<>> \in Seq(EarnedItem) /\ memory \o <<>> = memory
            BY <3>1, ConcatEmptySeq
        <3> QED
            BY <2>5, <3>2
    <2> QED
        BY <2>1, <2>3, <2>4, <2>5 DEF items
<1>4. EarnedItem' = EarnedItem
    BY <1>2 DEF EarnedItem, vars, best
<1>5. EarnedInv'
    <2>1. memory \in Seq(EarnedItem) /\ (memory # <<>> => row.final = "COMPLETED")
        BY DEF RecordIInv, EarnedInv
    <2>2. memory' \in Seq(EarnedItem)
        BY <1>3, <2>1, ConcatProperties
    <2>3. row'.final = row.final
        BY <1>2 DEF rows
    <2>4. memory' # <<>> => row.final = "COMPLETED"
        <3>1. CASE part = <<>>
            BY <1>3, <2>1, <3>1, ConcatEmptySeq
        <3>2. CASE part # <<>>
            BY <1>1, <1>3, <3>2 DEF Memorable
        <3> QED
            BY <3>1, <3>2
    <2> QED
        BY <1>4, <2>2, <2>3, <2>4 DEF EarnedInv
<1>6. memory' \in Seq(MemoryItem)
    <2>1. EarnedItem \subseteq MemoryItem /\ memory' \in Seq(EarnedItem)
        BY <1>4, <1>5 DEF EarnedItem, EarnedInv
    <2> QED
        BY <2>1
<1>7. RecordTypeOK'
    <2>1. faults' \in 0..MaxFaults /\ crashes' \in 0..MaxCrashes
        BY FaultCounts DEF Remember, mishaps, RecordIInv, RecordTypeOK
    <2> QED
        BY <1>2, <1>6, <2>1 DEF RecordIInv, RecordTypeOK, Remember, rows
<1>8. EndInv'
    BY <1>1, <1>2 DEF EndInv, rows, vars, control, draft, best
<1>9. VersionInv'
    BY <1>2 DEF RecordIInv, VersionInv, RecordedScript, IsBest, rows, vars, draft, best
<1>10. RowFollowsThread'
    <2>1. row' = row /\ next' = END /\ paused' = paused /\ status' = status
          /\ generated_script' = generated_script /\ best_score' = best_score
        BY <1>1, <1>2 DEF rows, vars, control, draft, best
    <2>2. paused = FALSE
        BY <1>1, EndedStatus
    <2> QED
        BY <1>1, <2>1, <2>2 DEF RowFollowsThread
<1> QED
    BY <1>5, <1>7, <1>8, <1>9, <1>10 DEF RecordIInv

-----------------------------------------------------------------------------
(***************************************************************************)
(* The invariant of the record, and what follows from it.                  *)
(***************************************************************************)

LEMMA RecordStep ==
    IInv /\ RecordIInv /\ [RecordNext]_<<vars, doing, record>> => RecordIInv'
<1> SUFFICES ASSUME IInv, RecordIInv, [RecordNext]_<<vars, doing, record>>
             PROVE  RecordIInv'
    OBVIOUS
<1>1. CASE Invoke
    <2>1. RecordNext /\ UNCHANGED record /\ doing' = "invoke"
        BY <1>1 DEF RecordNext, Invoke
    <2> QED
        BY <2>1, GoOnKeeps
<1>2. CASE ResumeRun
    <2>1. RecordNext /\ UNCHANGED record /\ doing' = "invoke"
        BY <1>2 DEF RecordNext, ResumeRun
    <2> QED
        BY <2>1, GoOnKeeps
<1>3. CASE Pause
    BY <1>3, PauseKeeps
<1>4. CASE PersistFinal
    BY <1>4, PersistKeeps
<1>5. CASE Remember
    BY <1>5, RememberKeeps
<1>6. CASE Crash
    BY <1>6, CrashKeeps
<1>7. CASE UNCHANGED <<vars, doing, record>>
    <2>1. UNCHANGED vars /\ UNCHANGED <<rows, memory>> /\ UNCHANGED record /\ doing' = doing
        BY <1>7 DEF record
    <2>2. EndInv'
        BY <2>1 DEF RecordIInv, EndInv, rows, vars, control, draft, best
    <2>3. VersionInv'
        BY <2>1 DEF RecordIInv, VersionInv, RecordedScript, IsBest, rows, vars, draft, best
    <2>4. EarnedInv'
        BY <2>1 DEF RecordIInv, EarnedInv, EarnedItem, rows, vars, best
    <2>5. RecordTypeOK'
        BY <2>1 DEF RecordIInv, RecordTypeOK, record, rows, mishaps
    <2>6. RowFollowsThread'
        BY <2>1 DEF RecordIInv, RowFollowsThread, record, rows, mishaps, vars, control, draft, best
    <2> QED
        BY <2>2, <2>3, <2>4, <2>5, <2>6 DEF RecordIInv
<1> QED
    BY <1>1, <1>2, <1>3, <1>4, <1>5, <1>6, <1>7 DEF RecordNext

\* Over every crash, failing write and repeated decision: a finished row is
\* that of the ended thread, its versions are of one script, and the memory
\* is earned (_persist_final, maybe_persist_memory).
THEOREM RecordInvariant == RecordSpec => [](IInv /\ RecordIInv)
<1>1. RecordInit => RecordIInv
    BY InitRecord
<1> QED
    BY <1>1, RecordStep, GraphInvariant, PTL DEF RecordSpec

\* A result is recorded whole or not at all, a released run is recorded with
\* the released script, and the row of an undisturbed run tells what its
\* thread does.
THEOREM RecordIsTrue == RecordSpec => []RecordInv
<1>1. ASSUME RecordIInv PROVE ResultIsWhole
    BY <1>1 DEF RecordIInv, EndInv, VersionInv, ResultIsWhole
<1>2. ASSUME IInv, RecordIInv, row.final = "COMPLETED" PROVE ReleasedIsRecorded
    <2>1. status = "COMPLETED" /\ row.script = generated_script
        BY <1>2 DEF RecordIInv, EndInv
    <2>2. final_short_concept = generated_script /\ approved_script = generated_script
        BY <1>2, <2>1 DEF IInv, ReviewInv
    <2>3. generated_script # NoScript
        BY <1>2, <2>1 DEF IInv, TypeOK, ReviewInv, Worthy, Evaluation
    <2>4. RecordedScript = generated_script
        BY <2>3 DEF RecordedScript
    <2>5. versions # <<>> /\ \A i \in DOMAIN versions : versions[i].script = generated_script
        BY <1>2, <2>3, <2>4 DEF RecordIInv, VersionInv
    <2> QED
        BY <2>1, <2>2, <2>5 DEF ReleasedIsRecorded
<1>3. IInv /\ RecordIInv => RecordInv
    BY <1>1, <1>2 DEF RecordInv, RecordIInv, ReleasedIsRecorded
<1> QED
    BY <1>3, RecordInvariant, PTL

\* However often a finished thread is finalized again, one version at most is
\* marked as the best, and rightly (add_script_version).
THEOREM OneBestRow == RecordSpec => []BestRowIsBest
<1> DEFINE marked == {i \in DOMAIN versions : versions[i].is_best}
<1>1. ASSUME RecordIInv PROVE Cardinality(marked) <= 1
    <2>1. \A i, j \in marked : i = j
        BY <1>1 DEF RecordIInv, VersionInv
    <2>2. CASE marked = {}
        BY <2>2, FS_EmptySet
    <2>3. CASE marked # {}
        <3>1. PICK i \in marked : TRUE
            BY <2>3
        <3>2. marked = {i}
            BY <2>1, <3>1
        <3>3. Cardinality({i}) = 1
            BY FS_Singleton
        <3> HIDE DEF marked
        <3> QED
            BY <3>2, <3>3
    <2> QED
        BY <2>2, <2>3
<1>2. ASSUME IInv, RecordIInv, NEW i \in DOMAIN versions, versions[i].is_best
      PROVE  judged = {} \/ versions[i].script = best_script
    <2>1. IsBest /\ versions[i].script = RecordedScript
        BY <1>2 DEF RecordIInv, VersionInv
    <2>2. best_script = NoScript => judged = {}
        BY <1>2 DEF IInv, TypeOK, BestSoFar, Evaluation
    <2> QED
        BY <2>1, <2>2 DEF IsBest
<1>3. IInv /\ RecordIInv => BestRowIsBest
    BY <1>1, <1>2 DEF BestRowIsBest
<1> QED
    BY <1>3, RecordInvariant, PTL

\* Memory holds only scripts of a released, recorded run, each with the score
\* the judge gave that script and none below the minimum (writer.py).
THEOREM MemoryHoldsEarned == RecordSpec => []MemoryIsEarned
<1>1. ASSUME RecordIInv, NEW i \in DOMAIN memory
      PROVE  memory[i] \in EarnedItem /\ row.final = "COMPLETED"
    <2>1. memory \in Seq(EarnedItem)
        BY <1>1 DEF RecordIInv, EarnedInv
    <2>2. memory[i] \in EarnedItem /\ memory # <<>>
        BY <1>1, <2>1
    <2> QED
        BY <1>1, <2>2 DEF RecordIInv, EarnedInv
<1>2. IInv /\ RecordIInv => MemoryIsEarned
    BY <1>1 DEF MemoryIsEarned, EarnedItem
<1> QED
    BY <1>2, RecordInvariant, PTL

\* A recorded result stays as it is, whatever comes after it: its thread has
\* ended, so every later finalization finds the same values (run.py).
THEOREM ResultIsKept == RecordSpec => RecordedResultStays
<1>1. ASSUME IInv, RecordIInv, IInv', RecordIInv', RecordNext, row.final # "none"
      PROVE  UNCHANGED row
    <2>1. /\ next = END
          /\ row = [status |-> status, script |-> generated_script,
                    score |-> best_score, final |-> status]
        BY <1>1 DEF RecordIInv, EndInv
    <2>2. UNCHANGED vars
        BY <1>1, <2>1, EndedStays
    <2>3. paused = FALSE
        BY <1>1, <2>1, EndedStatus
    <2>4. CASE PersistFinal
        <3>1. row' = Finished(Checkpointed) \/ row' = row
            BY <2>4 DEF PersistFinal, FinishFails, HistoryFails, rows
        <3>2. Finished(Checkpointed) = row
            BY <2>1, <2>3 DEF Finished, Checkpointed, InvokeStatus
        <3> QED
            BY <3>1, <3>2
    <2>5. ~Pause
        BY <2>3 DEF Pause
    <2>6. CASE Invoke \/ Remember \/ Crash \/ ResumeRun
        BY <2>6 DEF Invoke, Remember, Crash, ResumeRun, record, rows
    <2> QED
        BY <1>1, <2>4, <2>5, <2>6 DEF RecordNext
<1>2. ASSUME IInv, RecordIInv, IInv', RecordIInv', [RecordNext]_<<vars, doing, record>>
      PROVE  [row.final # "none" => UNCHANGED row]_<<vars, doing, record>>
    BY <1>1, <1>2
<1> QED
    BY <1>2, RecordInvariant, PTL DEF RecordSpec, RecordedResultStays
=============================================================================
