----------------------------- MODULE RunRecord -----------------------------
(***************************************************************************)
(* A run of ShortsGraph together with what run.py leaves of it: the row of *)
(* the execution, its script versions and evaluations                      *)
(* (persistence/repository.py) and the long-term memory                    *)
(* (memory/writer.py).                                                     *)
(*                                                                         *)
(* One process at a time invokes the thread: the first invocation, then    *)
(* `python -m shorts_assistant.approve`, which does not look at the row    *)
(* before it resumes.  A process may die between two commits, and a write  *)
(* may fail.  The LangGraph checkpoint survives (sqlite or postgres        *)
(* checkpointer).                                                          *)
(***************************************************************************)
EXTENDS ShortsGraph, Sequences, FiniteSets

CONSTANTS
    MinScore,    \* settings.memory_write_min_score
    MaxRows,     \* bound: script versions written
    MaxCrashes,  \* bound: processes that die
    MaxFaults    \* bound: failing writes

ASSUME RecordAssumption ==
    MinScore \in Nat /\ MaxRows \in Nat /\ MaxCrashes \in Nat /\ MaxFaults \in Nat

VARIABLES
    doing,        \* where the invoking process is, "idle" when there is none
    row,          \* executions: state_checkpoint and final_status
    versions,     \* script_versions, in the order of insertion
    evaluations,  \* evaluations, in the order of insertion
    memory,       \* memory_items of this execution
    crashes, faults,
    lost          \* what made the last _persist_final fail

rows == <<row, versions, evaluations>>
mishaps == <<crashes, faults>>
record == <<rows, memory, mishaps, lost>>

NoRow == [status |-> "none", script |-> NoScript, score |-> NoScore, final |-> "none"]

Row ==
    [status : Status \cup {"none", "AWAITING_HUMAN"}, script : Nat,
     score : Scores \cup {NoScore}, final : {"none", "COMPLETED", "FAILED"}]
VersionRow == [script : Nat, version : Nat, iteration : Nat, is_best : BOOLEAN]

\* `judged` is the script the evaluation is about; no column holds it.
EvaluationRow == [of : Nat, judged : Nat, score : Scores, approved : BOOLEAN]

\* `issues` is the script whose evaluation the issues come from.
MemoryKind == {"successful_hook", "script_success", "unsuccessful_hook"}
MemoryItem ==
    [kind : MemoryKind, script : Nat, score : Scores, issues : Nat]

RecordTypeOK ==
    /\ doing \in {"idle", "invoke", "remember"}
    /\ row \in Row
    /\ versions \in Seq(VersionRow)
    /\ evaluations \in Seq(EvaluationRow)
    /\ memory \in Seq(MemoryItem)
    /\ crashes \in 0..MaxCrashes
    /\ faults \in 0..MaxFaults
    /\ lost \in {"none", "write", "history"}

\* start_execution has committed the row, and graph.invoke begins.
RecordInit ==
    /\ Init
    /\ doing = "invoke"
    /\ row = NoRow
    /\ versions = <<>> /\ evaluations = <<>> /\ memory = <<>>
    /\ crashes = 0 /\ faults = 0 /\ lost = "none"

-----------------------------------------------------------------------------
(***************************************************************************)
(* The invocation.                                                         *)
(***************************************************************************)

\* A write fails.
Fault == faults < MaxFaults /\ faults' = faults + 1 /\ UNCHANGED crashes

Invoke ==
    /\ doing = "invoke"
    /\ Step
    /\ UNCHANGED <<doing, record>>

\* Mutant: the interrupt does not show.
InvokeStatus_NoInterrupt == status

\* _state_from_invoke: only an interrupted invocation has the status
\* AWAITING_HUMAN, the state of the thread never has it.
InvokeStatus == IF paused THEN "AWAITING_HUMAN" ELSE status

\* repository.checkpoint
Checkpointed ==
    [status |-> InvokeStatus, script |-> generated_script, score |-> best_score,
     final |-> row.final]

\* repository.finish_execution
Finished(r) == [r EXCEPT !.final = status]

\* _checkpoint_only: a failing write is logged, the invocation returns.
Pause ==
    /\ doing = "invoke" /\ paused
    /\ \/ row' = Checkpointed /\ UNCHANGED mishaps
       \/ Fault /\ UNCHANGED row
    /\ doing' = "idle"
    /\ UNCHANGED <<vars, versions, evaluations, memory, lost>>

\* Mutant: the best script is recorded, whichever was released.
RecordedScript_Best == IF best_script # NoScript THEN best_script ELSE generated_script

RecordedScript == IF generated_script # NoScript THEN generated_script ELSE best_script

IsBest == best_script = NoScript \/ RecordedScript = best_script

\* Mutant: older rows keep their mark.
Unmarked_Kept(old) == old

\* add_script_version(is_best=True) first clears the flag of the older rows.
Unmarked(old) ==
    [i \in DOMAIN old |->
        [old[i] EXCEPT !.is_best = IF IsBest THEN FALSE ELSE old[i].is_best]]

AddScriptVersion ==
    versions' = Append(Unmarked(versions),
        [script |-> RecordedScript, version |-> script_version,
         iteration |-> iteration, is_best |-> IsBest])

AddEvaluation ==
    evaluations' = IF evaluation = NoEvaluation THEN evaluations ELSE
        Append(evaluations,
            [of |-> Len(versions) + 1, judged |-> evaluation.script,
             score |-> evaluation.score, approved |-> evaluation.approved])

\* Mutant: rows written before the failure are committed.
FinishFails_Partial(why) ==
    /\ Fault
    /\ lost' = why
    /\ doing' = "idle"
    /\ AddScriptVersion
    /\ UNCHANGED <<row, evaluations>>

\* The exception leaves the session scope: rollback, and the caller sees it.
FinishFails(why) ==
    /\ Fault
    /\ lost' = why
    /\ doing' = "idle"
    /\ UNCHANGED rows

\* A failing flush of record_agent_execution is caught, but it has ended the
\* transaction already, and the commit of the session scope raises.
HistoryFails == FinishFails("history")

\* _persist_final: one transaction.
PersistFinal ==
    /\ doing = "invoke" /\ next = END
    /\ \/ /\ row' = Finished(Checkpointed)
          /\ IF RecordedScript = NoScript
                THEN UNCHANGED <<versions, evaluations>>
                ELSE AddScriptVersion /\ AddEvaluation
          /\ doing' = "remember"
          /\ lost' = "none"
          /\ UNCHANGED mishaps
       \/ FinishFails("write") \/ HistoryFails
    /\ UNCHANGED <<vars, memory>>

\* Mutant: the score of the last evaluation goes with the best script.
MemoryScore_Last == evaluation.score

MemoryScore == IF best_score # NoScore THEN best_score ELSE evaluation.score

\* The script memory keeps.
MemoryScript == IF best_script # NoScript THEN best_script ELSE generated_script

\* A finished run is COMPLETED or FAILED, so of the three statuses the writer
\* accepts one is left.
Memorable ==
    /\ status = "COMPLETED"
    /\ MemoryScript # NoScript
    /\ MemoryScore >= MinScore

Item(kind, issues) ==
    [kind |-> kind, script |-> MemoryScript, score |-> MemoryScore, issues |-> issues]

\* Every item maybe_persist_memory inserts, in its order; the evaluation has
\* issues or not.
MemoryItems(issues) ==
    IF ~Memorable THEN <<>> ELSE
        <<Item("successful_hook", NoScript), Item("script_success", NoScript)>>
        \o IF /\ iteration >= MaxIterations
              /\ evaluation # NoEvaluation /\ ~evaluation.approved /\ issues
             THEN <<Item("unsuccessful_hook", evaluation.script)>>
             ELSE <<>>

\* Each item is a commit of its own; a failure ends the loop and is swallowed.
\* A topic that looks like a secret is not remembered at all.
Remember ==
    /\ doing = "remember"
    /\ \E issues \in BOOLEAN :
          LET items == MemoryItems(issues)
          IN  \/ memory' = memory \o items /\ UNCHANGED mishaps
              \/ Fault /\ \E k \in 0..(Len(items) - 1) : memory' = memory \o SubSeq(items, 1, k)
              \/ memory' = memory /\ UNCHANGED mishaps
    /\ doing' = "idle"
    /\ UNCHANGED <<vars, rows, lost>>

-----------------------------------------------------------------------------
(***************************************************************************)
(* Later processes.                                                        *)
(***************************************************************************)

\* The process dies (or the checkpointer raises): its commits stay.
Crash ==
    /\ doing # "idle"
    /\ crashes < MaxCrashes
    /\ crashes' = crashes + 1
    /\ doing' = "idle"
    /\ UNCHANGED <<vars, rows, memory, faults, lost>>

\* Mutant: a finished thread takes the decision once more.
Continue_Again == UNCHANGED vars \/ (next = END /\ Decide("approve") /\
    UNCHANGED <<paused, hitl_required, draft, best, product>>)

\* A thread that is not at its interrupt goes on where it stopped, or, when it
\* has ended, returns its final values once more.
Continue == UNCHANGED vars

\* approve.py: a decision, taken in a process with its own HITL setting.
Decided == \E d \in Decision, h \in BOOLEAN : Resume(d, h)

\* resume_with_decision: an unpaused thread does not take the decision.
ResumeRun ==
    /\ doing = "idle"
    /\ Len(versions) < MaxRows
    /\ doing' = "invoke"
    /\ \/ Decided
       \/ ~paused /\ Continue
    /\ UNCHANGED record

RecordNext == Invoke \/ Pause \/ PersistFinal \/ Remember \/ Crash \/ ResumeRun

RecordSpec == RecordInit /\ [][RecordNext]_<<vars, doing, record>>

-----------------------------------------------------------------------------
(***************************************************************************)
(* Properties.                                                             *)
(***************************************************************************)

\* A result is recorded as a whole or not at all (one transaction): before the
\* execution has its final status no version, evaluation or memory of it
\* exists, and with it the checkpoint says the same.
ResultIsWhole ==
    /\ row.final = "none" => versions = <<>> /\ evaluations = <<>> /\ memory = <<>>
    /\ row.final # "none" => row.status = row.final
    /\ Len(evaluations) <= Len(versions)

\* An execution recorded as COMPLETED shows the script that was approved and
\* released, in its checkpoint and in every version row.
ReleasedIsRecorded ==
    row.final = "COMPLETED" =>
        /\ row.script = final_short_concept
        /\ final_short_concept = approved_script
        /\ versions # <<>>
        /\ \A i \in DOMAIN versions : versions[i].script = final_short_concept

\* However often a finished thread is finalized again, at most one version is
\* marked as the best, and the mark is on the best script of the run (or on
\* one that was never judged).
BestRowIsBest ==
    /\ Cardinality({i \in DOMAIN versions : versions[i].is_best}) <= 1
    /\ \A i \in DOMAIN versions : versions[i].is_best =>
          judged = {} \/ versions[i].script = best_script

\* Memory holds only scripts of a released, recorded run, with the score the
\* judge gave that very script, and none below the minimum.
MemoryIsEarned ==
    \A i \in DOMAIN memory :
        /\ row.final = "COMPLETED"
        /\ memory[i].score >= MinScore
        /\ \E e \in judged : e.script = memory[i].script /\ e.score = memory[i].score

\* A result that is recorded stays: later decisions, processes that die over
\* them, and a finished thread that is finalized again and again leave status,
\* script and score as they are.
RecordedResultStays ==
    [][row.final # "none" => UNCHANGED row]_<<vars, doing, record>>

\* Between invocations the row tells what the thread does, as long as no
\* process died and no write failed.
RowFollowsThread ==
    doing = "idle" /\ crashes = 0 /\ faults = 0 =>
        /\ paused \/ next = END
        /\ row.script = generated_script /\ row.score = best_score
        /\ IF paused THEN row.status = "AWAITING_HUMAN" /\ row.final = "none"
                     ELSE row.status = status /\ row.final = status

\* Over every crash and failing write, what the tables say of a run is whole,
\* is of the script that was released, and is what the thread is at.
RecordInv == RecordTypeOK /\ ResultIsWhole /\ ReleasedIsRecorded /\ RowFollowsThread

\* "Immutable script snapshots per iteration" (docs/plans/
\* 10_phase_persistent_state_019178ab.plan.md:196): every script that was
\* judged in a finished run has its version row.
EveryAttemptIsRecorded ==
    row.final # "none" => \A e \in judged : \E i \in DOMAIN versions :
        versions[i].script = e.script

\* "Immutable eval snapshots linked to script version" (docs/plans/
\* 10_phase_persistent_state_019178ab.plan.md:197): an evaluation row points
\* at the version it judged.
EvaluationOfItsVersion ==
    \A i \in DOMAIN evaluations :
        versions[evaluations[i].of].script = evaluations[i].judged

\* "hook + issues (what to avoid)" (docs/plans/
\* 11_phase_memory_rag_cb33e6fb.plan.md:148): the issues remembered with a
\* hook are those of its script.
IssuesOfItsHook ==
    \A i \in DOMAIN memory : memory[i].kind = "unsuccessful_hook" =>
        memory[i].issues = memory[i].script

\* "checkpoint when entering AWAITING_HUMAN" (docs/plans/
\* 13_phase_human_in_loop_d6d12396.plan.md:149): a run that returned to its
\* caller in a pause is awaiting its human in the database too.
PauseIsVisible ==
    doing = "idle" /\ paused /\ crashes = 0 => row.status = "AWAITING_HUMAN"

\* "fail-open on history" (run.py:313): a history row that cannot be written
\* does not cost the result.
HistoryFailsOpen == lost = "history" => row.final = status

-----------------------------------------------------------------------------
(***************************************************************************)
(* The inductive invariant, over the one of the graph (IInv).              *)
(***************************************************************************)

\* A finished row is that of an ended thread, and nothing is stored before it.
EndInv ==
    /\ row.final # "none" =>
          /\ next = END
          /\ row = [status |-> status, script |-> generated_script,
                    score |-> best_score, final |-> status]
    /\ row.final = "none" => versions = <<>> /\ evaluations = <<>> /\ memory = <<>>
    /\ doing = "remember" => row.final # "none"

\* Every finalization stores the same script, and one mark is left.
VersionInv ==
    /\ row.final # "none" /\ RecordedScript # NoScript => versions # <<>>
    /\ \A i \in DOMAIN versions :
          versions[i].script = RecordedScript /\ (versions[i].is_best => IsBest)
    /\ \A i, j \in DOMAIN versions : versions[i].is_best /\ versions[j].is_best => i = j
    /\ Len(evaluations) <= Len(versions)

\* A memory item that MemoryIsEarned allows.
EarnedItem ==
    {m \in MemoryItem : m.score >= MinScore
                          /\ \E e \in judged : e.script = m.script /\ e.score = m.score}

EarnedInv ==
    /\ memory \in Seq(EarnedItem)
    /\ memory # <<>> => row.final = "COMPLETED"

RecordIInv == RecordTypeOK /\ EndInv /\ VersionInv /\ EarnedInv /\ RowFollowsThread
=============================================================================
