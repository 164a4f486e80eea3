------------------------- MODULE ShortsGraphProofs -------------------------
(***************************************************************************)
(* Proofs about ShortsGraph for all values of its constants: the inductive *)
(* invariant IInv, the safety properties that follow from it, and that the *)
(* graph implements ReviewedRun.                                           *)
(***************************************************************************)
EXTENDS ShortsGraph, TLAPS

\* A run starts in the invariant.
LEMMA InitIInv == Init => IInv
<1> SUFFICES ASSUME Init PROVE IInv
    OBVIOUS
<1> USE GraphAssumption DEF Init, NoScript, NoScore, NoNode
<1>1. TypeOK
    <2>1. /\ next \in Node \cup {END} /\ status \in Status
          /\ error_node \in Node \cup {NoNode}
        BY DEF Node, Status
    <2>2. hitl_required \in BOOLEAN /\ paused \in BOOLEAN
        OBVIOUS
    <2>3. judged \in SUBSET Evaluation /\ evaluation \in Evaluation \cup {NoEvaluation}
        OBVIOUS
    <2>4. human_revision_count \in 0..(MaxHumanRounds + 1)
        OBVIOUS
    <2> QED
        BY <2>1, <2>2, <2>3, <2>4 DEF TypeOK
<1>2. ControlInv
    BY DEF ControlInv, StatusAt
<1>3. CountInv
    BY DEF CountInv, InLoop, Written
<1>4. DraftInv
    BY DEF DraftInv, Written
<1>5. BestSoFar
    BY DEF BestSoFar
<1>6. ReviewInv
    BY DEF ReviewInv, ReviewedScriptIsSettled
<1> QED
    BY <1>1, <1>2, <1>3, <1>4, <1>5, <1>6 DEF IInv

\* Every node and every resume keeps the state well-typed; ControlInv is what
\* bounds the count of review rounds.
LEMMA TypeStep == TypeOK /\ ControlInv /\ [Next]_vars => TypeOK'
<1> SUFFICES ASSUME TypeOK, ControlInv, [Next]_vars
             PROVE  TypeOK'
    OBVIOUS
<1> USE GraphAssumption DEF TypeOK, Enter, Succeeded, Failed, Edge, Node, Status,
        NoScript, NoNode, END, control, draft, best, review, product
<1>0. "approve" \in Decision
    BY DEF Decision
<1>1. CASE Research
    BY <1>1 DEF Research
<1>2. CASE MemoryRetrieve
    BY <1>2 DEF MemoryRetrieve
<1>3. CASE Scriptwriter
    BY <1>3 DEF Scriptwriter
<1>4. CASE Evaluator
    BY <1>4 DEF Evaluator, Evaluation
<1>5. CASE QualityGate
    <2>1. next' \in Node \cup {END}
        BY <1>5 DEF QualityGate, Follow, RouteAfterGate
    <2>2. CASE generated_script = NoScript \/ evaluation = NoEvaluation
        BY <1>5, <2>1, <2>2 DEF QualityGate
    <2>3. CASE ~(generated_script = NoScript \/ evaluation = NoEvaluation)
        <3>1. evaluation \in Evaluation /\ ApplyQualityGate
            BY <1>5, <2>3 DEF QualityGate
        <3>2. best_score' \in Scores \cup {NoScore} /\ judged' \in SUBSET Evaluation
            BY <3>1 DEF ApplyQualityGate, Evaluation
        <3>3. generated_script' \in Nat /\ best_script' \in Nat
            BY <3>1 DEF ApplyQualityGate, ExhaustedScript
        <3>4. iteration' \in Nat /\ status' \in Status /\ error_node' \in Node \cup {NoNode}
            BY <3>1 DEF ApplyQualityGate
        <3> QED
            BY <1>5, <2>1, <3>2, <3>3, <3>4 DEF QualityGate
    <2> QED
        BY <2>2, <2>3
<1>6. CASE HumanReview
    BY <1>0, <1>6, ZenonT(40) DEF HumanReview, AutoApprove, Follow, RouteAfterHuman
<1>7. CASE \E d \in Decision, h \in BOOLEAN : Resume(d, h)
    <2> PICK d \in Decision, h \in BOOLEAN : Resume(d, h)
        BY <1>7
    <2>1. human_revision_count <= MaxHumanRounds
        BY DEF Resume, ControlInv, StatusAt
    <2>2. CASE h
        <3>1. hitl_required' \in BOOLEAN
            BY DEF Resume
        <3>2. Decide(d)
            BY <2>2 DEF Resume
        <3>3. human_decision' = d /\ human_reviewer' = "human"
            BY <3>2 DEF Decide, OutOfRounds, GiveUp
        <3>4. /\ next' \in Node \cup {END} /\ status' \in Status
              /\ error_node' \in Node \cup {NoNode}
            BY <3>2 DEF Decide, OutOfRounds, GiveUp, Follow, RouteAfterHuman
        <3>5. human_revision_count' \in 0..(MaxHumanRounds + 1) /\ approved_script' \in Nat
            BY <2>1, <3>2 DEF Decide, OutOfRounds, GiveUp
        <3>6. paused' = FALSE /\ UNCHANGED <<draft, best, product>>
            BY DEF Resume
        <3> QED
            BY <3>1, <3>3, <3>4, <3>5, <3>6
    <2>3. CASE ~h
        <3>1. hitl_required' \in BOOLEAN
            BY DEF Resume
        <3>2. human_decision' \in Decision /\ human_reviewer' = "auto"
            BY <1>0, <2>3 DEF Resume, AutoApprove
        <3>3. next' = "visualizer" /\ status' = "APPROVED" /\ error_node' = NoNode
            BY <2>3 DEF Resume, AutoApprove, Follow, RouteAfterHuman
        <3>4. approved_script' = generated_script /\ UNCHANGED human_revision_count
            BY <2>3 DEF Resume, AutoApprove
        <3>5. paused' = FALSE /\ UNCHANGED <<draft, best, product>>
            BY DEF Resume
        <3> QED
            BY <3>1, <3>2, <3>3, <3>4, <3>5
    <2> QED
        BY <2>2, <2>3
<1>8. CASE Visualizer
    BY <1>8 DEF Visualizer
<1>9. CASE Formatter
    BY <1>9 DEF Formatter
<1>10. CASE FallThrough
    BY <1>10 DEF FallThrough, Follow, RouteAfterGate, RouteAfterHuman
<1>11. CASE UNCHANGED vars
    BY <1>11 DEF vars
<1> QED
    BY <1>1, <1>2, <1>3, <1>4, <1>5, <1>6, <1>7, <1>8, <1>9, <1>10, <1>11 DEF Next, Step

\* A node is only ever reached with the statuses it expects.
LEMMA ControlStep == TypeOK /\ ControlInv /\ [Next]_vars => ControlInv'
<1> SUFFICES ASSUME TypeOK, ControlInv, [Next]_vars
             PROVE  ControlInv'
    OBVIOUS
<1> USE GraphAssumption DEF TypeOK, ControlInv, StatusAt, Enter, Succeeded, Failed, Edge,
        Node, Status, END, control, draft, best, review, product
<1>1. CASE Research
    BY <1>1 DEF Research
<1>2. CASE MemoryRetrieve
    BY <1>2 DEF MemoryRetrieve
<1>3. CASE Scriptwriter
    BY <1>3 DEF Scriptwriter
<1>4. CASE Evaluator
    BY <1>4 DEF Evaluator
<1>5. CASE QualityGate
    <2>1. status' \in {"PASSED", "SCRIPTING", "EXHAUSTED", "FAILED"}
        BY <1>5 DEF QualityGate, ApplyQualityGate
    <2> QED
        BY <1>5, <2>1 DEF QualityGate, Follow, RouteAfterGate
<1>6. CASE HumanReview
    BY <1>6 DEF HumanReview, AutoApprove, Follow, RouteAfterHuman
<1>7. CASE \E d \in Decision, h \in BOOLEAN : Resume(d, h)
    <2> PICK d \in Decision, h \in BOOLEAN : Resume(d, h)
        BY <1>7
    <2>1. CASE h
        BY <2>1 DEF Resume, Decide, OutOfRounds, GiveUp, Follow, RouteAfterHuman
    <2>2. CASE ~h
        BY <2>2 DEF Resume, AutoApprove, Follow, RouteAfterHuman
    <2> QED
        BY <2>1, <2>2
<1>8. CASE Visualizer
    BY <1>8 DEF Visualizer
<1>9. CASE Formatter
    BY <1>9 DEF Formatter
<1>10. CASE FallThrough
    BY <1>10 DEF FallThrough, Follow, RouteAfterGate, RouteAfterHuman
<1>11. CASE UNCHANGED vars
    BY <1>11 DEF vars
<1> QED
    BY <1>1, <1>2, <1>3, <1>4, <1>5, <1>6, <1>7, <1>8, <1>9, <1>10, <1>11 DEF Next, Step

\* The budget: every gate visit uses one attempt, every review sent back buys
\* one.
LEMMA CountStep ==
    TypeOK /\ ControlInv /\ CountInv /\ [Next]_vars => CountInv'
<1> SUFFICES ASSUME TypeOK, ControlInv, CountInv, [Next]_vars
             PROVE  CountInv'
    OBVIOUS
<1> USE GraphAssumption DEF CountInv, InLoop, Written, Enter, Succeeded, Failed, Edge,
        Status, control, draft, best, review, product
<1>0. /\ iteration \in Nat /\ script_version \in Nat
      /\ human_revision_count \in 0..(MaxHumanRounds + 1) /\ status \in StatusAt[next]
      /\ status # "FAILED" => human_revision_count <= MaxHumanRounds
    BY DEF TypeOK, ControlInv
<1>1. CASE Research
    BY <1>0, <1>1 DEF Research
<1>2. CASE MemoryRetrieve
    BY <1>0, <1>2 DEF MemoryRetrieve
<1>3. CASE Scriptwriter
    BY <1>0, <1>3 DEF Scriptwriter
<1>4. CASE Evaluator
    BY <1>0, <1>4 DEF Evaluator
<1>5. CASE QualityGate
    <2>1. CASE generated_script = NoScript \/ evaluation = NoEvaluation
        BY <1>0, <1>5, <2>1 DEF QualityGate
    <2>2. CASE ApplyQualityGate
        <3>1. iteration' = iteration + 1
            BY <2>2 DEF ApplyQualityGate
        <3>2. status' = "SCRIPTING" => iteration' < MaxIterations
            BY <2>2 DEF ApplyQualityGate, MayRetry
        <3>3. next' \in {"scriptwriter", "human_review"} /\ status' # "FAILED"
              /\ (next' = "scriptwriter" => status' = "SCRIPTING")
            BY <1>5, <2>2 DEF QualityGate, ApplyQualityGate, Follow, RouteAfterGate
        <3>4. UNCHANGED <<script_version, human_revision_count>> /\ next = "quality_gate"
              /\ status # "FAILED"
            BY <1>5 DEF QualityGate
        <3> QED
            BY <1>0, <3>1, <3>2, <3>3, <3>4
    <2> QED
        BY <1>5, <2>1, <2>2 DEF QualityGate
<1>6. CASE HumanReview
    BY <1>0, <1>6 DEF HumanReview, AutoApprove, Follow, RouteAfterHuman
<1>7. CASE \E d \in Decision, h \in BOOLEAN : Resume(d, h)
    <2> PICK d \in Decision, h \in BOOLEAN : Resume(d, h)
        BY <1>7
    <2>1. next = "human_review" /\ status # "FAILED"
        BY DEF Resume, ControlInv, StatusAt
    <2>2. UNCHANGED <<iteration, script_version>>
        BY DEF Resume
    <2>3. CASE h
        <3>1. Decide(d)
            BY <2>3 DEF Resume
        <3> QED
            BY <1>0, <2>1, <2>2, <3>1 DEF Decide, OutOfRounds, GiveUp, Follow, RouteAfterHuman
    <2>4. CASE ~h
        <3>1. next' = "visualizer" /\ status' = "APPROVED" /\ UNCHANGED human_revision_count
            BY <2>4 DEF Resume, AutoApprove, Follow, RouteAfterHuman
        <3> QED
            BY <1>0, <2>1, <2>2, <3>1
    <2> QED
        BY <2>3, <2>4
<1>8. CASE Visualizer
    BY <1>0, <1>8 DEF Visualizer
<1>9. CASE Formatter
    BY <1>0, <1>9 DEF Formatter, END
<1>10. CASE FallThrough
    BY <1>0, <1>10 DEF FallThrough
<1>11. CASE UNCHANGED vars
    BY <1>11 DEF vars
<1> QED
    BY <1>1, <1>2, <1>3, <1>4, <1>5, <1>6, <1>7, <1>8, <1>9, <1>10, <1>11 DEF Next, Step

\* Every judged version is older than the draft in the loop, and the gate is
\* given the evaluation of that draft.
LEMMA DraftStep ==
    TypeOK /\ ControlInv /\ CountInv /\ DraftInv /\ [Next]_vars => DraftInv'
<1> SUFFICES ASSUME TypeOK, ControlInv, CountInv, DraftInv, [Next]_vars
             PROVE  DraftInv'
    OBVIOUS
<1> USE GraphAssumption DEF DraftInv, Written, Enter, Succeeded, Failed, Edge,
        control, draft, best, review, product
<1>0. /\ iteration \in Nat /\ script_version \in Nat /\ generated_script \in Nat
      /\ status \in StatusAt[next] /\ next \in Node \cup {END}
    BY DEF TypeOK, ControlInv
<1>1. CASE Research
    BY <1>0, <1>1 DEF Research
<1>2. CASE MemoryRetrieve
    BY <1>0, <1>2 DEF MemoryRetrieve, StatusAt
<1>3. CASE Scriptwriter
    BY <1>0, <1>3 DEF Scriptwriter
<1>4. CASE Evaluator
    <2>1. CASE status' = "EVALUATING"
        <3>1. evaluation' \in Evaluation /\ evaluation'.script = generated_script
            BY <1>0, <1>4, <2>1 DEF Evaluator, Evaluation
        <3> QED
            BY <1>0, <1>4, <3>1 DEF Evaluator
    <2>2. CASE status' # "EVALUATING"
        BY <1>0, <1>4, <2>2 DEF Evaluator
    <2> QED
        BY <2>1, <2>2
<1>5. CASE QualityGate
    <2>1. CASE generated_script = NoScript \/ evaluation = NoEvaluation
        BY <1>0, <1>5, <2>1 DEF QualityGate
    <2>2. CASE ApplyQualityGate
        <3>1. status = "EVALUATING" /\ next = "quality_gate"
            BY <1>0, <1>5 DEF QualityGate, StatusAt
        <3>2. evaluation.script = iteration + 1
            BY <1>0, <3>1 DEF CountInv
        <3>3. iteration' = iteration + 1 /\ judged' = judged \cup {evaluation}
            BY <2>2 DEF ApplyQualityGate
        <3>4. \A e \in judged' : e.script <= iteration'
            <4> SUFFICES ASSUME NEW e \in judged' PROVE e.script <= iteration'
                OBVIOUS
            <4>1. CASE e \in judged
                <5>1. e.script \in Nat
                    BY <4>1 DEF TypeOK, Evaluation
                <5> QED
                    BY <1>0, <3>3, <4>1, <5>1
            <4>2. CASE e = evaluation
                BY <1>0, <3>2, <3>3, <4>2
            <4> QED
                BY <3>3, <4>1, <4>2
        <3>5. next' \in {"scriptwriter", "human_review"} /\ status' # "EVALUATING"
            BY <1>5, <2>2 DEF QualityGate, ApplyQualityGate, Follow, RouteAfterGate
        <3> QED
            BY <3>4, <3>5
    <2> QED
        BY <1>5, <2>1, <2>2 DEF QualityGate
<1>6. CASE HumanReview
    BY <1>0, <1>6 DEF HumanReview, AutoApprove, Follow, RouteAfterHuman
<1>7. CASE \E d \in Decision, h \in BOOLEAN : Resume(d, h)
    <2> PICK d \in Decision, h \in BOOLEAN : Resume(d, h)
        BY <1>7
    <2>1. UNCHANGED <<draft, best>> 
        BY DEF Resume
    <2>2. next' \in {"visualizer", "scriptwriter", END} /\ status' # "EVALUATING"
        BY DEF Resume, Decide, OutOfRounds, GiveUp, AutoApprove, Follow, RouteAfterHuman
    <2> QED
        BY <2>1, <2>2 DEF END
<1>8. CASE Visualizer
    BY <1>0, <1>8 DEF Visualizer
<1>9. CASE Formatter
    BY <1>0, <1>9 DEF Formatter, END
<1>10. CASE FallThrough
    BY <1>0, <1>10 DEF FallThrough
<1>11. CASE UNCHANGED vars
    BY <1>11 DEF vars
<1> QED
    BY <1>1, <1>2, <1>3, <1>4, <1>5, <1>6, <1>7, <1>8, <1>9, <1>10, <1>11 DEF Next, Step

\* Who changes the best-so-far: the gate, when it has something to judge.
LEMMA OnlyGateJudges ==
    [Next]_vars => UNCHANGED best \/ (QualityGate /\ ApplyQualityGate)
<1> SUFFICES ASSUME [Next]_vars, ~UNCHANGED best
             PROVE  QualityGate /\ ApplyQualityGate
    OBVIOUS
<1>1. CASE \E d \in Decision, h \in BOOLEAN : Resume(d, h)
    BY <1>1 DEF Resume
<1> QED
    BY <1>1 DEF Next, Step, vars, Research, MemoryRetrieve, Scriptwriter, Evaluator,
        QualityGate, HumanReview, Visualizer, Formatter, FallThrough

\* The gate's update-before-decide keeps the first maximum.
LEMMA BestStep ==
    TypeOK /\ ControlInv /\ CountInv /\ DraftInv /\ BestSoFar /\ [Next]_vars => BestSoFar'
<1> SUFFICES ASSUME TypeOK, ControlInv, CountInv, DraftInv, BestSoFar, [Next]_vars
             PROVE  BestSoFar'
    OBVIOUS
<1>1. CASE UNCHANGED best
    BY <1>1 DEF BestSoFar, best
<1>2. CASE QualityGate /\ ApplyQualityGate
    <2>1. status = "EVALUATING" /\ next = "quality_gate"
        BY <1>2 DEF QualityGate, Enter, ControlInv, StatusAt
    <2>2. /\ evaluation \in Evaluation /\ evaluation.script = generated_script
          /\ evaluation.script = iteration + 1
        BY <2>1 DEF DraftInv, CountInv, Written
    <2>3. judged' = judged \cup {evaluation}
        BY <1>2 DEF ApplyQualityGate
    <2>4. /\ \A e \in judged' : e.score \in Nat /\ e.script \in Nat
          /\ \A e \in judged : e.script < evaluation.script
        <3>1. judged' \subseteq Evaluation
            BY <2>2, <2>3 DEF TypeOK
        <3>2. \A e \in Evaluation : e.score \in Nat /\ e.script \in Nat
            BY GraphAssumption DEF Evaluation
        <3>3. iteration \in Nat /\ \A e \in judged : e.script <= iteration
            BY DEF TypeOK, DraftInv
        <3>4. \A e \in judged : e.script < iteration + 1
            BY <2>3, <3>1, <3>2, <3>3
        <3> QED
            BY <2>2, <3>1, <3>2, <3>4
    <2>5. CASE Improves(evaluation.score)
        <3>1. best_script' = evaluation.script /\ best_score' = evaluation.score
            BY <1>2, <2>2, <2>5 DEF ApplyQualityGate
        <3>2. \A f \in judged : f.score < evaluation.score
            <4>1. CASE judged = {}
                BY <4>1
            <4>2. CASE judged # {}
                <5> PICK e \in judged : best_score = e.score /\ \A f \in judged : f.score <= e.score
                    BY <4>2 DEF BestSoFar
                <5>1. e.score < evaluation.score
                    BY <2>3, <2>4, <2>5 DEF Improves, NoScore
                <5> QED
                    BY <2>2, <2>3, <2>4, <5>1
            <4> QED
                BY <4>1, <4>2
        <3> QED
            BY <2>2, <2>3, <2>4, <3>1, <3>2 DEF BestSoFar
    <2>6. CASE ~Improves(evaluation.score)
        <3>1. UNCHANGED <<best_script, best_score>> /\ best_score # NoScore
              /\ ~(evaluation.score > best_score)
            BY <1>2, <2>6 DEF ApplyQualityGate, Improves
        <3>2. judged # {}
            BY <3>1 DEF BestSoFar
        <3> PICK e \in judged :
                /\ best_script = e.script /\ best_score = e.score
                /\ \A f \in judged : f.score <= e.score
                /\ \A f \in judged : f.script < e.script => f.score < e.score
            BY <3>2 DEF BestSoFar
        <3>3. e \in judged' /\ evaluation.score <= e.score /\ e.script < evaluation.script
            BY <2>2, <2>3, <2>4, <3>1
        <3>4. \A f \in judged' : f.score <= e.score
            BY <2>3, <3>3
        <3>5. \A f \in judged' : f.script < e.script => f.score < e.score
            BY <2>2, <2>3, <2>4, <3>3
        <3> QED
            BY <3>1, <3>3, <3>4, <3>5 DEF BestSoFar
    <2> QED
        BY <2>5, <2>6
<1> QED
    BY <1>1, <1>2, OnlyGateJudges

\* From the gate to the release there is one script, and it stays the same.
LEMMA ReviewStep ==
    TypeOK /\ ControlInv /\ CountInv /\ DraftInv /\ BestSoFar /\ ReviewInv /\ [Next]_vars
        => ReviewInv'
<1> SUFFICES ASSUME TypeOK, ControlInv, CountInv, DraftInv, BestSoFar, ReviewInv, [Next]_vars
             PROVE  ReviewInv'
    OBVIOUS
<1>0. TypeOK' /\ BestSoFar' /\ status \in StatusAt[next] /\ next \in Node \cup {END}
    BY TypeStep, BestStep DEF ControlInv, TypeOK
<1> USE DEF ReviewInv, ReviewedScriptIsSettled, Worthy, Enter, Succeeded, Failed, Edge,
        control, draft, best, review, product, END
<1>1. CASE Research
    BY <1>0, <1>1 DEF Research, StatusAt
<1>2. CASE MemoryRetrieve
    BY <1>0, <1>2 DEF MemoryRetrieve, StatusAt
<1>3. CASE Scriptwriter
    BY <1>0, <1>3 DEF Scriptwriter, StatusAt
<1>4. CASE Evaluator
    BY <1>0, <1>4 DEF Evaluator, StatusAt
<1>5. CASE QualityGate
    <2>0. status = "EVALUATING" /\ next = "quality_gate" /\ final_short_concept = NoScript
          /\ UNCHANGED <<evaluation, final_short_concept>>
        BY <1>0, <1>5 DEF QualityGate, StatusAt
    <2>1. CASE generated_script = NoScript \/ evaluation = NoEvaluation
        BY <1>5, <2>0, <2>1 DEF QualityGate, Follow, RouteAfterGate
    <2>2. CASE ApplyQualityGate
        <3>1. evaluation \in Evaluation /\ evaluation.script = generated_script
              /\ judged' = judged \cup {evaluation} /\ iteration' = iteration + 1
            BY <2>0, <2>2 DEF DraftInv, ApplyQualityGate
        <3>2. CASE status' = "PASSED"
            <4>1. evaluation.approved /\ evaluation.score >= Threshold
                  /\ generated_script' = generated_script
                BY <2>2, <3>2 DEF ApplyQualityGate, Passes
            <4> QED
                BY <2>0, <3>1, <3>2, <4>1
        <3>3. CASE status' = "EXHAUSTED"
            <4>1. generated_script' = ExhaustedScript(best_script') /\ ~MayRetry(iteration + 1)
                BY <2>2, <3>3 DEF ApplyQualityGate
            <4> PICK e \in judged' : best_script' = e.script /\ \A f \in judged' : f.score <= e.score
                BY <1>0, <3>1 DEF BestSoFar
            <4>2. best_script' # NoScript
                BY <1>0 DEF TypeOK, Evaluation
            <4>3. generated_script' = best_script' /\ iteration' >= MaxIterations
                BY <3>1, <4>1, <4>2, GraphAssumption DEF ExhaustedScript, MayRetry, TypeOK
            <4> QED
                BY <2>0, <3>3, <4>3
        <3>4. CASE status' = "SCRIPTING"
            BY <1>5, <2>0, <3>4 DEF QualityGate, Follow, RouteAfterGate
        <3> QED
            BY <2>2, <3>2, <3>3, <3>4 DEF ApplyQualityGate
    <2> QED
        BY <1>5, <2>1, <2>2 DEF QualityGate
<1>6. CASE HumanReview
    <2>1. status \in {"PASSED", "EXHAUSTED"}
        BY <1>0, <1>6 DEF HumanReview, StatusAt
    <2>2. CASE hitl_required
        BY <1>6, <2>1, <2>2 DEF HumanReview
    <2>3. CASE ~hitl_required
        BY <1>6, <2>1, <2>3 DEF HumanReview, AutoApprove, Follow, RouteAfterHuman
    <2> QED
        BY <2>2, <2>3
<1>7. CASE \E d \in Decision, h \in BOOLEAN : Resume(d, h)
    <2> PICK d \in Decision, h \in BOOLEAN : Resume(d, h)
        BY <1>7
    <2>1. status \in {"PASSED", "EXHAUSTED"}
        BY <1>0 DEF Resume, ControlInv, StatusAt
    <2>2. UNCHANGED <<draft, best, product>>
        BY DEF Resume
    <2>3. /\ status' \in {"APPROVED", "SCRIPTING", "FAILED"} /\ next' # "human_review"
          /\ status' = "APPROVED" =>
                human_decision' = "approve" /\ approved_script' = generated_script
        BY DEF Resume, Decide, OutOfRounds, GiveUp, AutoApprove, Follow, RouteAfterHuman
    <2> QED
        BY <2>1, <2>2, <2>3
<1>8. CASE Visualizer
    BY <1>0, <1>8 DEF Visualizer, StatusAt
<1>9. CASE Formatter
    BY <1>0, <1>9 DEF Formatter, StatusAt
<1>10. CASE FallThrough
    <2>1. status = "FAILED" /\ status' = "FAILED" /\ UNCHANGED product
        BY <1>10 DEF FallThrough
    <2>2. next \in Node /\ next # "human_review"
        BY <1>0, <1>10, <2>1 DEF FallThrough, StatusAt
    <2>3. next' # "human_review"
        BY <1>10, <2>1, <2>2 DEF FallThrough, Follow, RouteAfterGate, Node, END
    <2> QED
        BY <1>0, <2>1, <2>3
<1>11. CASE UNCHANGED vars
    BY <1>11 DEF vars
<1> QED
    BY <1>1, <1>2, <1>3, <1>4, <1>5, <1>6, <1>7, <1>8, <1>9, <1>10, <1>11 DEF Next, Step

-----------------------------------------------------------------------------
(***************************************************************************)
(* The theorems.                                                           *)
(***************************************************************************)

\* The inductive invariant holds throughout every run.
THEOREM Invariance == Spec => []IInv
<1>1. IInv /\ [Next]_vars => IInv'
    BY TypeStep, ControlStep, CountStep, DraftStep, BestStep, ReviewStep DEF IInv
<1> QED
    BY InitIInv, <1>1, PTL DEF Spec

\* Every field of WorkflowState keeps its type, the review count included.
THEOREM TypeCorrect == Spec => []TypeOK
<1>1. IInv => TypeOK
    BY DEF IInv
<1> QED
    BY Invariance, <1>1, PTL

\* apply_quality_gate never loses a better version.
THEOREM NeverLoseBetter == Spec => []BestSoFar
<1>1. IInv => BestSoFar
    BY DEF IInv
<1> QED
    BY Invariance, <1>1, PTL

\* The reviewer is shown a passed script or the best one, nothing else.
THEOREM SettledBeforeReview == Spec => []ReviewedScriptIsSettled
<1>1. IInv => ReviewedScriptIsSettled
    BY DEF IInv, ReviewInv
<1> QED
    BY Invariance, <1>1, PTL

\* The rewrite loop and the review loop together have a budget.
THEOREM WorkIsBounded == Spec => []BoundedWork
<1>1. IInv => BoundedWork
    BY DEF IInv, CountInv, BoundedWork
<1> QED
    BY Invariance, <1>1, PTL

\* The final concept holds the approved script.
THEOREM ReleaseNeedsApproval == Spec => []ReleasedIsApproved
<1>1. ASSUME IInv, status = "COMPLETED"
      PROVE  /\ human_decision = "approve"
             /\ final_short_concept = approved_script
             /\ visual_concepts = approved_script
             /\ final_short_concept # NoScript
    <2>1. /\ human_decision = "approve" /\ approved_script = generated_script
          /\ visual_concepts = generated_script /\ final_short_concept = generated_script
          /\ Worthy(generated_script) /\ judged \subseteq Evaluation
        BY <1>1 DEF IInv, ReviewInv, TypeOK
    <2>2. generated_script # NoScript
        BY <2>1 DEF Worthy, Evaluation
    <2> QED
        BY <2>1, <2>2
<1>2. IInv => ReleasedIsApproved
    BY <1>1 DEF ReleasedIsApproved
<1> QED
    BY Invariance, <1>2, PTL

\* A released script passed the judge or was the best of all judged.
THEOREM ReleaseIsWorthIt == Spec => []ReleasedIsWorthIt
<1>1. IInv => ReleasedIsWorthIt
    BY DEF IInv, ReviewInv, Worthy, ReleasedIsWorthIt
<1> QED
    BY Invariance, <1>1, PTL

\* Behind a failure nothing changes but the node that is due.
THEOREM FailureStays == Spec => FailureIsFinal
<1>1. ASSUME IInv, [Next]_vars, status = "FAILED"
      PROVE  UNCHANGED <<status, error_node, paused, draft, best, review, product>>
    <2>1. ~paused
        BY <1>1 DEF IInv, ControlInv, StatusAt
    <2>2. CASE FallThrough
        BY <2>2 DEF FallThrough
    <2>3. CASE UNCHANGED vars
        BY <2>3 DEF vars, control
    <2>4. ~(Step /\ ~FallThrough)
        BY <1>1 DEF Step, Enter, Research, MemoryRetrieve, Scriptwriter, Evaluator,
            QualityGate, HumanReview, Visualizer, Formatter
    <2>5. ~\E d \in Decision, h \in BOOLEAN : Resume(d, h)
        BY <2>1 DEF Resume
    <2> QED
        BY <1>1, <2>2, <2>3, <2>4, <2>5 DEF Next
<1>2. IInv /\ [Next]_vars
        => [status = "FAILED" =>
              UNCHANGED <<status, error_node, paused, draft, best, review, product>>]_vars
    BY <1>1
<1> QED
    BY Invariance, <1>2, PTL DEF Spec, FailureIsFinal

-----------------------------------------------------------------------------
(***************************************************************************)
(* The graph implements ReviewedRun.                                       *)
(***************************************************************************)

\* The script ReviewedRun sees in front of the reviewer.
Presented ==
    IF Phase \in {"review", "approved", "released"} THEN generated_script ELSE NoScript

\* The phase can be read off the status.
PhaseByStatus ==
    /\ status = "FAILED" => Phase = "failed"
    /\ status = "COMPLETED" => Phase = "released"
    /\ status \in {"APPROVED", "VISUALIZING"} => Phase = "approved"
    /\ status \in {"PASSED", "EXHAUSTED"} =>
          Phase = IF paused THEN "review" ELSE "working"
    /\ status \in {"INITIALIZED", "RESEARCHING", "SCRIPTING", "EVALUATING"} =>
          Phase = "working"

LEMMA PhaseOf == IInv => PhaseByStatus
<1> SUFFICES ASSUME IInv PROVE PhaseByStatus
    OBVIOUS
<1>1. paused => status \in {"PASSED", "EXHAUSTED"}
    BY DEF IInv, ControlInv, StatusAt
<1> QED
    BY <1>1 DEF Phase, PhaseByStatus

\* A script for review is one the run has written.
LEMMA ReviewedIsScript ==
    ASSUME IInv, status \in {"PASSED", "EXHAUSTED"}
    PROVE  generated_script \in 1..(MaxIterations + MaxHumanRounds)
<1>1. PICK e \in judged : e.script = generated_script
    BY DEF IInv, ReviewInv, Worthy
<1>2. e.script \in Nat \ {0} /\ e.script <= iteration
    BY DEF IInv, TypeOK, Evaluation, DraftInv, NoScript
<1>3. iteration <= MaxIterations + MaxHumanRounds
    BY GraphAssumption DEF IInv, CountInv, TypeOK
<1> QED
    BY <1>1, <1>2, <1>3, GraphAssumption DEF IInv, TypeOK

\* What of the graph ReviewedRun sees, as far as it does not follow a status.
Outside == <<human_revision_count, final_short_concept>>

\* Two kinds of steps that ReviewedRun allows or does not see.
LEMMA Unseen ==
    ASSUME Phase' = Phase, Presented' = Presented, UNCHANGED Outside
    PROVE  UNCHANGED Promise!vars
BY DEF Outside, Presented, Promise!vars

LEMMA FailsAsPromised ==
    ASSUME Phase \in {"working", "approved"}, Phase' = "failed", UNCHANGED Outside
    PROVE  Promise!Next
BY DEF Outside, Promise!Next, Promise!Fail

\* Every step of the graph is a step of ReviewedRun, or none.
LEMMA StepsAsPromised ==
    IInv /\ IInv' /\ [Next]_vars => [Promise!Next]_(Promise!vars)
<1> SUFFICES ASSUME IInv, IInv', [Next]_vars
             PROVE  Promise!Next \/ UNCHANGED Promise!vars
    OBVIOUS
<1>0. PhaseByStatus /\ status \in StatusAt[next] /\ next \in Node \cup {END}
    BY PhaseOf DEF IInv, TypeOK, ControlInv
<1>00. PhaseByStatus'
    BY PhaseOf, PTL
<1> USE DEF Outside, Presented, Enter, Succeeded, Failed, control, draft, best, review, product
<1>1. CASE Research \/ MemoryRetrieve \/ Scriptwriter \/ Evaluator
    <2>1. status \in {"INITIALIZED", "RESEARCHING", "SCRIPTING", "EVALUATING"}
        BY <1>0, <1>1 DEF Research, MemoryRetrieve, Scriptwriter, Evaluator, StatusAt
    <2>2. status' \in {"RESEARCHING", "SCRIPTING", "EVALUATING", "FAILED"}
        BY <1>0, <1>1 DEF Research, MemoryRetrieve, Scriptwriter, Evaluator, StatusAt
    <2>3. UNCHANGED Outside
        BY <1>1 DEF Research, MemoryRetrieve, Scriptwriter, Evaluator
    <2> QED
        BY <1>0, <1>00, <2>1, <2>2, <2>3, Unseen, FailsAsPromised DEF PhaseByStatus
<1>2. CASE QualityGate
    <2>1. status = "EVALUATING" /\ ~paused'
        BY <1>0, <1>2 DEF QualityGate, StatusAt
    <2>2. status' \in {"PASSED", "SCRIPTING", "EXHAUSTED", "FAILED"}
        BY <1>2 DEF QualityGate, ApplyQualityGate
    <2>3. UNCHANGED Outside
        BY <1>2 DEF QualityGate
    <2> QED
        BY <1>0, <1>00, <2>1, <2>2, <2>3, Unseen, FailsAsPromised DEF PhaseByStatus
<1>3. CASE HumanReview
    <2>1. /\ status \in {"PASSED", "EXHAUSTED"} /\ ~paused
          /\ UNCHANGED Outside /\ generated_script' = generated_script
        BY <1>0, <1>3 DEF HumanReview, AutoApprove, StatusAt
    <2>2. generated_script \in 1..(MaxIterations + MaxHumanRounds)
        BY <2>1, ReviewedIsScript
    <2>3. CASE hitl_required
        <3>1. paused' /\ status' = status
            BY <1>3, <2>3 DEF HumanReview
        <3>2. Promise!Present(generated_script)
            BY <1>0, <1>00, <2>1, <3>1 DEF PhaseByStatus, Promise!Present
        <3> QED
            BY <2>2, <3>2 DEF Promise!Next
    <2>4. CASE ~hitl_required
        <3>1. status' = "APPROVED"
            BY <1>3, <2>4 DEF HumanReview, AutoApprove
        <3>2. Promise!AutoApprove(generated_script)
            BY <1>0, <1>00, <2>1, <3>1 DEF PhaseByStatus, Promise!AutoApprove
        <3> QED
            BY <2>2, <3>2 DEF Promise!Next
    <2> QED
        BY <2>3, <2>4
<1>4. CASE \E d \in Decision, h \in BOOLEAN : Resume(d, h)
    <2> PICK d \in Decision, h \in BOOLEAN : Resume(d, h)
        BY <1>4
    <2>1. status \in {"PASSED", "EXHAUSTED"} /\ Phase = "review" /\ ~paused'
        BY <1>0 DEF Resume, IInv, ControlInv, StatusAt, PhaseByStatus
    <2>2. generated_script' = generated_script /\ final_short_concept' = final_short_concept
        BY DEF Resume
    <2>3. human_revision_count \in 0..(MaxHumanRounds + 1) /\ MaxHumanRounds \in Nat
        BY GraphAssumption DEF IInv, TypeOK
    <2>4. CASE status' = "APPROVED" /\ UNCHANGED human_revision_count
        <3>1. Promise!Approve
            BY <1>00, <2>1, <2>2, <2>4 DEF PhaseByStatus, Promise!Approve
        <3> QED
            BY <3>1 DEF Promise!Next
    <2>5. CASE /\ status' = "FAILED" /\ human_revision_count + 1 > MaxHumanRounds
               /\ human_revision_count' = human_revision_count + 1
        <3>1. human_revision_count <= MaxHumanRounds
            BY <2>1 DEF IInv, ControlInv
        <3>2. Promise!GiveUp
            BY <1>00, <2>1, <2>2, <2>3, <2>5, <3>1 DEF PhaseByStatus, Promise!GiveUp
        <3> QED
            BY <3>2 DEF Promise!Next
    <2>6. CASE /\ status' = "SCRIPTING" /\ human_revision_count + 1 <= MaxHumanRounds
               /\ human_revision_count' = human_revision_count + 1
        <3>1. Promise!SendBack
            BY <1>00, <2>1, <2>2, <2>3, <2>6 DEF PhaseByStatus, Promise!SendBack
        <3> QED
            BY <3>1 DEF Promise!Next
    <2> QED
        BY <2>3, <2>4, <2>5, <2>6 DEF Resume, Decide, OutOfRounds, GiveUp, AutoApprove
<1>5. CASE Visualizer
    <2>1. status = "APPROVED" /\ status' \in {"VISUALIZING", "FAILED"}
        BY <1>0, <1>5 DEF Visualizer, StatusAt
    <2>2. UNCHANGED Outside /\ generated_script' = generated_script
        BY <1>5 DEF Visualizer
    <2> QED
        BY <1>0, <1>00, <2>1, <2>2, Unseen, FailsAsPromised DEF PhaseByStatus
<1>6. CASE Formatter
    <2>1. status = "VISUALIZING" /\ generated_script' = generated_script
        BY <1>0, <1>6 DEF Formatter, StatusAt
    <2>2. CASE status' = "FAILED"
        <3>1. UNCHANGED Outside
            BY <1>6, <2>2 DEF Formatter
        <3> QED
            BY <1>0, <1>00, <2>1, <2>2, <3>1, FailsAsPromised DEF PhaseByStatus
    <2>3. CASE status' = "COMPLETED"
        <3>1. /\ final_short_concept' = generated_script
              /\ human_revision_count' = human_revision_count
            BY <1>6, <2>3 DEF Formatter
        <3>2. Promise!Release
            BY <1>0, <1>00, <2>1, <2>3, <3>1 DEF PhaseByStatus, Promise!Release
        <3> QED
            BY <3>2 DEF Promise!Next
    <2> QED
        BY <1>6, <2>2, <2>3 DEF Formatter
<1>7. CASE FallThrough
    <2>1. status = "FAILED" /\ status' = "FAILED" /\ UNCHANGED Outside
        BY <1>7 DEF FallThrough
    <2> QED
        BY <1>0, <1>00, <2>1, Unseen DEF PhaseByStatus
<1>8. CASE UNCHANGED vars
    BY <1>8, Unseen DEF vars, Phase
<1> QED
    BY <1>1, <1>2, <1>3, <1>4, <1>5, <1>6, <1>7, <1>8 DEF Next, Step

\* The graph keeps every promise of ReviewedRun, for any number of attempts,
\* rounds and scores: one script is presented, and it or none is released.
THEOREM GraphKeepsPromise == Spec => ImplementsPromise
<1>1. Init /\ IInv => Promise!Init
    BY PhaseOf DEF Init, PhaseByStatus, Promise!Init, NoScript
<1> QED
    BY Invariance, InitIInv, <1>1, StepsAsPromised, PTL
        DEF Spec, ImplementsPromise, Promise!Spec
=============================================================================
