--------------------------- MODULE BriefRunProofs ---------------------------
(***************************************************************************)
(* Proofs about BriefRun for every number of attempts, rounds and mishaps, *)
(* every threshold and every feedback: the inductive invariant BriefIInv,  *)
(* BriefInv that follows from it, and that a brief run implements          *)
(* ReviewedRun.                                                            *)
(***************************************************************************)
EXTENDS BriefRun, TLAPS

-----------------------------------------------------------------------------
(***************************************************************************)
(* The rubric.                                                             *)
(***************************************************************************)

\* A judgment is an evaluation with one of the four scores.
LEMMA JudgeType ==
    ASSUME NEW m \in Marker, NEW d
    PROVE  /\ SyntheticJudge(m, d) \in BriefEvaluation
           /\ SyntheticJudge(m, d).score \in {35, 50, 85, 90}
           /\ SyntheticJudge(m, d).approved \in BOOLEAN
<1> DEFINE Judgments == {[score |-> 35, issue |-> "reject", approved |-> FALSE],
                         [score |-> 85, issue |-> NoText, approved |-> TRUE],
                         [score |-> 50, issue |-> "retry", approved |-> FALSE],
                         [score |-> 90, issue |-> NoText, approved |-> TRUE]}
<1>1. SyntheticJudge(m, d) \in Judgments
    <2>1. CASE m = "reject"
        BY <2>1 DEF SyntheticJudge
    <2>2. CASE m = "retry_pass" /\ d.answers # NoText
        BY <2>2 DEF SyntheticJudge
    <2>3. CASE m = "retry_pass" /\ d.answers = NoText
        BY <2>3 DEF SyntheticJudge
    <2>4. CASE m = "none"
        BY <2>4 DEF SyntheticJudge
    <2> QED
        BY <2>1, <2>2, <2>3, <2>4 DEF Marker
<1>2. ASSUME NEW score \in {35, 50, 85, 90}, NEW issue \in Issue \cup {NoText},
             NEW approved \in BOOLEAN, NEW j,
             j = [score |-> score, issue |-> issue, approved |-> approved]
      PROVE  /\ j \in BriefEvaluation /\ j.score \in {35, 50, 85, 90} /\ j.approved \in BOOLEAN
    BY <1>2 DEF BriefEvaluation
<1>3. ASSUME NEW j \in Judgments
      PROVE  /\ j \in BriefEvaluation /\ j.score \in {35, 50, 85, 90} /\ j.approved \in BOOLEAN
    <2>1. CASE j = [score |-> 35, issue |-> "reject", approved |-> FALSE]
        BY <1>2, <2>1 DEF Issue
    <2>2. CASE j = [score |-> 85, issue |-> NoText, approved |-> TRUE]
        BY <1>2, <2>2, ZenonT(40)
    <2>3. CASE j = [score |-> 50, issue |-> "retry", approved |-> FALSE]
        BY <1>2, <2>3 DEF Issue
    <2>4. CASE j = [score |-> 90, issue |-> NoText, approved |-> TRUE]
        BY <1>2, <2>4, ZenonT(40)
    <2> QED
        BY <2>1, <2>2, <2>3, <2>4
<1> HIDE DEF Judgments
<1> QED
    BY <1>1, <1>3

\* The score of an approval tells the whole judgment: within one run, a draft
\* that scores as well as an approved one has the same evaluation.  It is why
\* the gate may exchange the draft and keep the evaluation.
LEMMA ApprovalsAreAlike ==
    ASSUME NEW m \in Marker, NEW d, NEW e,
           SyntheticJudge(m, d).approved,
           SyntheticJudge(m, e).score >= SyntheticJudge(m, d).score
    PROVE  SyntheticJudge(m, e) = SyntheticJudge(m, d)
BY DEF SyntheticJudge, Marker

-----------------------------------------------------------------------------
(***************************************************************************)
(* The inductive invariant.                                                *)
(***************************************************************************)

\* A run starts in the invariant.
LEMMA BriefBegins == BriefInit => BriefIInv
<1> SUFFICES ASSUME BriefInit PROVE BriefIInv
    OBVIOUS
<1> USE BriefAssumption DEF BriefInit, NoScore, NoText
<1>1. BriefTypeOK
    <2>1. row \in Row
        BY DEF Row, NoRow
    <2>2. 0 \in 0..(MaxIterations + MaxHumanRounds) /\ 0 \in 0..(MaxHumanRounds + 1)
          /\ 0 \in 0..MaxMishaps
        OBVIOUS
    <2> QED
        BY <2>1, <2>2 DEF BriefTypeOK, Node, Status
<1>2. ControlInv
    BY DEF ControlInv, StatusAt
<1>3. CountInv
    BY DEF CountInv, InLoop
<1>4. JudgedInv
    BY DEF JudgedInv, END
<1>5. BestInv
    BY DEF BestInv
<1>6. SettledInv
    BY DEF SettledInv
<1>7. RowFollowsBrief
    BY DEF RowFollowsBrief, NoRow
<1> QED
    BY <1>1, <1>2, <1>3, <1>4, <1>5, <1>6, <1>7 DEF BriefIInv

\* What no step of the graph touches.
LEMMA StepFrame == Step => request' = request /\ hitl_required' = hitl_required
BY DEF Step, Enter, Research, MemoryRetrieve, Writer, Evaluator, QualityGate, HumanReview,
       Formatter, input

\* The types of the graph and of the row, apart.
GraphTypeOK ==
    /\ request \in Marker
    /\ memory_context \in BOOLEAN
    /\ next \in Node \cup {END}
    /\ paused \in BOOLEAN
    /\ hitl_required \in BOOLEAN
    /\ status \in Status
    /\ generated_draft \in BriefDraft \cup {NoDraft}
    /\ evaluation \in BriefEvaluation \cup {NoEvaluation}
    /\ best_draft \in BriefDraft \cup {NoDraft}
    /\ best_score \in {35, 50, 85, 90, NoScore}
    /\ iteration \in 0..(MaxIterations + MaxHumanRounds)
    /\ human_feedback \in Feedback \cup {NoText}
    /\ human_revision_count \in 0..(MaxHumanRounds + 1)
    /\ final_brief_concept \in {NoConcept} \cup
            [draft : BriefDraft, evaluation : BriefEvaluation]
    /\ approved_draft \in BriefDraft \cup {NoDraft}
    /\ judged \in SUBSET BriefDraft

GraphIInv == GraphTypeOK /\ ControlInv /\ CountInv /\ JudgedInv /\ BestInv /\ SettledInv

RowTypeOK == doing \in {"idle", "invoke"} /\ row \in Row /\ mishaps \in 0..MaxMishaps

\* The invariant, with the row apart from the graph.
LEMMA Apart == BriefIInv <=> GraphIInv /\ RowTypeOK /\ RowFollowsBrief
BY DEF BriefIInv, BriefTypeOK, GraphIInv, GraphTypeOK, RowTypeOK

\* The nodes of the brief, one by one.
LEMMA ResearchKeeps == GraphIInv /\ Research => GraphIInv'
<1> SUFFICES ASSUME GraphIInv, Research PROVE GraphIInv'
    OBVIOUS
<1> USE DEF GraphIInv, Research, Enter, Edge, draft, best, review
<1>1. GraphTypeOK'
    BY DEF GraphTypeOK, Node, Status
<1>2. ControlInv'
    BY DEF ControlInv, StatusAt
<1>3. CountInv' /\ JudgedInv' /\ BestInv'
    BY DEF CountInv, InLoop, JudgedInv, END, BestInv
<1>4. SettledInv'
    BY DEF SettledInv, ControlInv, StatusAt
<1> QED
    BY <1>1, <1>2, <1>3, <1>4

LEMMA MemoryRetrieveKeeps == GraphIInv /\ MemoryRetrieve => GraphIInv'
<1> SUFFICES ASSUME GraphIInv, MemoryRetrieve PROVE GraphIInv'
    OBVIOUS
<1> USE DEF GraphIInv, MemoryRetrieve, Enter, Edge, draft, best, review
<1>1. GraphTypeOK'
    BY DEF GraphTypeOK, Node, Status
<1>2. ControlInv'
    BY DEF ControlInv, StatusAt
<1>3. CountInv' /\ JudgedInv' /\ BestInv'
    BY DEF CountInv, InLoop, JudgedInv, END, BestInv
<1>4. SettledInv'
    BY DEF SettledInv, ControlInv, StatusAt
<1> QED
    BY <1>1, <1>2, <1>3, <1>4

\* The writer has a draft, whatever came before.
LEMMA WriterKeeps == GraphIInv /\ Writer => GraphIInv'
<1> SUFFICES ASSUME GraphIInv, Writer PROVE GraphIInv'
    OBVIOUS
<1>1. DemoBrief \in BriefDraft
    BY DEF DemoBrief, BriefDraft, GraphIInv, GraphTypeOK, BriefEvaluation, NoEvaluation, NoText,
           Issue
<1> USE DEF GraphIInv, Writer, Enter, Edge, best, review
<1>2. GraphTypeOK'
    BY <1>1 DEF GraphTypeOK, Node, Status
<1>3. ControlInv'
    BY DEF ControlInv, StatusAt
<1>4. CountInv' /\ JudgedInv' /\ BestInv'
    BY <1>1 DEF CountInv, InLoop, JudgedInv, END, BestInv
<1>5. SettledInv'
    BY DEF SettledInv, ControlInv, StatusAt
<1> QED
    BY <1>2, <1>3, <1>4, <1>5

LEMMA EvaluatorKeeps == GraphIInv /\ Evaluator => GraphIInv'
<1> SUFFICES ASSUME GraphIInv, Evaluator PROVE GraphIInv'
    OBVIOUS
<1>1. SyntheticJudge(request, generated_draft) \in BriefEvaluation
    BY JudgeType DEF GraphIInv, GraphTypeOK
<1> USE DEF GraphIInv, Evaluator, Enter, Edge, best, review
<1>2. GraphTypeOK'
    BY <1>1 DEF GraphTypeOK, Node, Status
<1>3. ControlInv'
    BY DEF ControlInv, StatusAt
<1>4. CountInv' /\ JudgedInv' /\ BestInv'
    BY <1>1 DEF CountInv, InLoop, JudgedInv, END, BestInv
<1>5. SettledInv'
    BY DEF SettledInv, ControlInv, StatusAt
<1> QED
    BY <1>2, <1>3, <1>4, <1>5

\* The gate: the best draft stays the best, and what leaves it is worth a
\* review, exchanged or not.
LEMMA QualityGateKeeps == GraphIInv /\ QualityGate => GraphIInv'
<1> SUFFICES ASSUME GraphIInv, QualityGate PROVE GraphIInv'
    OBVIOUS
<1> PICK m \in Marker : request = m
    BY DEF GraphIInv, GraphTypeOK
<1> DEFINE S(d) == SyntheticJudge(m, d)
           better == best_score = NoScore \/ evaluation.score > best_score
           passed == evaluation.approved /\ evaluation.score >= Threshold
<1>1. /\ next = "quality_gate" /\ ~paused /\ paused' = paused /\ request' = m
      /\ UNCHANGED <<request, memory_context, hitl_required, evaluation, human_feedback,
                     human_revision_count, approved_draft, final_brief_concept>>
      /\ best_score' = IF better THEN evaluation.score ELSE best_score
      /\ best_draft' = IF better THEN generated_draft ELSE best_draft
      /\ iteration' = iteration + 1
      /\ judged' = judged \cup {generated_draft}
      /\ next' = RouteAfterGate(status')
      /\ \/ passed /\ status' = "PASSED" /\ generated_draft' = generated_draft
         \/ ~passed /\ status' = "SCRIPTING" /\ generated_draft' = generated_draft
         \/ ~passed /\ status' = "EXHAUSTED" /\ generated_draft' = best_draft'
      /\ status' = "SCRIPTING" => iteration' < MaxIterations
    BY DEF QualityGate, Enter, ExhaustedDraft, review
<1>2. /\ status = "EVALUATING" /\ best_score \in {35, 50, 85, 90, NoScore} /\ Threshold \in Nat
      /\ generated_draft \in BriefDraft /\ evaluation = S(generated_draft)
      /\ evaluation \in BriefEvaluation
    BY <1>1, BriefAssumption DEF GraphIInv, GraphTypeOK, ControlInv, StatusAt, JudgedInv
<1>3. \A d : /\ S(d).score \in {35, 50, 85, 90} /\ S(d).score \in Nat
             /\ S(d).score # NoScore /\ S(d).approved \in BOOLEAN
    BY JudgeType DEF NoScore
<1>4. \A d, e : S(d).approved /\ S(e).score >= S(d).score => S(e) = S(d)
    BY ApprovalsAreAlike
<1>5. /\ best_score # NoScore => /\ best_draft \in judged /\ best_score = S(best_draft).score
                                /\ \A d \in judged : S(d).score <= best_score
      /\ best_score = NoScore => judged = {}
      /\ judged \subseteq BriefDraft
    BY DEF GraphIInv, BestInv, GraphTypeOK
<1> HIDE DEF S
<1>6. /\ best_draft' \in judged' /\ best_draft' \in BriefDraft
      /\ best_score' = S(best_draft').score
      /\ \A d \in judged' : S(d).score <= best_score'
      /\ best_score' \in {35, 50, 85, 90}
    BY <1>1, <1>2, <1>3, <1>5 DEF NoScore
<1>7. \/ status' = "SCRIPTING" /\ next' = "writer"
      \/ status' \in {"PASSED", "EXHAUSTED"} /\ next' = "human_review"
    BY <1>1 DEF RouteAfterGate
<1>8. generated_draft' \in BriefDraft
    BY <1>1, <1>2, <1>6
<1>9. GraphTypeOK'
    <2>1. iteration' \in 0..(MaxIterations + MaxHumanRounds)
        BY <1>1, <1>2, BriefAssumption DEF GraphIInv, GraphTypeOK, ControlInv, CountInv, InLoop
    <2>2. next' \in Node \cup {END} /\ status' \in Status
        BY <1>7 DEF Node, Status
    <2>3. judged' \in SUBSET BriefDraft /\ generated_draft' \in BriefDraft \cup {NoDraft}
        BY <1>1, <1>2, <1>5, <1>8
    <2>4. /\ best_draft' \in BriefDraft \cup {NoDraft}
          /\ best_score' \in {35, 50, 85, 90, NoScore}
        BY <1>6
    <2>5. paused' = FALSE
        BY <1>1 DEF GraphIInv, GraphTypeOK
    <2>6. UNCHANGED <<request, memory_context, hitl_required, evaluation, human_feedback,
                      human_revision_count, approved_draft, final_brief_concept>>
        BY <1>1
    <2> QED
        BY <2>1, <2>2, <2>3, <2>4, <2>5, <2>6 DEF GraphIInv, GraphTypeOK
<1>10. ControlInv'
    BY <1>1, <1>2, <1>7 DEF GraphIInv, ControlInv, StatusAt
<1>11. CountInv'
    BY <1>1, <1>2, <1>7, BriefAssumption DEF GraphIInv, GraphTypeOK, ControlInv, CountInv, InLoop
<1>12. JudgedInv'
    BY <1>1, <1>2, <1>7, <1>8 DEF JudgedInv
<1>13. BestInv'
    <2>1. /\ best_score' # NoScore /\ best_draft' \in judged'
          /\ best_score' = SyntheticJudge(request', best_draft').score
          /\ \A d \in judged' : SyntheticJudge(request', d).score <= best_score'
        BY <1>1, <1>6 DEF S, NoScore
    <2> QED
        BY <2>1 DEF BestInv
<1>14. SettledInv'
    <2>1. ASSUME status' \in {"PASSED", "EXHAUSTED"}
          PROVE  /\ \/ S(generated_draft').approved /\ S(generated_draft').score >= Threshold
                    \/ \A e \in judged' : S(e).score <= S(generated_draft').score
                 /\ evaluation.approved => evaluation = S(generated_draft')
        <3>1. CASE passed /\ generated_draft' = generated_draft
            BY <1>2, <3>1
        <3>2. CASE generated_draft' = best_draft'
            <4>1. generated_draft \in judged'
                BY <1>1
            <4>2. S(generated_draft).score <= S(best_draft').score
                BY <1>6, <4>1
            <4>3. evaluation.approved => evaluation = S(best_draft')
                BY <1>2, <1>3, <1>4, <4>2
            <4> QED
                BY <1>6, <3>2, <4>3
        <3> QED
            BY <1>1, <2>1, <3>1, <3>2
    <2>2. status' \in {"PASSED", "EXHAUSTED"} =>
              /\ \/ /\ SyntheticJudge(request', generated_draft').approved
                    /\ SyntheticJudge(request', generated_draft').score >= Threshold
                 \/ \A e \in judged' : SyntheticJudge(request', e).score
                                         <= SyntheticJudge(request', generated_draft').score
              /\ evaluation'.approved => evaluation' = SyntheticJudge(request', generated_draft')
        BY <1>1, <2>1 DEF S
    <2>3. status # "COMPLETED" /\ status' \notin {"APPROVED", "COMPLETED"}
        BY <1>2, <1>7
    <2> QED
        BY <1>1, <2>2, <2>3 DEF GraphIInv, SettledInv, Worthy
<1> QED
    BY <1>9, <1>10, <1>11, <1>12, <1>13, <1>14 DEF GraphIInv

\* The reviewer is shown what the gate has settled.
LEMMA HumanReviewKeeps == GraphIInv /\ HumanReview => GraphIInv'
<1> SUFFICES ASSUME GraphIInv, HumanReview PROVE GraphIInv'
    OBVIOUS
<1>1. /\ next = "human_review" /\ ~paused /\ status \in {"PASSED", "EXHAUSTED"}
      /\ UNCHANGED <<request, memory_context, hitl_required, generated_draft, evaluation,
                     best_draft, best_score, iteration, judged, human_revision_count,
                     final_brief_concept>>
      /\ \/ /\ paused' /\ paused' = TRUE
            /\ UNCHANGED <<next, status, human_feedback, approved_draft>>
         \/ /\ status' = "APPROVED" /\ next' = "formatter" /\ paused' = paused
            /\ human_feedback' = NoText /\ approved_draft' = generated_draft
    BY DEF HumanReview, AutoApprove, RouteAfterHuman, GraphIInv, ControlInv, StatusAt,
           input, draft, best, review
<1>2. GraphTypeOK'
    <2>1. /\ next' \in Node \cup {END} /\ paused' \in BOOLEAN /\ status' \in Status
          /\ human_feedback' \in Feedback \cup {NoText}
          /\ approved_draft' \in BriefDraft \cup {NoDraft}
        BY <1>1 DEF GraphIInv, GraphTypeOK, Node, Status
    <2> QED
        BY <1>1, <2>1 DEF GraphIInv, GraphTypeOK
<1>3. ControlInv'
    BY <1>1 DEF GraphIInv, ControlInv, StatusAt
<1>4. CountInv' /\ JudgedInv'
    BY <1>1 DEF GraphIInv, CountInv, InLoop, JudgedInv, END
<1>5. BestInv'
    BY <1>1 DEF GraphIInv, BestInv
<1>6. SettledInv'
    BY <1>1 DEF GraphIInv, SettledInv, Worthy
<1> QED
    BY <1>2, <1>3, <1>4, <1>5, <1>6 DEF GraphIInv

\* A decision, or a process without human review, takes the run on.
LEMMA ResumeKeeps ==
    ASSUME GraphIInv, NEW d \in Decision, NEW f \in Feedback \cup {NoText}, NEW h \in BOOLEAN,
           Resume(d, f, h)
    PROVE  GraphIInv'
<1>1. /\ paused /\ next = "human_review" /\ status \in {"PASSED", "EXHAUSTED"}
      /\ paused' = FALSE /\ hitl_required' = h
      /\ UNCHANGED <<request, memory_context, generated_draft, evaluation, best_draft,
                     best_score, iteration, judged, final_brief_concept>>
      /\ human_feedback' \in Feedback \cup {NoText}
      /\ \/ /\ status' = "APPROVED" /\ next' = "formatter"
            /\ approved_draft' = generated_draft
            /\ human_revision_count' = human_revision_count
         \/ /\ human_revision_count' = human_revision_count + 1
            /\ approved_draft' = approved_draft
            /\ \/ /\ status' = "FAILED" /\ next' = END
                  /\ human_revision_count + 1 > MaxHumanRounds
               \/ /\ status' = "SCRIPTING" /\ next' = "writer"
                  /\ ~(human_revision_count + 1 > MaxHumanRounds)
    BY DEF Resume, Decide, AutoApprove, OutOfRounds, RouteAfterHuman, GraphIInv, ControlInv,
           StatusAt, input, draft, best
<1>2. /\ human_revision_count \in Nat /\ human_revision_count <= MaxHumanRounds
      /\ MaxHumanRounds \in Nat /\ MaxIterations \in Nat /\ iteration \in Nat
    BY <1>1, BriefAssumption DEF GraphIInv, GraphTypeOK, ControlInv
<1>3. GraphTypeOK'
    <2>1. human_revision_count' \in 0..(MaxHumanRounds + 1)
        BY <1>1, <1>2
    <2>2. next' \in Node \cup {END} /\ status' \in Status
        BY <1>1 DEF Node, Status
    <2> QED
        BY <1>1, <2>1, <2>2, ZenonT(40) DEF GraphIInv, GraphTypeOK
<1>4. ControlInv'
    BY <1>1, <1>2 DEF GraphIInv, ControlInv, StatusAt, END
<1>5. CountInv'
    BY <1>1, <1>2 DEF GraphIInv, CountInv, InLoop, END
<1>6. JudgedInv'
    BY <1>1 DEF GraphIInv, JudgedInv, END
<1>7. BestInv'
    BY <1>1 DEF GraphIInv, BestInv
<1>8. SettledInv'
    BY <1>1 DEF GraphIInv, SettledInv, Worthy
<1> QED
    BY <1>3, <1>4, <1>5, <1>6, <1>7, <1>8 DEF GraphIInv

\* The concept is made of the draft and the evaluation as they are.
LEMMA FormatterKeeps == GraphIInv /\ Formatter => GraphIInv'
<1> SUFFICES ASSUME GraphIInv, Formatter PROVE GraphIInv'
    OBVIOUS
<1>1. /\ next = "formatter" /\ next' = END /\ ~paused /\ paused' = paused
      /\ status = "APPROVED" /\ status' = "COMPLETED"
      /\ final_brief_concept' = [draft |-> generated_draft, evaluation |-> evaluation]
      /\ generated_draft \in BriefDraft /\ evaluation \in BriefEvaluation
      /\ UNCHANGED <<request, memory_context, hitl_required, generated_draft, evaluation,
                     best_draft, best_score, iteration, judged, human_feedback,
                     human_revision_count, approved_draft>>
    BY DEF Formatter, Enter, Edge, GraphIInv, ControlInv, StatusAt, JudgedInv, END, draft, best,
           review
<1>2. GraphTypeOK'
    <2>1. final_brief_concept' \in [draft : BriefDraft, evaluation : BriefEvaluation]
        BY <1>1
    <2> QED
        BY <1>1, <2>1 DEF GraphIInv, GraphTypeOK, Status
<1>3. ControlInv'
    BY <1>1 DEF GraphIInv, ControlInv, StatusAt, END
<1>4. CountInv' /\ JudgedInv'
    BY <1>1 DEF GraphIInv, CountInv, InLoop, JudgedInv, END
<1>5. BestInv'
    BY <1>1 DEF GraphIInv, BestInv
<1>6. SettledInv'
    BY <1>1 DEF GraphIInv, SettledInv, Worthy
<1> QED
    BY <1>2, <1>3, <1>4, <1>5, <1>6 DEF GraphIInv

\* Every node keeps the invariant of the graph.
LEMMA GraphStep == GraphIInv /\ Step => GraphIInv'
BY ResearchKeeps, MemoryRetrieveKeeps, WriterKeeps, EvaluatorKeeps, QualityGateKeeps,
   HumanReviewKeeps, FormatterKeeps DEF Step

\* The invariant of the graph depends on nothing else.
LEMMA GraphStands == GraphIInv /\ UNCHANGED graph => GraphIInv'
<1> SUFFICES ASSUME GraphIInv, UNCHANGED graph PROVE GraphIInv'
    OBVIOUS
<1> USE DEF graph, input, control, draft, best, review
<1>1. GraphTypeOK'
    BY DEF GraphIInv, GraphTypeOK
<1>2. ControlInv' /\ CountInv' /\ JudgedInv'
    BY DEF GraphIInv, ControlInv, CountInv, InLoop, JudgedInv
<1>3. BestInv' /\ SettledInv'
    BY DEF GraphIInv, BestInv, SettledInv, Worthy
<1> QED
    BY <1>1, <1>2, <1>3 DEF GraphIInv

\* A row that is finished is that of a thread that has ended, and a thread that
\* has ended takes no step.
LEMMA FinishedStands ==
    ASSUME GraphIInv, RowFollowsBrief, row' = row, Step \/ paused
    PROVE  RowFollowsBrief'
<1>1. next # END
    BY DEF Step, Enter, Research, MemoryRetrieve, Writer, Evaluator, QualityGate, HumanReview,
           Formatter, GraphIInv, ControlInv, END
<1> QED
    BY <1>1 DEF RowFollowsBrief

\* A row stays true of a graph that stands still.
LEMMA RowStands ==
    RowFollowsBrief /\ row' = row /\ UNCHANGED graph => RowFollowsBrief'
BY DEF RowFollowsBrief, graph, control

\* What a process writes of a thread that waits or has ended.
LEMMA WrittenRow ==
    ASSUME GraphIInv
    PROVE  /\ Checkpointed.final = row.final
           /\ Checkpointed.concept = final_brief_concept
           /\ row \in Row => Checkpointed \in Row
           /\ next = END => /\ [Checkpointed EXCEPT !.final = status] \in Row
                            /\ [Checkpointed EXCEPT !.final = status].final = status
                            /\ [Checkpointed EXCEPT !.final = status].concept = final_brief_concept
<1>1. /\ status \in Status
      /\ final_brief_concept \in {NoConcept} \cup [draft : BriefDraft, evaluation : BriefEvaluation]
      /\ next = END => status \in {"COMPLETED", "FAILED"}
    BY DEF GraphIInv, GraphTypeOK, ControlInv, StatusAt, END
<1>2. (IF paused THEN "AWAITING_HUMAN" ELSE status) \in Status \cup {"none", "AWAITING_HUMAN"}
    BY <1>1
<1> QED
    BY <1>1, <1>2 DEF Checkpointed, Row

\* So does every process, with the row it writes.
LEMMA BriefStep == BriefIInv /\ [BriefNext]_briefVars => BriefIInv'
<1> SUFFICES ASSUME GraphIInv, RowTypeOK, RowFollowsBrief, [BriefNext]_briefVars
             PROVE  GraphIInv' /\ RowTypeOK' /\ RowFollowsBrief'
    BY Apart, PTL
<1>1. CASE Invoke
    BY <1>1, GraphStep, FinishedStands DEF Invoke, RowTypeOK
<1>2. CASE Pause
    <2>1. GraphIInv' /\ UNCHANGED graph /\ next # END
        BY <1>2, GraphStands DEF Pause, GraphIInv, ControlInv, END
    <2>2. row' = Checkpointed \/ row' = row
        BY <1>2 DEF Pause
    <2>3. RowTypeOK'
        BY <1>2, <2>2, WrittenRow, BriefAssumption DEF Pause, Mishap, RowTypeOK
    <2>4. row'.final = "none"
        BY <2>1, <2>2, WrittenRow DEF RowFollowsBrief
    <2> QED
        BY <2>1, <2>3, <2>4 DEF RowFollowsBrief
<1>3. CASE PersistFinal
    <2>1. GraphIInv' /\ UNCHANGED graph /\ next = END
        BY <1>3, GraphStands DEF PersistFinal
    <2>2. row' = [Checkpointed EXCEPT !.final = status] \/ row' = row
        BY <1>3 DEF PersistFinal
    <2>3. RowTypeOK'
        BY <1>3, <2>1, <2>2, WrittenRow, BriefAssumption DEF PersistFinal, Mishap, RowTypeOK
    <2>4. RowFollowsBrief'
        BY <2>1, <2>2, WrittenRow DEF RowFollowsBrief, graph, control
    <2> QED
        BY <2>1, <2>3, <2>4
<1>4. CASE Crash
    BY <1>4, GraphStands, RowStands, BriefAssumption DEF Crash, Mishap, RowTypeOK
<1>5. CASE ResumeRun
    <2>1. RowTypeOK' /\ row' = row
        BY <1>5 DEF ResumeRun, RowTypeOK
    <2>2. CASE \E d \in Decision, f \in Feedback \cup {NoText}, h \in BOOLEAN : Resume(d, f, h)
        <3>1. paused
            BY <2>2 DEF Resume
        <3> QED
            BY <2>1, <2>2, <3>1, ResumeKeeps, FinishedStands
    <2>3. CASE UNCHANGED graph
        BY <2>1, <2>3, GraphStands, RowStands
    <2> QED
        BY <1>5, <2>2, <2>3 DEF ResumeRun
<1>6. CASE UNCHANGED briefVars
    BY <1>6, GraphStands, RowStands DEF briefVars, RowTypeOK
<1> QED
    BY <1>1, <1>2, <1>3, <1>4, <1>5, <1>6 DEF BriefNext

\* The inductive invariant: where a run is, what it has judged, what it may
\* release, and its row, in every reachable state.
THEOREM BriefInvariance == BriefSpec => []BriefIInv
BY BriefBegins, BriefStep, PTL DEF BriefSpec

\* Row, draft, judgment and approval of a brief belong together, for every
\* number of attempts, rounds and mishaps and every threshold.
THEOREM BriefHolds == BriefSpec => []BriefInv
<1>1. BriefIInv => BriefInv
    BY DEF BriefIInv, BriefInv, SettledInv, Worthy, ApprovalIsOfTheDraft, BriefIsWorthIt
<1> QED
    BY <1>1, BriefInvariance, PTL

-----------------------------------------------------------------------------
(***************************************************************************)
(* A brief run is a ReviewedRun.                                           *)
(***************************************************************************)

\* The abstract phase, by status.
PhaseByStatus ==
    /\ status = "FAILED" => Phase = "failed"
    /\ status = "COMPLETED" => Phase = "released"
    /\ status = "APPROVED" => Phase = "approved"
    /\ status \in {"PASSED", "EXHAUSTED"} => Phase = IF paused THEN "review" ELSE "working"
    /\ status \in {"INITIALIZED", "RESEARCHING", "SCRIPTING", "EVALUATING"} => Phase = "working"

\* What the promise sees of each status.
LEMMA PhaseOf == GraphIInv => PhaseByStatus
<1> SUFFICES ASSUME GraphIInv PROVE PhaseByStatus
    OBVIOUS
<1>1. paused => status \in {"PASSED", "EXHAUSTED"}
    BY DEF GraphIInv, ControlInv, StatusAt
<1> QED
    BY <1>1 DEF Phase, PhaseByStatus

\* The draft ReviewedRun sees.
Presented == IF Phase \in {"review", "approved", "released"} THEN generated_draft ELSE NoDraft

\* The steps ReviewedRun does not see.
LEMMA Unseen ==
    ASSUME Phase' = Phase, Presented' = Presented,
           UNCHANGED <<human_revision_count, final_brief_concept>>
    PROVE  UNCHANGED Reviewed!vars
BY DEF Presented, Reviewed!vars

\* Every step is a step of ReviewedRun or a stutter.
LEMMA StepsAsPromised ==
    BriefIInv /\ BriefIInv' /\ [BriefNext]_briefVars => [Reviewed!Next]_(Reviewed!vars)
<1> SUFFICES ASSUME GraphIInv, GraphIInv', [BriefNext]_briefVars
             PROVE  Reviewed!Next \/ UNCHANGED Reviewed!vars
    BY Apart, PTL
<1>0. PhaseByStatus /\ status \in StatusAt[next]
    BY PhaseOf DEF GraphIInv, ControlInv
<1>00. PhaseByStatus'
    BY PhaseOf, PTL
<1>1. CASE Research \/ MemoryRetrieve \/ Writer \/ Evaluator \/ QualityGate
    <2>1. status \in {"INITIALIZED", "RESEARCHING", "SCRIPTING", "EVALUATING"}
        BY <1>0, <1>1 DEF Research, MemoryRetrieve, Writer, Evaluator, QualityGate, Enter, StatusAt
    <2>2. /\ status' \in {"INITIALIZED", "RESEARCHING", "SCRIPTING", "EVALUATING", "PASSED",
                       "EXHAUSTED"}
          /\ ~paused'
          /\ UNCHANGED <<human_revision_count, final_brief_concept>>
        BY <1>1, <2>1 DEF Research, MemoryRetrieve, Writer, Evaluator, QualityGate, Enter, review
    <2>3. Phase = "working" /\ Phase' = "working"
        BY <1>0, <1>00, <2>1, <2>2 DEF PhaseByStatus
    <2> QED
        BY <2>2, <2>3, Unseen DEF Presented
<1>2. CASE HumanReview
    <2>1. /\ status \in {"PASSED", "EXHAUSTED"} /\ Phase = "working"
          /\ UNCHANGED <<generated_draft, human_revision_count, final_brief_concept>>
          /\ generated_draft \in BriefDraft
        BY <1>0, <1>2 DEF HumanReview, AutoApprove, StatusAt, PhaseByStatus, GraphIInv, JudgedInv,
                          draft, review
    <2>2. CASE hitl_required
        <3>1. Phase' = "review"
            BY <1>00, <1>2, <2>1, <2>2 DEF HumanReview, PhaseByStatus
        <3>2. Reviewed!Present(generated_draft)
            BY <2>1, <3>1 DEF Reviewed!Present
        <3> QED
            BY <2>1, <3>2 DEF Reviewed!Next
    <2>3. CASE ~hitl_required
        <3>1. Phase' = "approved"
            BY <1>00, <1>2, <2>3 DEF HumanReview, AutoApprove, PhaseByStatus
        <3>2. Reviewed!AutoApprove(generated_draft)
            BY <2>1, <3>1 DEF Reviewed!AutoApprove
        <3> QED
            BY <2>1, <3>2 DEF Reviewed!Next
    <2> QED
        BY <2>2, <2>3
<1>3. CASE \E d \in Decision, f \in Feedback \cup {NoText}, h \in BOOLEAN : Resume(d, f, h)
    <2> PICK d \in Decision, f \in Feedback \cup {NoText}, h \in BOOLEAN : Resume(d, f, h)
        BY <1>3
    <2>1. /\ status \in {"PASSED", "EXHAUSTED"} /\ Phase = "review" /\ ~paused'
          /\ UNCHANGED <<generated_draft, final_brief_concept>>
        BY <1>0 DEF Resume, GraphIInv, ControlInv, StatusAt, PhaseByStatus, draft
    <2>2. /\ human_revision_count \in Nat /\ MaxHumanRounds \in Nat
          /\ human_revision_count <= MaxHumanRounds
        BY <2>1, BriefAssumption DEF GraphIInv, GraphTypeOK, ControlInv
    <2>3. CASE status' = "APPROVED" /\ UNCHANGED human_revision_count
        <3>1. Reviewed!Approve
            BY <1>00, <2>1, <2>3 DEF PhaseByStatus, Reviewed!Approve
        <3> QED
            BY <3>1 DEF Reviewed!Next
    <2>4. CASE /\ status' = "FAILED" /\ human_revision_count + 1 > MaxHumanRounds
               /\ human_revision_count' = human_revision_count + 1
        <3>1. Reviewed!GiveUp
            BY <1>00, <2>1, <2>2, <2>4 DEF PhaseByStatus, Reviewed!GiveUp
        <3> QED
            BY <3>1 DEF Reviewed!Next
    <2>5. CASE /\ status' = "SCRIPTING" /\ ~(human_revision_count + 1 > MaxHumanRounds)
               /\ human_revision_count' = human_revision_count + 1
        <3>1. Reviewed!SendBack
            BY <1>00, <2>1, <2>2, <2>5 DEF PhaseByStatus, Reviewed!SendBack
        <3> QED
            BY <3>1 DEF Reviewed!Next
    <2> QED
        BY <2>3, <2>4, <2>5 DEF Resume, Decide, OutOfRounds, AutoApprove
<1>4. CASE Formatter
    <2>1. /\ status = "APPROVED" /\ status' = "COMPLETED"
          /\ UNCHANGED <<generated_draft, human_revision_count>>
          /\ final_brief_concept' = [draft |-> generated_draft, evaluation |-> evaluation]
        BY <1>0, <1>4 DEF Formatter, Enter, StatusAt, draft, review
    <2>2. Reviewed!Release
        BY <1>0, <1>00, <2>1 DEF PhaseByStatus, Reviewed!Release
    <2> QED
        BY <2>2 DEF Reviewed!Next
<1>5. CASE UNCHANGED graph
    <2>1. Phase' = Phase
        BY <1>5 DEF graph, control, Phase
    <2> QED
        BY <1>5, <2>1, Unseen DEF graph, draft, review, Presented
<1> QED
    BY <1>1, <1>2, <1>3, <1>4, <1>5
       DEF BriefNext, Invoke, Step, Pause, PersistFinal, Crash, ResumeRun, briefVars

\* A brief keeps every promise of ReviewedRun, whatever processes die on the
\* way: what was in front of the reviewer is released, or nothing.
THEOREM BriefKeepsPromise == BriefSpec => BriefImplementsPromise
<1>1. BriefInit => Reviewed!Init
    BY DEF BriefInit, Phase, Reviewed!Init, NoConcept
<1> QED
    BY <1>1, BriefInvariance, StepsAsPromised, PTL
        DEF BriefSpec, BriefImplementsPromise, Reviewed!Spec
=============================================================================
