------------------------------ MODULE BriefRun ------------------------------
(***************************************************************************)
(* One run of the sales_brief pack (packs/sales_brief): its graph, which   *)
(* has no visualizer, with the offline writer and judge it always uses,    *)
(* and the execution row its run.py leaves.                                *)
(*                                                                         *)
(* A draft is what its text depends on: the memory context, the guidance   *)
(* of a reviewer and the issue of a judgment it answers.  Account,         *)
(* opportunity and research notes follow from the request, which does not  *)
(* change.  A score is in tenths.                                          *)
(***************************************************************************)
EXTENDS Integers

CONSTANTS
    MaxIterations,   \* BriefWorkflowState.max_iterations
    MaxHumanRounds,  \* settings.max_human_rounds
    Threshold,       \* settings.quality_threshold, in tenths
    Feedback,        \* what a reviewer can write
    MaxMishaps       \* bound: failing writes and dying processes

ASSUME BriefAssumption ==
    /\ MaxIterations \in Nat \ {0}
    /\ MaxHumanRounds \in Nat
    /\ Threshold \in Nat
    /\ "none" \notin Feedback
    /\ MaxMishaps \in Nat

END == "END"
NoText == "none"
NoScore == -1

Node == {"research", "memory_retrieve", "writer", "evaluator", "quality_gate",
         "human_review", "formatter"}

Status == {"INITIALIZED", "RESEARCHING", "SCRIPTING", "EVALUATING", "PASSED",
           "EXHAUSTED", "APPROVED", "COMPLETED", "FAILED"}

Decision == {"approve", "reject", "request_changes"}

Marker == {"none", "reject", "retry_pass"}

Issue == {"reject", "retry"}

BriefDraft == [inspired : BOOLEAN, guidance : Feedback \cup {NoText},
               answers : Issue \cup {NoText}]
NoDraft == [inspired |-> FALSE, guidance |-> NoText, answers |-> "nobody"]

BriefEvaluation == [score : {35, 50, 85, 90}, issue : Issue \cup {NoText}, approved : BOOLEAN]
NoEvaluation == [score |-> NoScore, issue |-> NoText, approved |-> FALSE]

NoConcept == [draft |-> NoDraft, evaluation |-> NoEvaluation]

VARIABLES
    request,               \* the marker in it
    memory_context,        \* memory_retrieve found something
    next,                  \* the node to run next, or END
    paused,                \* human_review has raised its interrupt
    hitl_required,         \* settings.hitl_required in the invoking process
    status,
    generated_draft,
    evaluation,
    best_draft,
    best_score,
    iteration,
    human_feedback,
    human_revision_count,
    final_brief_concept,
    approved_draft,        \* history: the draft of the last approval
    judged,                \* history: the drafts the gate has processed
    doing,                 \* the process: invoking, or none is there
    row,                   \* executions: state_checkpoint and final_status
    mishaps

input == <<request, memory_context>>
control == <<next, paused, hitl_required, status>>
draft == <<generated_draft, evaluation>>
best == <<best_draft, best_score, iteration, judged>>
review == <<human_feedback, human_revision_count, approved_draft>>
graph == <<input, control, draft, best, review, final_brief_concept>>
briefVars == <<graph, doing, row, mishaps>>

Row == [status : Status \cup {"none", "AWAITING_HUMAN"}, concept : {NoConcept} \cup
            [draft : BriefDraft, evaluation : BriefEvaluation],
        final : {"none", "COMPLETED", "FAILED"}]
NoRow == [status |-> "none", concept |-> NoConcept, final |-> "none"]

BriefTypeOK ==
    /\ request \in Marker
    /\ memory_context \in BOOLEAN
    /\ next \in Node \cup {END}
    /\ paused \in BOOLEAN
    /\ hitl_required \in BOOLEAN
    /\ status \in Status
    /\ generated_draft \in BriefDraft \cup {NoDraft}
    /\ evaluation \in BriefEvaluation \cup {NoEvaluation}
    /\ best_draft \in BriefDraft \cup {NoDraft}
    /\ best_score \in {35, 50, 85, 90, NoScore}
    /\ iteration \in 0..(MaxIterations + MaxHumanRounds)
    /\ human_feedback \in Feedback \cup {NoText}
    /\ human_revision_count \in 0..(MaxHumanRounds + 1)
    /\ final_brief_concept \in {NoConcept} \cup
            [draft : BriefDraft, evaluation : BriefEvaluation]
    /\ approved_draft \in BriefDraft \cup {NoDraft}
    /\ judged \in SUBSET BriefDraft
    /\ doing \in {"idle", "invoke"}
    /\ row \in Row
    /\ mishaps \in 0..MaxMishaps

BriefInit ==
    /\ request \in Marker
    /\ memory_context = FALSE
    /\ next = "research"
    /\ paused = FALSE
    /\ hitl_required \in BOOLEAN
    /\ status = "INITIALIZED"
    /\ generated_draft = NoDraft /\ evaluation = NoEvaluation
    /\ best_draft = NoDraft /\ best_score = NoScore
    /\ iteration = 0
    /\ human_feedback = NoText /\ human_revision_count = 0
    /\ final_brief_concept = NoConcept
    /\ approved_draft = NoDraft /\ judged = {}
    /\ doing = "invoke"
    /\ row = NoRow
    /\ mishaps = 0

-----------------------------------------------------------------------------
(***************************************************************************)
(* The offline writer and judge.  Neither raises: request, account and     *)
(* opportunity are never empty, so every draft satisfies its schema.       *)
(***************************************************************************)

\* The guidance and the issues both stay in the summary.
DemoBrief ==
    [inspired |-> memory_context, guidance |-> human_feedback, answers |-> evaluation.issue]

\* Without a marker every draft is long enough: summary (with the notes in it)
\* at least 80 characters, next step at least 24, pains and value props given.
SyntheticJudge(marker, d) ==
    CASE marker = "reject" -> [score |-> 35, issue |-> "reject", approved |-> FALSE]
      [] marker = "retry_pass" /\ d.answers # NoText ->
            [score |-> 85, issue |-> NoText, approved |-> TRUE]
      [] marker = "retry_pass" /\ d.answers = NoText ->
            [score |-> 50, issue |-> "retry", approved |-> FALSE]
      [] OTHER -> [score |-> 90, issue |-> NoText, approved |-> TRUE]

-----------------------------------------------------------------------------
(***************************************************************************)
(* The graph.  Only human_review can fail: with the rounds used up.        *)
(***************************************************************************)

RouteAfterGate(s) ==
    CASE s = "SCRIPTING" -> "writer"
      [] s \in {"PASSED", "EXHAUSTED"} -> "human_review"

RouteAfterHuman(s) ==
    CASE s = "APPROVED" -> "formatter"
      [] s = "SCRIPTING" -> "writer"
      [] OTHER -> END

Edge == [research |-> "memory_retrieve", memory_retrieve |-> "writer",
         writer |-> "evaluator", evaluator |-> "quality_gate", formatter |-> END]

Enter(n) == next = n /\ ~paused /\ UNCHANGED <<request, paused, hitl_required>>

Research ==
    /\ Enter("research")
    /\ next' = Edge["research"]
    /\ status' = "RESEARCHING"
    /\ UNCHANGED <<memory_context, draft, best, review, final_brief_concept>>

\* Fail-open: an unreachable memory is an empty one.
MemoryRetrieve ==
    /\ Enter("memory_retrieve")
    /\ next' = Edge["memory_retrieve"]
    /\ memory_context' \in BOOLEAN
    /\ UNCHANGED <<status, draft, best, review, final_brief_concept>>

Writer ==
    /\ Enter("writer")
    /\ next' = Edge["writer"]
    /\ status' = "SCRIPTING"
    /\ generated_draft' = DemoBrief
    /\ UNCHANGED <<memory_context, evaluation, best, review, final_brief_concept>>

\* Mutant: an approving evaluation is kept for the drafts after it.
Evaluator_Kept ==
    /\ Enter("evaluator")
    /\ next' = Edge["evaluator"]
    /\ status' = "EVALUATING"
    /\ evaluation' = IF evaluation.approved THEN evaluation ELSE SyntheticJudge(request, generated_draft)
    /\ UNCHANGED <<memory_context, generated_draft, best, review, final_brief_concept>>

Evaluator ==
    /\ Enter("evaluator")
    /\ next' = Edge["evaluator"]
    /\ status' = "EVALUATING"
    /\ evaluation' = SyntheticJudge(request, generated_draft)
    /\ UNCHANGED <<memory_context, generated_draft, best, review, final_brief_concept>>

\* Mutant: an exhausted run keeps its last draft.
ExhaustedDraft_Last(b) == generated_draft

\* The draft an exhausted run goes on with; b is never empty here.
ExhaustedDraft(b) == b

QualityGate ==
    LET better == best_score = NoScore \/ evaluation.score > best_score
        passed == evaluation.approved /\ evaluation.score >= Threshold
    IN  /\ Enter("quality_gate")
        /\ best_score' = IF better THEN evaluation.score ELSE best_score
        /\ best_draft' = IF better THEN generated_draft ELSE best_draft
        /\ iteration' = iteration + 1
        /\ judged' = judged \cup {generated_draft}
        /\ \/ passed /\ status' = "PASSED" /\ UNCHANGED generated_draft
           \/ /\ ~passed /\ iteration' < MaxIterations
              /\ status' = "SCRIPTING" /\ UNCHANGED generated_draft
           \/ /\ ~passed /\ iteration' >= MaxIterations
              /\ status' = "EXHAUSTED" /\ generated_draft' = ExhaustedDraft(best_draft')
        /\ next' = RouteAfterGate(status')
        /\ UNCHANGED <<memory_context, evaluation, review, final_brief_concept>>

AutoApprove ==
    /\ status' = "APPROVED"
    /\ human_feedback' = NoText
    /\ approved_draft' = generated_draft
    /\ UNCHANGED human_revision_count

HumanReview ==
    /\ next = "human_review" /\ ~paused
    /\ IF hitl_required
          THEN paused' = TRUE /\ UNCHANGED <<next, status, review>>
          ELSE AutoApprove /\ next' = RouteAfterHuman("APPROVED") /\ UNCHANGED paused
    /\ UNCHANGED <<hitl_required, input, draft, best, final_brief_concept>>

OutOfRounds(n) == n > MaxHumanRounds

\* _parse_resume has required feedback for request_changes.
Decide(d, feedback) ==
    /\ d = "request_changes" => feedback # NoText
    /\ human_feedback' = feedback
    /\ \/ /\ d = "approve"
          /\ status' = "APPROVED"
          /\ approved_draft' = generated_draft
          /\ UNCHANGED human_revision_count
       \/ /\ d # "approve"
          /\ human_revision_count' = human_revision_count + 1
          /\ status' = IF OutOfRounds(human_revision_count + 1) THEN "FAILED" ELSE "SCRIPTING"
          /\ UNCHANGED approved_draft

\* Command(resume=...), invoked by a process whose HITL setting is h.
Resume(d, feedback, h) ==
    /\ paused /\ paused' = FALSE
    /\ hitl_required' = h
    /\ IF h THEN Decide(d, feedback) ELSE AutoApprove
    /\ next' = RouteAfterHuman(status')
    /\ UNCHANGED <<input, draft, best, final_brief_concept>>

\* Mutant: the concept is made of the best draft, whichever was approved.
Formatter_Best ==
    /\ Enter("formatter")
    /\ next' = Edge["formatter"]
    /\ status' = "COMPLETED"
    /\ final_brief_concept' = [draft |-> best_draft, evaluation |-> evaluation]
    /\ UNCHANGED <<memory_context, draft, best, review>>

Formatter ==
    /\ Enter("formatter")
    /\ next' = Edge["formatter"]
    /\ status' = "COMPLETED"
    /\ final_brief_concept' = [draft |-> generated_draft, evaluation |-> evaluation]
    /\ UNCHANGED <<memory_context, draft, best, review>>

Step ==
    \/ Research \/ MemoryRetrieve \/ Writer \/ Evaluator \/ QualityGate
    \/ HumanReview \/ Formatter

-----------------------------------------------------------------------------
(***************************************************************************)
(* The processes that invoke the thread, one at a time.                    *)
(***************************************************************************)

Mishap == mishaps < MaxMishaps /\ mishaps' = mishaps + 1

Invoke == doing = "invoke" /\ Step /\ UNCHANGED <<doing, row, mishaps>>

\* Mutant: every checkpoint finishes the execution.
Checkpointed_Final ==
    [status |-> IF paused THEN "AWAITING_HUMAN" ELSE status,
     concept |-> final_brief_concept, final |-> "COMPLETED"]

Checkpointed ==
    [status |-> IF paused THEN "AWAITING_HUMAN" ELSE status,
     concept |-> final_brief_concept, final |-> row.final]

\* _checkpoint_only: a failing write is logged, the invocation returns.
Pause ==
    /\ doing = "invoke" /\ paused /\ doing' = "idle"
    /\ \/ row' = Checkpointed /\ UNCHANGED mishaps
       \/ Mishap /\ UNCHANGED row
    /\ UNCHANGED graph

\* _persist_final: one transaction; a failure is raised to the caller.
PersistFinal ==
    /\ doing = "invoke" /\ next = END /\ doing' = "idle"
    /\ \/ row' = [Checkpointed EXCEPT !.final = status] /\ UNCHANGED mishaps
       \/ Mishap /\ UNCHANGED row
    /\ UNCHANGED graph

Crash == doing = "invoke" /\ Mishap /\ doing' = "idle" /\ UNCHANGED <<graph, row>>

\* resume_with_decision: a thread that does not wait goes on where it stopped.
ResumeRun ==
    /\ doing = "idle" /\ doing' = "invoke"
    /\ \/ \E d \in Decision, f \in Feedback \cup {NoText}, h \in BOOLEAN : Resume(d, f, h)
       \/ ~paused /\ UNCHANGED graph
    /\ UNCHANGED <<row, mishaps>>

BriefNext == Invoke \/ Pause \/ PersistFinal \/ Crash \/ ResumeRun

BriefSpec == BriefInit /\ [][BriefNext]_briefVars

-----------------------------------------------------------------------------
(***************************************************************************)
(* Properties.                                                             *)
(***************************************************************************)

\* The row of a brief is finished (final_status) only by a thread that has
\* ended, with the outcome and the concept of that thread: pauses, failing
\* writes, dying processes and decisions that come again change nothing of it.
RowFollowsBrief ==
    row.final # "none" =>
        next = END /\ row.final = status /\ row.concept = final_brief_concept

\* A concept that carries an approval carries that of its own draft, although
\* evaluation and draft are packed from two fields and an exhausted run
\* exchanges one of them.
ApprovalIsOfTheDraft ==
    status = "COMPLETED" /\ final_brief_concept.evaluation.approved =>
        final_brief_concept.evaluation = SyntheticJudge(request, final_brief_concept.draft)

\* A released brief is one that passes, or no judged draft of the run is better.
BriefIsWorthIt ==
    status = "COMPLETED" =>
        LET verdict == SyntheticJudge(request, final_brief_concept.draft)
        IN  \/ verdict.approved /\ verdict.score >= Threshold
            \/ \A d \in judged : SyntheticJudge(request, d).score <= verdict.score

\* Row, draft, judgment and approval of a brief belong together, whatever
\* fails, dies or is decided twice.
BriefInv == BriefTypeOK /\ RowFollowsBrief /\ ApprovalIsOfTheDraft /\ BriefIsWorthIt

-----------------------------------------------------------------------------
(***************************************************************************)
(* The inductive invariant.                                                *)
(***************************************************************************)

\* Where a run is and what its status says.
StatusAt ==
    [research |-> {"INITIALIZED"}, memory_retrieve |-> {"RESEARCHING"},
     writer |-> {"RESEARCHING", "SCRIPTING"}, evaluator |-> {"SCRIPTING"},
     quality_gate |-> {"EVALUATING"}, human_review |-> {"PASSED", "EXHAUSTED"},
     formatter |-> {"APPROVED"}, END |-> {"COMPLETED", "FAILED"}]

ControlInv ==
    /\ status \in StatusAt[next]
    /\ paused => next = "human_review"
    /\ status # "FAILED" => human_revision_count <= MaxHumanRounds

\* What is left of the attempts: a decision gives one more.
InLoop == next \in {"research", "memory_retrieve", "writer", "evaluator", "quality_gate"}

CountInv ==
    /\ iteration <= MaxIterations + human_revision_count
    /\ InLoop => iteration + 1 <= MaxIterations + human_revision_count

\* Only the writer runs without a draft, and only it and the evaluator without
\* a judgment.
JudgedInv ==
    /\ next \notin {"research", "memory_retrieve", "writer"} => generated_draft \in BriefDraft
    /\ next \in {"quality_gate", "human_review", "formatter", END} =>
          evaluation \in BriefEvaluation
    /\ next = "quality_gate" => evaluation = SyntheticJudge(request, generated_draft)

\* The best draft is the best of the judged ones.
BestInv ==
    IF best_score = NoScore THEN judged = {}
    ELSE /\ best_draft \in judged
         /\ best_score = SyntheticJudge(request, best_draft).score
         /\ \A d \in judged : SyntheticJudge(request, d).score <= best_score

\* A draft worth releasing.
Worthy(d) ==
    LET verdict == SyntheticJudge(request, d)
    IN  \/ verdict.approved /\ verdict.score >= Threshold
        \/ \A e \in judged : SyntheticJudge(request, e).score <= verdict.score

\* What passes the gate is worth it, and an approval is that of the draft also
\* where the gate has exchanged the draft.
SettledInv ==
    /\ status \in {"PASSED", "EXHAUSTED", "APPROVED", "COMPLETED"} =>
          /\ Worthy(generated_draft)
          /\ evaluation.approved => evaluation = SyntheticJudge(request, generated_draft)
    /\ final_brief_concept =
          IF status = "COMPLETED"
             THEN [draft |-> generated_draft, evaluation |-> evaluation] ELSE NoConcept

BriefIInv ==
    /\ BriefTypeOK
    /\ ControlInv /\ CountInv /\ JudgedInv /\ BestInv /\ SettledInv /\ RowFollowsBrief

-----------------------------------------------------------------------------

\* A brief run in the terms of ReviewedRun.
Phase ==
    CASE status = "FAILED" -> "failed"
      [] status = "COMPLETED" -> "released"
      [] status = "APPROVED" -> "approved"
      [] paused -> "review"
      [] OTHER -> "working"

Reviewed == INSTANCE ReviewedRun WITH
    Script <- BriefDraft,
    NoScript <- NoDraft,
    phase <- Phase,
    presented <- IF Phase \in {"review", "approved", "released"}
                   THEN generated_draft ELSE NoDraft,
    rounds <- human_revision_count,
    released <- final_brief_concept.draft

\* The pack keeps the promise the Shorts graph keeps: what was in front of the
\* reviewer is what is released, and the rounds are limited.
BriefImplementsPromise == Reviewed!Spec

\* A concept pairs a draft with the judgment of it (packs/sales_brief/
\* schemas.py:29: BriefEvaluation is the "quality judgment for a BriefDraft").
ConceptIsJudged ==
    status = "COMPLETED" =>
        final_brief_concept.evaluation = SyntheticJudge(request, final_brief_concept.draft)
=============================================================================
