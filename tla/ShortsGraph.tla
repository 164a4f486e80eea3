---------------------------- MODULE ShortsGraph ----------------------------
(***************************************************************************)
(* One run of the YouTube Shorts LangGraph (graph.py): research, memory    *)
(* retrieval, the scriptwriter / evaluator / quality-gate loop, the human  *)
(* review with its interrupt, the visualizer and the formatter.            *)
(*                                                                         *)
(* The state is WorkflowState (state.py), field for field where control    *)
(* depends on the field; `next` is the node LangGraph runs next.  A script *)
(* is named by the script_version under which the scriptwriter wrote it,   *)
(* a score is a number of Scores, and texts (research notes, memory        *)
(* context, feedback, previews) are left out.                              *)
(***************************************************************************)
EXTENDS Integers

CONSTANTS
    MaxIterations,   \* WorkflowState.max_iterations
    MaxHumanRounds,  \* settings.max_human_rounds
    Threshold,       \* settings.quality_threshold
    Scores           \* the overall_score values the judge can return

ASSUME GraphAssumption ==
    /\ MaxIterations \in Nat \ {0}
    /\ MaxHumanRounds \in Nat
    /\ Threshold \in Nat
    /\ Scores \subseteq Nat

END == "END"
NoNode == "none"
NoScript == 0
NoScore == -1
NoEvaluation == [script |-> NoScript, score |-> NoScore, approved |-> FALSE]

Node == {"research", "memory_retrieve", "scriptwriter", "evaluator",
         "quality_gate", "human_review", "visualizer", "formatter"}

Status == {"INITIALIZED", "RESEARCHING", "SCRIPTING", "EVALUATING", "PASSED",
           "EXHAUSTED", "APPROVED", "VISUALIZING", "COMPLETED", "FAILED"}

Decision == {"approve", "reject", "request_changes"}

\* An evaluation, with the script it judged (the code does not record it).
Evaluation == [script : Nat \ {NoScript}, score : Scores, approved : BOOLEAN]

VARIABLES
    next,                  \* the node to run next, or END
    paused,                \* human_review has raised its interrupt
    hitl_required,         \* settings.hitl_required in the invoking process
    status,
    error_node,
    generated_script,
    script_version,
    evaluation,
    best_script,
    best_score,
    iteration,
    human_decision,
    human_reviewer,
    human_revision_count,
    visual_concepts,       \* the script the visual plan was made from
    final_short_concept,   \* the script in the final concept
    judged,                \* history: the evaluations the gate has processed
    approved_script        \* history: the script of the last approval

control == <<next, paused, hitl_required, status, error_node>>
draft == <<generated_script, script_version, evaluation>>
best == <<best_script, best_score, iteration, judged>>
review == <<human_decision, human_reviewer, human_revision_count, approved_script>>
product == <<visual_concepts, final_short_concept>>
vars == <<control, draft, best, review, product>>

TypeOK ==
    /\ next \in Node \cup {END}
    /\ paused \in BOOLEAN
    /\ hitl_required \in BOOLEAN
    /\ status \in Status
    /\ error_node \in Node \cup {NoNode}
    /\ generated_script \in Nat
    /\ script_version \in Nat
    /\ evaluation \in Evaluation \cup {NoEvaluation}
    /\ best_script \in Nat
    /\ best_score \in Scores \cup {NoScore}
    /\ iteration \in Nat
    /\ judged \in SUBSET Evaluation
    /\ human_decision \in Decision \cup {"none"}
    /\ human_reviewer \in {"none", "auto", "human"}
    /\ human_revision_count \in 0..(MaxHumanRounds + 1)
    /\ approved_script \in Nat
    /\ visual_concepts \in Nat
    /\ final_short_concept \in Nat

Init ==
    /\ next = "research"
    /\ paused = FALSE
    /\ hitl_required \in BOOLEAN
    /\ status = "INITIALIZED"
    /\ error_node = NoNode
    /\ generated_script = NoScript
    /\ script_version = 0
    /\ evaluation = NoEvaluation
    /\ best_script = NoScript
    /\ best_score = NoScore
    /\ iteration = 0
    /\ judged = {}
    /\ human_decision = "none"
    /\ human_reviewer = "none"
    /\ human_revision_count = 0
    /\ approved_script = NoScript
    /\ visual_concepts = NoScript
    /\ final_short_concept = NoScript

-----------------------------------------------------------------------------
(***************************************************************************)
(* Routing and outcomes.                                                   *)
(***************************************************************************)

\* Mutant: everything that neither passed nor was exhausted is retried.
RouteAfterGate_RetryOtherwise(s) ==
    IF s \in {"PASSED", "EXHAUSTED"} THEN "human_review" ELSE "scriptwriter"

RouteAfterGate(s) ==
    CASE s = "SCRIPTING" -> "scriptwriter"
      [] s \in {"PASSED", "EXHAUSTED"} -> "human_review"
      [] OTHER -> END

RouteAfterHuman(s) ==
    CASE s = "APPROVED" -> "visualizer"
      [] s = "SCRIPTING" -> "scriptwriter"
      [] OTHER -> END

\* The unconditional edges of the graph.
Edge ==
    [research |-> "memory_retrieve", memory_retrieve |-> "scriptwriter",
     scriptwriter |-> "evaluator", evaluator |-> "quality_gate",
     visualizer |-> "formatter", formatter |-> END]

\* Where the run goes from node n once its status is s.
Follow(n, s) ==
    CASE n = "quality_gate" -> RouteAfterGate(s)
      [] n = "human_review" -> RouteAfterHuman(s)
      [] OTHER -> Edge[n]

\* failure_update(node, exc)
Failed(n) == status' = "FAILED" /\ error_node' = n

\* A new status together with clear_error_fields().
Succeeded(s) == status' = s /\ error_node' = NoNode

\* Node n is due and does its work (a FAILED run falls through instead).
Enter(n) ==
    /\ next = n
    /\ ~paused
    /\ status # "FAILED"
    /\ UNCHANGED <<paused, hitl_required>>

-----------------------------------------------------------------------------
(***************************************************************************)
(* The nodes before the gate.  The work of a node may raise: the exception *)
(* becomes a FAILED state, and the edge out of the node is taken anyway.   *)
(***************************************************************************)

\* The A2A peer may be required and unreachable; MCP failures are swallowed.
Research ==
    /\ Enter("research")
    /\ Succeeded("RESEARCHING") \/ Failed("research")
    /\ next' = Edge["research"]
    /\ UNCHANGED <<draft, best, review, product>>

\* Fail-open: with or without hits the status stays as it is.
MemoryRetrieve ==
    /\ Enter("memory_retrieve")
    /\ next' = Edge["memory_retrieve"]
    /\ UNCHANGED <<status, error_node, draft, best, review, product>>

Scriptwriter ==
    /\ Enter("scriptwriter")
    /\ next' = Edge["scriptwriter"]
    /\ \/ /\ Succeeded("SCRIPTING")
          /\ script_version' = script_version + 1
          /\ generated_script' = script_version + 1
       \/ /\ Failed("scriptwriter")
          /\ UNCHANGED <<script_version, generated_script>>
    /\ UNCHANGED <<evaluation, best, review, product>>

\* A contract violation drops the evaluation; any other exception keeps the
\* evaluation of the script before.
Evaluator ==
    /\ Enter("evaluator")
    /\ next' = Edge["evaluator"]
    /\ \/ /\ generated_script # NoScript
          /\ Succeeded("EVALUATING")
          /\ \E s \in Scores, a \in BOOLEAN :
                evaluation' = [script |-> generated_script, score |-> s, approved |-> a]
       \/ /\ Failed("evaluator")
          /\ evaluation' \in {NoEvaluation, evaluation}
    /\ UNCHANGED <<generated_script, script_version, best, review, product>>

-----------------------------------------------------------------------------
(***************************************************************************)
(* The quality gate: first the best-so-far and the iteration count, then   *)
(* PASS, RETRY or EXHAUSTED.                                               *)
(***************************************************************************)

\* Mutant: a tie replaces the best script.
Improves_OnTie(score) == best_score = NoScore \/ score >= best_score

Improves(score) == best_score = NoScore \/ score > best_score

\* Mutant: the judge's approval is enough, whatever the score.
Passes_AnyScore(e) == e.approved

Passes(e) == e.approved /\ e.score >= Threshold

\* Mutant: the limit is compared before this attempt is counted.
MayRetry_OffByOne(n) == n <= MaxIterations

MayRetry(n) == n < MaxIterations

\* Mutant: an exhausted run keeps its last script.
ExhaustedScript_Last(b) == generated_script

\* The script an exhausted run goes on with, b being the best so far.
ExhaustedScript(b) == IF b # NoScript THEN b ELSE generated_script

ApplyQualityGate ==
    LET script == generated_script
        better == Improves(evaluation.score)
    IN  /\ best_score' = IF better THEN evaluation.score ELSE best_score
        /\ best_script' = IF better THEN script ELSE best_script
        /\ iteration' = iteration + 1
        /\ judged' = judged \cup {evaluation}
        /\ \/ /\ Passes(evaluation)
              /\ Succeeded("PASSED")
              /\ generated_script' = script
           \/ /\ ~Passes(evaluation)
              /\ MayRetry(iteration + 1)
              /\ Succeeded("SCRIPTING")
              /\ generated_script' = script
           \/ /\ ~Passes(evaluation)
              /\ ~MayRetry(iteration + 1)
              /\ Succeeded("EXHAUSTED")
              /\ generated_script' = ExhaustedScript(best_script')

QualityGate ==
    /\ Enter("quality_gate")
    /\ IF generated_script = NoScript \/ evaluation = NoEvaluation
          THEN Failed("quality_gate") /\ UNCHANGED <<generated_script, best>>
          ELSE ApplyQualityGate
    /\ next' = Follow("quality_gate", status')
    /\ UNCHANGED <<script_version, evaluation, review, product>>

-----------------------------------------------------------------------------
(***************************************************************************)
(* Human review.  The node runs once when the gate routes to it and again, *)
(* from its top, on every Command(resume=...): the setting is read anew.   *)
(***************************************************************************)

AutoApprove ==
    /\ Succeeded("APPROVED")
    /\ human_decision' = "approve"
    /\ human_reviewer' = "auto"
    /\ approved_script' = generated_script
    /\ UNCHANGED human_revision_count

\* Mutant: the limit is compared before this round is counted.
OutOfRounds_CountBefore(n) == n - 1 > MaxHumanRounds

OutOfRounds(n) == n > MaxHumanRounds

\* Mutant: the run that used up its rounds waits for an approval instead.
GiveUp_Wait(d) ==
    /\ UNCHANGED <<status, error_node, human_revision_count>>
    /\ human_decision' = d
    /\ next' = "human_review"

GiveUp(d) ==
    /\ Failed("human_review")
    /\ human_decision' = d
    /\ human_revision_count' = human_revision_count + 1
    /\ next' = Follow("human_review", "FAILED")

\* What the node makes of a parsed decision d.
Decide(d) ==
    /\ human_reviewer' = "human"
    /\ \/ /\ d = "approve"
          /\ Succeeded("APPROVED")
          /\ human_decision' = d
          /\ approved_script' = generated_script
          /\ next' = Follow("human_review", "APPROVED")
          /\ UNCHANGED human_revision_count
       \/ /\ d # "approve"
          /\ OutOfRounds(human_revision_count + 1)
          /\ GiveUp(d)
          /\ UNCHANGED approved_script
       \/ /\ d # "approve"
          /\ ~OutOfRounds(human_revision_count + 1)
          /\ Succeeded("SCRIPTING")
          /\ human_decision' = d
          /\ human_revision_count' = human_revision_count + 1
          /\ next' = Follow("human_review", "SCRIPTING")
          /\ UNCHANGED approved_script

HumanReview ==
    /\ next = "human_review"
    /\ ~paused
    /\ status # "FAILED"
    /\ IF hitl_required
          THEN /\ paused' = TRUE
               /\ UNCHANGED <<next, status, error_node, review>>
          ELSE /\ AutoApprove
               /\ next' = Follow("human_review", "APPROVED")
               /\ UNCHANGED paused
    /\ UNCHANGED <<hitl_required, draft, best, product>>

\* Command(resume=d), invoked by a process whose HITL setting is h.
Resume(d, h) ==
    /\ paused
    /\ paused' = FALSE
    /\ hitl_required' = h
    /\ IF h
          THEN Decide(d)
          ELSE AutoApprove /\ next' = Follow("human_review", "APPROVED")
    /\ UNCHANGED <<draft, best, product>>

-----------------------------------------------------------------------------
(***************************************************************************)
(* After the approval.                                                     *)
(***************************************************************************)

Visualizer ==
    /\ Enter("visualizer")
    /\ next' = Edge["visualizer"]
    /\ \/ /\ status \in {"APPROVED", "PASSED", "EXHAUSTED"}
          /\ generated_script # NoScript
          /\ Succeeded("VISUALIZING")
          /\ visual_concepts' = generated_script
       \/ /\ Failed("visualizer")
          /\ UNCHANGED visual_concepts
    /\ UNCHANGED <<draft, best, review, final_short_concept>>

\* Mutant: the best script is published, whichever was approved.
Formatter_Best ==
    /\ Enter("formatter")
    /\ next' = Edge["formatter"]
    /\ Succeeded("COMPLETED")
    /\ final_short_concept' = best_script
    /\ UNCHANGED <<draft, best, review, visual_concepts>>

Formatter ==
    /\ Enter("formatter")
    /\ next' = Edge["formatter"]
    /\ \/ /\ generated_script # NoScript
          /\ visual_concepts # NoScript
          /\ Succeeded("COMPLETED")
          /\ final_short_concept' = generated_script
       \/ /\ Failed("formatter")
          /\ UNCHANGED final_short_concept
    /\ UNCHANGED <<draft, best, review, visual_concepts>>

\* Mutant: memory_retrieve clears the error of a failed run.
FallThrough_Clears ==
    /\ status = "FAILED"
    /\ next = "memory_retrieve"
    /\ Succeeded("RESEARCHING")
    /\ next' = Edge[next]
    /\ UNCHANGED <<paused, hitl_required, draft, best, review, product>>

\* Every node returns {} for a FAILED run; only the edges are followed.
FallThrough ==
    /\ status = "FAILED"
    /\ next # END
    /\ next' = Follow(next, status)
    /\ UNCHANGED <<paused, hitl_required, status, error_node>>
    /\ UNCHANGED <<draft, best, review, product>>

-----------------------------------------------------------------------------

\* The steps one graph.invoke takes by itself.
Step ==
    \/ Research \/ MemoryRetrieve \/ Scriptwriter \/ Evaluator \/ QualityGate
    \/ HumanReview \/ Visualizer \/ Formatter \/ FallThrough

Next ==
    \/ Step
    \/ \E d \in Decision, h \in BOOLEAN : Resume(d, h)

Spec == Init /\ [][Next]_vars

\* graph.invoke runs node after node until END or an interrupt; nobody is
\* obliged to resume.
FairSpec == Spec /\ WF_vars(Step)

-----------------------------------------------------------------------------
(***************************************************************************)
(* Properties.                                                             *)
(***************************************************************************)

\* "Never lose a better version" (quality_gate.py): whatever was judged so
\* far, best_script and best_score are those of the first evaluation that no
\* other evaluation exceeds.
BestSoFar ==
    /\ judged = {} => best_script = NoScript /\ best_score = NoScore
    /\ judged # {} => \E e \in judged :
          /\ best_script = e.script /\ best_score = e.score
          /\ \A f \in judged : f.score <= e.score
          /\ \A f \in judged : f.script < e.script => f.score < e.score

\* The script a run puts before its reviewer, or approves by itself, is either
\* the one the judge has just approved at the threshold, or, once the attempts
\* are used up, the best one: never a script that is still to be judged.
ReviewedScriptIsSettled ==
    next = "human_review" =>
        \/ /\ status = "PASSED"
           /\ evaluation.script = generated_script
           /\ evaluation.approved /\ evaluation.score >= Threshold
        \/ /\ status = "EXHAUSTED"
           /\ generated_script = best_script
           /\ iteration >= MaxIterations

\* The loop budget, reviews included: the gate never resets the iteration
\* count, so every review sent back buys exactly one more attempt, and the
\* scriptwriter and the judge run at most MaxIterations + MaxHumanRounds times.
BoundedWork ==
    /\ iteration <= MaxIterations + human_revision_count
    /\ script_version <= MaxIterations + MaxHumanRounds
    /\ iteration <= script_version

\* The final concept is made of one script, the one that was in front of the
\* approver: neither the visualizer, the formatter nor the gate's best-so-far
\* put another one in its place between approval and release.
ReleasedIsApproved ==
    status = "COMPLETED" =>
        /\ human_decision = "approve"
        /\ final_short_concept = approved_script
        /\ visual_concepts = approved_script
        /\ final_short_concept # NoScript

\* Whatever was sent back and rewritten on the way, a released script is one
\* the judge approved at the threshold or the best of everything judged.
ReleasedIsWorthIt ==
    status = "COMPLETED" =>
        \E e \in judged :
            /\ e.script = final_short_concept
            /\ \/ e.approved /\ e.score >= Threshold
               \/ \A f \in judged : f.score <= e.score

\* A FAILED run stays as it failed while the edges carry it to END: no node
\* behind the failure clears the error or touches the results.
FailureIsFinal ==
    [][status = "FAILED" =>
        UNCHANGED <<status, error_node, paused, draft, best, review, product>>]_vars

\* A reviewer who always answers sees the end of the run: the rounds of
\* sending back are limited.
AnsweredRunEnds == []<>(~paused) => <>(next = END)

\* What a run promises its reviewer, in terms of this state.
Phase ==
    CASE status = "FAILED" -> "failed"
      [] status = "COMPLETED" -> "released"
      [] status \in {"APPROVED", "VISUALIZING"} -> "approved"
      [] paused -> "review"
      [] OTHER -> "working"

Promise == INSTANCE ReviewedRun WITH
    Script <- 1..(MaxIterations + MaxHumanRounds),
    phase <- Phase,
    presented <- IF Phase \in {"review", "approved", "released"}
                   THEN generated_script ELSE NoScript,
    rounds <- human_revision_count,
    released <- final_short_concept

\* The graph implements ReviewedRun: it presents, releases, sends back and
\* gives up only as promised there.
ImplementsPromise == Promise!Spec

\* A reviewer who sends a script back is shown another one
\* (docs/plans/13_phase_human_in_loop_d6d12396.plan.md:190: a reject or
\* request_changes "starts a new generation cycle"; README.md:99: "rewrite").
RevisionIsShown ==
    [][~paused /\ paused' /\ human_revision_count > 0
         => generated_script' = script_version']_vars

-----------------------------------------------------------------------------
(***************************************************************************)
(* The inductive invariant behind these properties, part by part.          *)
(***************************************************************************)

\* Which statuses a run can have in front of a node.
StatusAt ==
    [research |-> {"INITIALIZED"},
     memory_retrieve |-> {"RESEARCHING", "FAILED"},
     scriptwriter |-> {"RESEARCHING", "SCRIPTING", "FAILED"},
     evaluator |-> {"SCRIPTING", "FAILED"},
     quality_gate |-> {"EVALUATING", "FAILED"},
     human_review |-> {"PASSED", "EXHAUSTED"},
     visualizer |-> {"APPROVED"},
     formatter |-> {"VISUALIZING", "FAILED"},
     END |-> {"COMPLETED", "FAILED"}]

ControlInv ==
    /\ status \in StatusAt[next]
    /\ paused => next = "human_review"
    /\ status # "FAILED" => human_revision_count <= MaxHumanRounds

\* Attempts written, attempts judged, and what is left of the budget.
InLoop == next \in {"research", "memory_retrieve", "scriptwriter", "evaluator", "quality_gate"}
Written == next \in {"evaluator", "quality_gate"}

CountInv ==
    /\ iteration <= MaxIterations + human_revision_count
    /\ status # "FAILED" =>
          /\ InLoop => iteration + 1 <= MaxIterations + human_revision_count
          /\ script_version = IF Written THEN iteration + 1 ELSE iteration
    /\ script_version <= MaxIterations + MaxHumanRounds
    /\ iteration <= script_version

\* The judge saw versions up to `iteration`; the draft in the loop is newer.
DraftInv ==
    /\ \A e \in judged : e.script <= iteration
    /\ status # "FAILED" /\ Written => generated_script = script_version
    /\ status = "EVALUATING" =>
          evaluation \in Evaluation /\ evaluation.script = generated_script

\* A script worth releasing.
Worthy(s) ==
    \E e \in judged :
        /\ e.script = s
        /\ \/ e.approved /\ e.score >= Threshold
           \/ \A f \in judged : f.score <= e.score

ReviewInv ==
    /\ ReviewedScriptIsSettled
    /\ status \in {"PASSED", "EXHAUSTED", "APPROVED", "VISUALIZING", "COMPLETED"} =>
          Worthy(generated_script)
    /\ status \in {"APPROVED", "VISUALIZING", "COMPLETED"} =>
          human_decision = "approve" /\ approved_script = generated_script
    /\ status \in {"VISUALIZING", "COMPLETED"} => visual_concepts = generated_script
    /\ final_short_concept = IF status = "COMPLETED" THEN generated_script ELSE NoScript

IInv == TypeOK /\ ControlInv /\ CountInv /\ DraftInv /\ BestSoFar /\ ReviewInv
=============================================================================
