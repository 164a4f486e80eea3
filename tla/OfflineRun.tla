----------------------------- MODULE OfflineRun -----------------------------
(***************************************************************************)
(* ShortsGraph with the scriptwriter and the judge the product runs with:  *)
(* nodes.py writes every draft with demo_script, and judge_script uses the *)
(* synthetic rubric unless an evaluation asked for the live judge.  What   *)
(* ShortsGraph leaves open, the text and its score, is determined here by  *)
(* the request, the research notes, the issues of the last evaluation and  *)
(* the feedback of the last decision.                                      *)
(***************************************************************************)
EXTENDS ShortsGraph, JudgeRubric, Sequences

CONSTANTS RequestLengths,   \* len(request)
          ResearchLengths   \* len(research): 0 when the A2A peer gave nothing

VARIABLES
    request,         \* its length and the marker in it
    research,        \* the length of the research notes
    memory_context,  \* memory_retrieve found something
    scripts,         \* the drafts, by script_version
    issues,          \* evaluation.issues is not empty
    human_feedback   \* the last decision came with feedback

inputs == <<request, research, memory_context>>
texts == <<scripts, issues, human_feedback>>
offline == <<inputs, texts>>

OfflineTypeOK ==
    /\ request \in [length : RequestLengths, marker : Marker]
    /\ research \in ResearchLengths
    /\ memory_context \in BOOLEAN
    /\ scripts \in Seq(ShortScript)
    /\ issues \in BOOLEAN
    /\ human_feedback \in BOOLEAN

OfflineInit ==
    /\ Init
    /\ request \in [length : RequestLengths, marker : Marker]
    /\ research \in ResearchLengths
    /\ memory_context \in BOOLEAN
    /\ scripts = <<>>
    /\ issues = FALSE
    /\ human_feedback = FALSE

\* Mutant: the writer does not look at the issues.
Draft_Unrevised ==
    DemoScript(request.length, research, memory_context, human_feedback, FALSE)

\* The draft the scriptwriter makes of the state it is given.
Draft == DemoScript(request.length, research, memory_context, human_feedback, issues)

Write ==
    /\ Scriptwriter
    /\ scripts' = IF script_version' = script_version THEN scripts ELSE Append(scripts, Draft)
    /\ UNCHANGED <<inputs, issues, human_feedback>>

\* judge_script without the live judge.
JudgeScript(s) ==
    MergeEvaluation(SyntheticJudge(s, request.marker, research), DeterministicChecks(s))

Judge ==
    /\ Evaluator
    /\ IF status' = "FAILED"
          THEN issues' = (issues /\ evaluation' = evaluation)
          ELSE LET e == JudgeScript(scripts[generated_script])
               IN  /\ evaluation'.score = e.overall
                   /\ evaluation'.approved = e.approved
                   /\ issues' = e.issues
    /\ UNCHANGED <<inputs, scripts, human_feedback>>

\* The decision and the feedback that came with it; an automatic approval
\* clears the feedback, request_changes always brings some.
Answer ==
    /\ \E d \in Decision, h, f \in BOOLEAN :
          /\ Resume(d, h)
          /\ d = "request_changes" => f
          /\ human_feedback' = (h /\ f)
    /\ UNCHANGED <<inputs, scripts, issues>>

Review ==
    /\ HumanReview
    /\ human_feedback' = (human_feedback /\ hitl_required)
    /\ UNCHANGED <<inputs, scripts, issues>>

Elsewhere ==
    /\ Research \/ MemoryRetrieve \/ QualityGate \/ Visualizer \/ Formatter \/ FallThrough
    /\ UNCHANGED offline

OfflineNext == Write \/ Judge \/ Review \/ Answer \/ Elsewhere

OfflineSpec == OfflineInit /\ [][OfflineNext]_<<vars, offline>>

-----------------------------------------------------------------------------
(***************************************************************************)
(* Properties.                                                             *)
(***************************************************************************)

\* Without a marker a draft that answers the issues of the one before always
\* passes (a first draft may be too short, with a short request and no notes):
\* given two attempts, only a run that was sent back can be exhausted.
RevisedDraftPasses ==
    request.marker = "none" =>
        /\ \A e \in judged : scripts[e.script].revised => Passes(e)
        /\ status = "EXHAUSTED" /\ MaxIterations > 1 => human_revision_count > 0

\* [retry-pass] (demo_producers.py): what passes is a draft that answers an
\* earlier judgment, never the first one.
RetryPassNeedsRetry ==
    request.marker = "retry_pass" /\ status = "PASSED" =>
        /\ scripts[generated_script].revised
        /\ \E e \in judged : e.script < generated_script /\ ~e.approved

\* [reject]: no draft passes, and since all of them score alike it is the first
\* one that every review shows and a release publishes, whatever the reviewer
\* asked for.
RejectKeepsFirstDraft ==
    request.marker = "reject" =>
        /\ status # "PASSED"
        /\ status \in {"EXHAUSTED", "APPROVED", "VISUALIZING", "COMPLETED"} =>
              generated_script = 1

\* Every draft the gate lets through has a hook, a body and a call to action of
\* the required length: the marker rubrics do not bypass the checks.
PassedDraftIsSound ==
    status = "PASSED" => DeterministicChecks(scripts[generated_script]) = {}

\* Over all lengths, scores, markers and reviews: which drafts pass, and which
\* one a run that does not pass is left with.
OfflineInv ==
    /\ OfflineTypeOK
    /\ RevisedDraftPasses /\ RetryPassNeedsRetry /\ RejectKeepsFirstDraft
    /\ PassedDraftIsSound

\* A script sent back is rewritten (docs/plans/
\* 13_phase_human_in_loop_d6d12396.plan.md:190: a reject "starts a new
\* generation cycle"): the next draft is not the text that was refused.
RewriteIsNew ==
    [][Len(scripts') > Len(scripts) /\ human_decision \in {"reject", "request_changes"}
         => scripts'[Len(scripts')] # scripts[generated_script]]_<<vars, offline>>

-----------------------------------------------------------------------------
(***************************************************************************)
(* The inductive invariant behind OfflineInv, on top of the graph's IInv.  *)
(* It holds for thresholds up to the default 7.0, which is what the rubric *)
(* asks of a draft it approves: with a higher one an approved draft could  *)
(* fail the gate, and would be written again for no issue at all.          *)
(***************************************************************************)

OfflineAssumption ==
    RequestLengths \subseteq Nat /\ ResearchLengths \subseteq Nat /\ Threshold <= 70

\* One draft per version, each of them by demo_script for this request.
Authored(s) ==
    \E guided, revised \in BOOLEAN :
        s = DemoScript(request.length, research, memory_context, guided, revised)

ScriptsInv ==
    /\ Len(scripts) = script_version
    /\ \A i \in DOMAIN scripts : Authored(scripts[i])

\* Every judgment is the rubric's of its draft, and the issues are those of
\* the last one.
OfRubric(e) ==
    /\ e.script \in DOMAIN scripts
    /\ e.score = JudgeScript(scripts[e.script]).overall
    /\ e.approved = JudgeScript(scripts[e.script]).approved

JudgmentsInv ==
    /\ \A e \in judged : OfRubric(e)
    /\ evaluation # NoEvaluation => OfRubric(evaluation)
    /\ issues = (evaluation # NoEvaluation /\ ~evaluation.approved)

\* What the gate has seen of them.
GateInv ==
    /\ status \in {"INITIALIZED", "RESEARCHING"} => script_version = 0
    /\ judged = {} => iteration = 0
    /\ status # "FAILED" /\ next # "quality_gate" /\ evaluation # NoEvaluation =>
          evaluation \in judged
    /\ status = "EXHAUSTED" =>
          /\ evaluation # NoEvaluation /\ ~Passes(evaluation)
          /\ evaluation.script = script_version

\* A draft that answers issues has an earlier one that was refused; without a
\* marker and a reviewer every draft but the first is such an answer.
RevisionsInv ==
    /\ \A i \in DOMAIN scripts : scripts[i].revised =>
          \E e \in judged : e.script < i /\ ~e.approved
    /\ request.marker = "none" /\ human_revision_count = 0 =>
          /\ \A i \in DOMAIN scripts : i > 1 => scripts[i].revised
          /\ next = "scriptwriter" /\ status = "SCRIPTING" =>
                evaluation # NoEvaluation /\ ~Passes(evaluation)

\* With [reject] the first draft stays the best.
FirstIsBest ==
    request.marker = "reject" =>
        /\ judged # {} => best_script = 1 /\ best_score = 35
        /\ status \in {"EXHAUSTED", "APPROVED", "VISUALIZING", "COMPLETED"} =>
              generated_script = 1

OfflineIInv ==
    /\ IInv /\ OfflineTypeOK /\ ScriptsInv /\ JudgmentsInv /\ GateInv /\ RevisionsInv
    /\ FirstIsBest
=============================================================================
