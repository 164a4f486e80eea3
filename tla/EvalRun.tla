------------------------------ MODULE EvalRun ------------------------------
(***************************************************************************)
(* The offline evaluation and its merge gate: eval/runner.py runs the      *)
(* graph of ShortsGraph once per case of a dataset, eval/metrics.py makes  *)
(* a record of each final state and a summary of the records, and          *)
(* eval_gate/gate.py compares the summary with a frozen baseline, which is *)
(* the summary of an earlier run.                                          *)
(*                                                                         *)
(* Rates and means are numbers of ten-thousandths: the code rounds them to *)
(* four places.  Length and sections of a script are one BOOLEAN.          *)
(***************************************************************************)
EXTENDS ShortsGraph, Sequences, FiniteSetsExt

CONSTANTS
    Cases,            \* number of cases in the dataset
    MaxRuns,          \* bound: evaluation runs
    MinScore,         \* quality_criteria.min_overall_score
    RequireApproved,  \* quality_criteria.require_approved
    MinPassDelta, MinQualityDelta, MaxFailure, MaxFailureDelta  \* quality_gate.yaml

ASSUME EvalAssumption ==
    /\ Cases \in Nat \ {0}
    /\ MaxRuns \in Nat
    /\ MinScore \in Nat
    /\ RequireApproved \in BOOLEAN
    /\ {MinPassDelta, MinQualityDelta, MaxFailure, MaxFailureDelta} \subseteq Int

\* How quality_gate.yaml is meant: a candidate may be that much worse than the
\* baseline, and need not be better.  load_gate_config takes any numbers.
GateAssumption == MinPassDelta <= 0 /\ MinQualityDelta <= 0 /\ MaxFailureDelta >= 0

VARIABLES
    runs,      \* evaluation runs begun
    mode,      \* of the run in progress
    records,   \* its case records so far
    baseline,  \* the artifact of the committed baseline, or none
    candidate, \* the artifact of the last run, or none
    verdict    \* of the gate on candidate against baseline

eval == <<runs, mode, records, baseline, candidate, verdict>>
evalVars == <<vars, eval>>

Mode == {"demo", "live_judge"}
Unit == 10000
NoMean == -1

\* released is history: the score of the script in the final concept.
Record == [failed : BOOLEAN, score : Scores \cup {NoScore}, criteria_pass : BOOLEAN,
           exhausted : BOOLEAN, released : Scores \cup {NoScore}, gave_up : BOOLEAN]

Summary == [mode : Mode, pass_rate : 0..Unit, failure_rate : 0..Unit,
            average_quality : Nat \cup {NoMean}]
Missing == [mode |-> "missing", pass_rate |-> 0, failure_rate |-> 0, average_quality |-> NoMean]

RecordsTypeOK ==
    /\ runs \in 0..MaxRuns
    /\ mode \in Mode
    /\ records \in Seq(Record)
    /\ Len(records) <= Cases

ArtifactsTypeOK ==
    /\ {baseline, candidate} \subseteq Summary \cup {Missing}
    /\ verdict \in {"none", "passed", "failed"}

NoRuns ==
    /\ runs = 0
    /\ mode = "demo"
    /\ records = <<>>
    /\ baseline = Missing
    /\ candidate = Missing
    /\ verdict = "none"

EvalInit == Init /\ hitl_required = FALSE /\ NoRuns

-----------------------------------------------------------------------------
(***************************************************************************)
(* One case.                                                               *)
(***************************************************************************)

\* criteria_pass, wellFormed being the length and the sections of the script.
CriteriaPass(e, wellFormed) ==
    /\ e.score >= MinScore
    /\ RequireApproved => e.approved
    /\ wellFormed

\* Mutant: an evaluation is enough, whatever became of the run.
CaseFailed_NoEvaluation(error) == error \/ evaluation = NoEvaluation

CaseFailed(error) == error \/ status = "FAILED" \/ evaluation = NoEvaluation

\* The score the judge gave to the script in the final concept.
ReleasedScore ==
    IF status # "COMPLETED" THEN NoScore
    ELSE Max({e.score : e \in {j \in judged : j.script = final_short_concept}})

\* case_record_from_state
RecordOf(error, wellFormed) ==
    LET failed == CaseFailed(error)
    IN  [failed |-> failed,
         score |-> IF error THEN NoScore ELSE evaluation.score,
         criteria_pass |-> ~failed /\ CriteriaPass(evaluation, wellFormed),
         exhausted |-> ~error /\ status = "EXHAUSTED",
         released |-> IF error THEN NoScore ELSE ReleasedScore,
         gave_up |-> ~error /\ status = "COMPLETED" /\ ~Passes(evaluation)]

\* Mutant: the setting is put back after the first case, not after the run.
NextCase_Restored ==
    /\ next' = "research" /\ status' = "INITIALIZED" /\ error_node' = NoNode
    /\ paused' = FALSE /\ hitl_required' \in BOOLEAN
    /\ UNCHANGED <<draft, best, review, product>>

\* The graph is ready for the next case: Init', HITL off.
NextCase ==
    /\ next' = "research" /\ status' = "INITIALIZED" /\ error_node' = NoNode
    /\ paused' = FALSE /\ hitl_required' = FALSE
    /\ generated_script' = NoScript /\ script_version' = 0 /\ evaluation' = NoEvaluation
    /\ best_script' = NoScript /\ best_score' = NoScore /\ iteration' = 0 /\ judged' = {}
    /\ human_decision' = "none" /\ human_reviewer' = "none" /\ human_revision_count' = 0
    /\ approved_script' = NoScript
    /\ visual_concepts' = NoScript /\ final_short_concept' = NoScript

\* The evaluation run is at work on a case.
AtWork == runs > 0 /\ Len(records) < Cases

RunNode ==
    /\ AtWork
    /\ Step
    /\ UNCHANGED eval

FinishCase ==
    /\ AtWork
    /\ next = END
    /\ \E wellFormed \in BOOLEAN : records' = Append(records, RecordOf(FALSE, wellFormed))
    /\ NextCase
    /\ UNCHANGED <<runs, mode, baseline, candidate, verdict>>

\* The invocation raises: the case counts as FAILED and the run goes on.
CaseRaises ==
    /\ AtWork
    /\ records' = Append(records, RecordOf(TRUE, FALSE))
    /\ NextCase
    /\ UNCHANGED <<runs, mode, baseline, candidate, verdict>>

-----------------------------------------------------------------------------
(***************************************************************************)
(* The summary of a run, and its comparison with the baseline.             *)
(***************************************************************************)

\* p of n, in units, rounded.
Rate(p, n) == (2 * p * Unit + n) \div (2 * n)

Count(P(_)) == Cardinality({i \in DOMAIN records : P(records[i])})

\* The records that have a quality: those that did not fail.
Scored == {i \in DOMAIN records : records[i].score # NoScore /\ ~records[i].failed}

\* aggregate_metrics
Aggregate ==
    [mode |-> mode,
     pass_rate |-> Rate(Count(LAMBDA r : r.criteria_pass), Len(records)),
     failure_rate |-> Rate(Count(LAMBDA r : r.failed), Len(records)),
     average_quality |->
        IF Scored = {} THEN NoMean
        ELSE Rate(MapThenSumSet(LAMBDA i : records[i].score, Scored), Cardinality(Scored))]

\* run_dataset begins: the modes differ in their judge only.
StartRun ==
    /\ runs < MaxRuns
    /\ ~AtWork
    /\ runs' = runs + 1
    /\ mode' \in Mode
    /\ records' = <<>>
    /\ verdict' = "none"
    /\ UNCHANGED <<vars, baseline, candidate>>

\* write_run_artifact
WriteArtifact ==
    /\ runs > 0
    /\ Len(records) = Cases
    /\ candidate # Aggregate
    /\ candidate' = Aggregate
    /\ verdict' = "none"
    /\ UNCHANGED <<vars, runs, mode, records, baseline>>

\* A pull request of its own makes the last run the baseline.
SaveBaseline ==
    /\ candidate # Missing
    /\ baseline' = candidate
    /\ verdict' = "none"
    /\ UNCHANGED <<vars, runs, mode, records, candidate>>

QualityRegressed(b, c) ==
    \/ b.average_quality = NoMean \/ c.average_quality = NoMean
    \/ c.average_quality - b.average_quality < MinQualityDelta

\* Mutant: the cap on failures is relative to the baseline only.
FailsTooOften_Relative(b, c) == c.failure_rate - b.failure_rate > MaxFailureDelta

FailsTooOften(b, c) ==
    \/ c.failure_rate > MaxFailure
    \/ c.failure_rate - b.failure_rate > MaxFailureDelta

\* Mutant: baseline and candidate change places.
PassesLess_Swapped(b, c) == b.pass_rate - c.pass_rate < MinPassDelta

PassesLess(b, c) == c.pass_rate - b.pass_rate < MinPassDelta

\* evaluate_gate_files: a missing file or another mode fails.
GatePasses(b, c) ==
    /\ Missing \notin {b, c}
    /\ b.mode = c.mode
    /\ ~PassesLess(b, c)
    /\ ~QualityRegressed(b, c)
    /\ ~FailsTooOften(b, c)

Gate ==
    /\ verdict = "none"
    /\ ~AtWork
    /\ verdict' = IF GatePasses(baseline, candidate) THEN "passed" ELSE "failed"
    /\ UNCHANGED <<vars, runs, mode, records, baseline, candidate>>

EvalNext ==
    \/ RunNode \/ FinishCase \/ CaseRaises
    \/ StartRun \/ WriteArtifact \/ SaveBaseline \/ Gate

EvalSpec == EvalInit /\ [][EvalNext]_evalVars

\* The runner goes through its cases without anybody's help.
EvalFairSpec == EvalSpec /\ WF_evalVars(RunNode \/ FinishCase)

-----------------------------------------------------------------------------
(***************************************************************************)
(* Properties.                                                             *)
(***************************************************************************)

\* "Offline eval forces HITL off" (README.md:150): an evaluation is never left
\* waiting for a reviewer, and every run of it has a record for every case.
EvaluationEnds == AtWork ~> Len(records) = Cases

\* A case counts as failed exactly if no script was released, whichever node
\* failed and whatever evaluation is left over in the state.
FailedIsUnreleased ==
    \A i \in DOMAIN records : records[i].failed <=> records[i].released = NoScore

\* A candidate that passes the gate against a baseline has as good a record of
\* releases: a few cases that fail are not made up for by the others' scores.
PassedIsHarmless ==
    verdict = "passed" =>
        /\ Missing \notin {baseline, candidate}
        /\ baseline.mode = candidate.mode
        /\ candidate.failure_rate <= MaxFailure
        /\ NoMean \notin {baseline.average_quality, candidate.average_quality}
        /\ candidate.failure_rate <= baseline.failure_rate + MaxFailureDelta

\* The gate never fails a run for being better: one at least as good as the
\* baseline in every metric, and with few failures, passes.
BetterPasses ==
    verdict = "failed" =>
        \/ candidate = Missing \/ baseline = Missing \/ candidate.mode # baseline.mode
        \/ NoMean \in {candidate.average_quality, baseline.average_quality}
        \/ candidate.failure_rate > MaxFailure
        \/ candidate.failure_rate > baseline.failure_rate
        \/ candidate.pass_rate < baseline.pass_rate
        \/ candidate.average_quality < baseline.average_quality

\* Whatever a case does, it is recorded as failed exactly if nothing was
\* released.
CasesAreCounted == RecordsTypeOK /\ FailedIsUnreleased

\* The gate errs to neither side, with rates and means that may be missing.
GateIsFair == ArtifactsTypeOK /\ PassedIsHarmless /\ BetterPasses

\* "exhaustion_rate: fraction status == EXHAUSTED"
\* (docs/plans/08_phase_eval_dataset_a8617ded.plan.md:209): a case whose
\* attempts were used up without a pass is counted.
ExhaustedIsCounted ==
    \A i \in DOMAIN records : records[i].gave_up => records[i].exhausted

\* "criteria_pass = dataset thresholds vs actual scores/structure" (same file,
\* line 190): the score of a case is that of the script it checks.
ScoreIsOfScript ==
    \A i \in DOMAIN records :
        ~records[i].failed => records[i].score = records[i].released

-----------------------------------------------------------------------------
(***************************************************************************)
(* The inductive invariants behind CasesAreCounted and GateIsFair.         *)
(***************************************************************************)

\* The gate has processed one judgment per script.
JudgedOnce == \A e, f \in judged : e.script = f.script => e = f

\* From the judgment on there is one, unless the run has failed.
HasVerdict ==
    status \in {"EVALUATING", "PASSED", "EXHAUSTED", "APPROVED", "VISUALIZING", "COMPLETED"} =>
        evaluation # NoEvaluation

EvalIInv == IInv /\ JudgedOnce /\ HasVerdict /\ CasesAreCounted

\* A verdict is about the artifacts that are there: neither has changed since.
VerdictIsCurrent ==
    verdict # "none" => verdict = IF GatePasses(baseline, candidate) THEN "passed" ELSE "failed"

GateIInv == EvalIInv /\ ArtifactsTypeOK /\ VerdictIsCurrent
=============================================================================
