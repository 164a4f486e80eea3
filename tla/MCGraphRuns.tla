---------------------------- MODULE MCGraphRuns ----------------------------
(***************************************************************************)
(* Two users of the graph, for TLC: the job of a run with its reader, and  *)
(* the evaluation, which runs the graph once per case.  A behaviour is     *)
(* about one of them; what the other one keeps stands still.               *)
(*                                                                         *)
(* Both: two attempts and a score on either side of the threshold.  Job: a *)
(* review that may be sent back once, so that there is a second review.    *)
(* Evaluation: two cases, a baseline run and a candidate run.              *)
(***************************************************************************)
EXTENDS RunView, EvalRun

VARIABLE part

MCScores == {1, 2}
MCMinPassDelta == -500
MCMinQualityDelta == -3000

ASSUME GraphRunsAssumption == GateAssumption

viewer == <<rows, ran>>

\* The evaluation turns the reviews off.
MCInit ==
    /\ part \in {"view", "eval"}
    /\ ViewInit /\ NoRuns
    /\ part = "eval" => ~hitl_required

MCNext ==
    /\ UNCHANGED part
    /\ \/ part = "view" /\ ViewNext /\ UNCHANGED eval
       \/ part = "eval" /\ EvalNext /\ UNCHANGED viewer

\* The fairness of the evaluation: a case that can go on goes on.
MCSpec ==
    /\ MCInit /\ [][MCNext]_<<part, vars, viewer, eval>>
    /\ WF_evalVars(part = "eval" /\ (RunNode \/ FinishCase))

-----------------------------------------------------------------------------

\* Whatever its cases come to, an evaluation that has begun has all its records
\* in the end, although nobody answers a review (eval/runner.py).
EveryEvaluationEnds == part = "eval" => EvaluationEnds
=============================================================================
