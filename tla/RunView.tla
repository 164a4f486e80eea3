------------------------------ MODULE RunView ------------------------------
(***************************************************************************)
(* What GET /shorts/{id} shows of a run while one worker works on it:      *)
(* api/service.py (get_status) and api/pipeline.py, over the graph of      *)
(* ShortsGraph.                                                            *)
(*                                                                         *)
(* The reader first takes the status of the run and its domain checkpoint  *)
(* from the tables, and later the live state of the thread: in between the *)
(* worker goes on.  Where the thread cannot be read (another process's     *)
(* memory checkpointer, or an error) the domain checkpoint stands in.      *)
(***************************************************************************)
EXTENDS ShortsGraph, Sequences

VARIABLES
    job,      \* status of the newest job
    invoked,  \* since its claim, graph.invoke has saved a first checkpoint
    row,      \* the execution's state_checkpoint and final_status
    seen,     \* what a reader has taken from the tables
    ran       \* history: the nodes that were run

rows == <<job, invoked, row, seen>>
viewVars == <<vars, rows, ran>>

\* What _done_flags looks at.  retrieved_memory_ids is a list from the first
\* state on (state.py:87): `exists`, for any checkpoint at all.
Checkpoint ==
    [exists : BOOLEAN, script : BOOLEAN, evaluation : BOOLEAN, iterated : BOOLEAN,
     decision : BOOLEAN, visuals : BOOLEAN, concept : BOOLEAN,
     status : Status \cup {"none", "AWAITING_HUMAN"}, error : Node \cup {NoNode}]

NoCheckpoint ==
    [exists |-> FALSE, script |-> FALSE, evaluation |-> FALSE, iterated |-> FALSE,
     decision |-> FALSE, visuals |-> FALSE, concept |-> FALSE,
     status |-> "none", error |-> NoNode]

\* The state of the thread, with the status s.
Values(s) ==
    [exists |-> TRUE,
     script |-> generated_script # NoScript \/ best_script # NoScript,
     evaluation |-> evaluation # NoEvaluation,
     iterated |-> iteration >= 1,
     decision |-> human_decision # "none",
     visuals |-> visual_concepts # NoScript,
     concept |-> final_short_concept # NoScript,
     status |-> s, error |-> error_node]

JobState == {"queued", "running", "awaiting_human", "succeeded", "failed"}
AgentState == {"pending", "running", "paused", "done", "failed"}

NotSeen == [api |-> "none", checkpoint |-> NoCheckpoint]

ViewTypeOK ==
    /\ job \in JobState
    /\ invoked \in BOOLEAN
    /\ row \in [checkpoint : Checkpoint, final : {"none", "COMPLETED", "FAILED"}]
    /\ seen \in [api : JobState \cup {"none"}, checkpoint : Checkpoint]
    /\ ran \subseteq Node

ViewInit ==
    /\ Init
    /\ job = "queued"
    /\ invoked = FALSE
    /\ row = [checkpoint |-> NoCheckpoint, final |-> "none"]
    /\ seen = NotSeen
    /\ ran = {}

-----------------------------------------------------------------------------
(***************************************************************************)
(* The worker.                                                             *)
(***************************************************************************)

\* The job of the first invocation, or of a decision, is claimed, and its
\* execution started.
Start ==
    /\ job = "queued"
    /\ job' = "running"
    /\ invoked' = FALSE
    /\ UNCHANGED <<vars, row, seen, ran>>

\* graph.invoke saves the thread's first checkpoint; a decision takes the
\* paused thread on.
Begin ==
    /\ job = "running"
    /\ ~invoked
    /\ invoked' = TRUE
    /\ \/ ~paused /\ UNCHANGED vars
       \/ \E d \in Decision, h \in BOOLEAN : Resume(d, h)
    /\ UNCHANGED <<job, row, seen, ran>>

\* The worker is in graph.invoke, or past it.
GraphRuns == job = "running" /\ invoked

Invoke ==
    /\ GraphRuns
    /\ row.final = "none"
    /\ Step
    /\ ran' = IF status = "FAILED" THEN ran ELSE ran \cup {next}
    /\ UNCHANGED rows

\* _checkpoint_only, where its write does not fail.
Pause ==
    /\ GraphRuns
    /\ paused
    /\ row' = [row EXCEPT !.checkpoint = Values("AWAITING_HUMAN")]
    /\ UNCHANGED <<vars, job, invoked, seen, ran>>

\* Mutant: the execution is finished before its checkpoint is written.
PersistFinal_NoCheckpoint ==
    /\ GraphRuns
    /\ next = END
    /\ row' = [row EXCEPT !.final = status]
    /\ UNCHANGED <<vars, job, invoked, seen, ran>>

\* _persist_final
PersistFinal ==
    /\ GraphRuns
    /\ next = END
    /\ row' = [checkpoint |-> Values(status), final |-> status]
    /\ UNCHANGED <<vars, job, invoked, seen, ran>>

Settled ==
    IF paused THEN "awaiting_human" ELSE IF status = "COMPLETED" THEN "succeeded" ELSE "failed"

\* _finalize_job, after the result is committed; a pause goes on to it also when
\* the write of its checkpoint failed.
FinalizeJob ==
    /\ GraphRuns
    /\ paused \/ (next = END /\ row.checkpoint = Values(status))
    /\ job' = Settled
    /\ UNCHANGED <<vars, invoked, row, seen, ran>>

\* The job fails for good although the graph did not: an exception, its clock
\* or the output policy, before or after the result is stored.
FailJob ==
    /\ job = "running"
    /\ job' = "failed"
    /\ UNCHANGED <<vars, invoked, row, seen, ran>>

\* enqueue_approve, enqueue_revise: a job that failed does not forbid it.
EnqueueDecision ==
    /\ job \in {"awaiting_human", "failed"}
    /\ paused
    /\ row.checkpoint.status = "AWAITING_HUMAN"
    /\ job' = "queued"
    /\ UNCHANGED <<vars, invoked, row, seen, ran>>

-----------------------------------------------------------------------------
(***************************************************************************)
(* The reader.                                                             *)
(***************************************************************************)

\* Mutant: a checkpoint that waits is believed before a job that failed.
ApiStatus_WaitsFirst ==
    CASE row.checkpoint.status = "AWAITING_HUMAN" -> "awaiting_human"
      [] row.final = "COMPLETED" -> "succeeded"
      [] row.final = "FAILED" -> "failed"
      [] OTHER -> job

\* Mutant: a run that ended is a run that succeeded.
ApiStatus_Ended ==
    CASE row.final # "none" -> "succeeded"
      [] row.final = "none" /\ job = "failed" -> "failed"
      [] OTHER -> IF row.checkpoint.status = "AWAITING_HUMAN" THEN "awaiting_human" ELSE job

\* get_status: the execution's end, the end of the newest job, a checkpoint
\* that waits for its reviewer, and else what the job says.
ApiStatus ==
    CASE row.final = "COMPLETED" -> "succeeded"
      [] row.final = "FAILED" -> "failed"
      [] row.final = "none" /\ job = "failed" -> "failed"
      [] OTHER -> IF row.checkpoint.status = "AWAITING_HUMAN" THEN "awaiting_human" ELSE job

Read ==
    /\ seen' = [api |-> ApiStatus, checkpoint |-> row.checkpoint]
    /\ UNCHANGED <<vars, job, invoked, row, ran>>

\* get_result: whether the result is given out, api being the status read in
\* the transaction before and r the row as it is now.  The output policy may
\* still refuse it.
Served(api, r) ==
    /\ api \in {"succeeded", "awaiting_human"}
    /\ r.checkpoint.exists
    /\ api = "succeeded" => r.checkpoint.concept

ViewNext ==
    \/ Start \/ Begin \/ Invoke \/ Pause \/ PersistFinal \/ FinalizeJob \/ FailJob
    \/ EnqueueDecision \/ Read

ViewSpec == ViewInit /\ [][ViewNext]_viewVars

-----------------------------------------------------------------------------
(***************************************************************************)
(* The agents, as the page shows them.                                     *)
(***************************************************************************)

Agents == <<"research", "memory_retrieve", "scriptwriter", "evaluator",
            "quality_gate", "human_review", "visualizer", "formatter">>

\* Mutant: only a pass is a visit of the gate.
GateDone_Passed(cp) == cp.evaluation /\ cp.status = "PASSED"

GateDone(cp) == cp.evaluation /\ cp.iterated

\* Mutant: the status alone tells that the review is over.
ReviewDone_ByStatus(cp) == cp.status \in {"APPROVED", "VISUALIZING", "COMPLETED"}

ReviewDone(cp) ==
    cp.decision \/ cp.status \in {"APPROVED", "VISUALIZING", "COMPLETED"}

\* _done_flags: what is done, and with it what must have been done before.
Done(cp) ==
    LET formatted == cp.concept \/ cp.status = "COMPLETED"
        drawn     == formatted \/ cp.visuals
        gated     == drawn \/ GateDone(cp)
        evaluated == gated \/ cp.evaluation
        written   == evaluated \/ cp.script
    IN  {a \in Node :
            \/ a \in {"research", "memory_retrieve"} /\ (written \/ cp.exists)
            \/ a = "scriptwriter" /\ written
            \/ a = "evaluator" /\ evaluated
            \/ a = "quality_gate" /\ gated
            \/ a = "human_review" /\ (drawn \/ ReviewDone(cp))
            \/ a = "visualizer" /\ drawn
            \/ a = "formatter" /\ formatted}

\* a is the first agent that is not done.
FirstIncomplete(a, cp) ==
    \E i \in DOMAIN Agents :
        /\ Agents[i] = a
        /\ a \notin Done(cp)
        /\ \A k \in 1..(i - 1) : Agents[k] \in Done(cp)

\* infer_agent_pipeline: agent a, from a checkpoint, the nodes that are due and
\* the status of the run.
Shown(a, cp, due, api) ==
    LET state ==
            IF cp.error = a THEN "failed"
            ELSE IF api = "awaiting_human" /\ a = "human_review" /\ (a \in due \/ a \notin Done(cp))
               THEN "paused"
            ELSE IF a \in due THEN "running"
            ELSE IF a \in Done(cp) \/ api = "succeeded" THEN "done"
            ELSE IF api = "failed" /\ FirstIncomplete(a, cp) THEN "failed"
            ELSE IF api = "running" /\ due = {} /\ FirstIncomplete(a, cp) THEN "running"
            ELSE "pending"
    IN  IF api = "succeeded" /\ state # "failed" THEN "done" ELSE state

\* live_checkpoint: the thread has no state before its first invocation.
Begun == ran # {} \/ invoked

Due == IF Begun THEN {next} \ {END} ELSE {}

\* The page of a reader who has read the tables, and now reads the thread.
Live(a) == Shown(a, IF Begun THEN Values(status) ELSE seen.checkpoint, Due, seen.api)

\* The same where the thread cannot be read.
Fallback(a) == Shown(a, seen.checkpoint, {}, seen.api)

HasRead == seen.api # "none"

-----------------------------------------------------------------------------
(***************************************************************************)
(* Properties.                                                             *)
(***************************************************************************)

\* However far the worker went between the two reads, and whatever rewrites
\* and reviews lie behind the run, the page never shows two agents at work.
OneActive ==
    HasRead /\ status # "FAILED" =>
        \A a, b \in Node :
            Live(a) \in {"running", "paused"} /\ Live(b) \in {"running", "paused"} => a = b

\* A run that waits is shown to wait, at its second review as at its first:
\* everything before the review is done and nothing behind it has begun.
WaitingIsShown ==
    paused /\ seen.api = "awaiting_human" =>
        /\ Live("human_review") = "paused"
        /\ \A a \in {"visualizer", "formatter"} : Live(a) = "pending"
        /\ \A a \in Node \ {"human_review", "visualizer", "formatter"} : Live(a) = "done"

\* No agent but the memory is shown done before it has ever been run, neither
\* from the thread nor from the tables, with a status that may be stale.
DoneHasRun ==
    HasRead =>
        \A a \in Node \ {"memory_retrieve"} : "done" \in {Live(a), Fallback(a)} => a \in ran

\* The status tells the truth about the run: "succeeded" is a released
\* script, "awaiting_human" a review that was opened, and a job that has
\* settled is not contradicted unless the run had already ended.
StatusIsTrue ==
    /\ ApiStatus = "succeeded" => final_short_concept = approved_script /\ status = "COMPLETED"
    /\ ApiStatus = "awaiting_human" => "human_review" \in ran
    /\ job \in {"awaiting_human", "succeeded", "failed"} /\ row.final = "none" => ApiStatus = job

\* Who was told that the run succeeded can fetch its result, and who fetches
\* it has the script that was approved: status and result are two reads.
SucceededIsServed ==
    seen.api = "succeeded" =>
        Served(seen.api, row) /\ final_short_concept = approved_script

\* A view that is put together from a status, a checkpoint and a thread read at
\* three different times is of a run that there is: one agent at work, a review
\* that waits, nothing done before its turn, a result behind every success.
ViewIsConsistent ==
    ViewTypeOK /\ OneActive /\ WaitingIsShown /\ DoneHasRun /\ SucceededIsServed

\* "Each step has state: pending, running, paused, done, failed"
\* (docs/runbooks/api.md:149): an agent shown done has been run.
EveryDoneHasRun ==
    HasRead => \A a \in Node : Live(a) = "done" => a \in ran

\* Once a run has ended FAILED and its status is read, the agent that failed is
\* the one shown failed (test_agent_pipeline.py:61, error node), and no other.
FailureIsPinned ==
    row.final = "FAILED" /\ seen = [api |-> "failed", checkpoint |-> row.checkpoint] =>
        \A a \in Node : Live(a) = "failed" => a = error_node

\* At every review the page shows the review as paused, also where the thread
\* cannot be read (test_agent_pipeline.py, awaiting human).
ReviewIsShownWithoutThread ==
    job = "awaiting_human" /\ seen = [api |-> "awaiting_human", checkpoint |-> row.checkpoint] =>
        Fallback("human_review") = "paused"

\* "409 if the run is not complete yet" (docs/runbooks/api.md:177): the result
\* is given out of a run that is finished or paused (line 157).
NoResultWhileRunning ==
    Served(ApiStatus, row) => row.final # "none" \/ paused \/ job \in {"awaiting_human", "failed"}

-----------------------------------------------------------------------------
(***************************************************************************)
(* The inductive invariant behind ViewIsConsistent and StatusIsTrue, part  *)
(* by part, on top of that of the graph (IInv).                            *)
(***************************************************************************)

\* Which agents, the memory aside, a run has run that stands in front of node n.
Past ==
    [research |-> {},
     memory_retrieve |-> {"research"},
     scriptwriter |-> {"research"},
     evaluator |-> {"research", "scriptwriter"},
     quality_gate |-> {"research", "scriptwriter", "evaluator"},
     human_review |-> {"research", "scriptwriter", "evaluator", "quality_gate"},
     visualizer |-> {"research", "scriptwriter", "evaluator", "quality_gate", "human_review"},
     formatter |-> Node \ {"memory_retrieve", "formatter"},
     END |-> Node \ {"memory_retrieve"}]

\* What the state holds was made by an agent that ran, and so did those before.
RanInv ==
    /\ next # "research" => "research" \in ran
    /\ status # "FAILED" => Past[next] \subseteq ran
    /\ generated_script # NoScript \/ best_script # NoScript => Past.evaluator \subseteq ran
    /\ evaluation # NoEvaluation => Past.quality_gate \subseteq ran
    /\ iteration > 0 => Past.human_review \subseteq ran
    /\ human_decision # "none" => Past.visualizer \subseteq ran
    /\ visual_concepts # NoScript => Past.formatter \subseteq ran
    /\ final_short_concept # NoScript => Past.END \subseteq ran
    /\ paused => "human_review" \in ran
    /\ "human_review" \in ran => paused \/ human_decision # "none"

\* A run names no failed node before it fails, holds no visual plan before its
\* approval, and stands at its review with a judged draft.
StageInv ==
    /\ status # "FAILED" => error_node = NoNode
    /\ status \notin {"VISUALIZING", "COMPLETED", "FAILED"} => visual_concepts = NoScript
    /\ next = "human_review" => evaluation # NoEvaluation /\ iteration > 0

\* No checkpoint reports more than was run.
Honest(cp) == Done(cp) \ {"memory_retrieve"} \subseteq ran

\* The execution's end is stored together with its last checkpoint, and before
\* any job settles on it.
RowInv ==
    /\ row.final = "none" => row.checkpoint.status \in {"none", "AWAITING_HUMAN"}
    /\ row.final # "none" => next = END /\ row = [checkpoint |-> Values(status), final |-> status]
    /\ row.checkpoint.status = "AWAITING_HUMAN" => "human_review" \in ran
    /\ Honest(row.checkpoint)
    /\ job = "awaiting_human" => "human_review" \in ran
    /\ job = "succeeded" => row.final = "COMPLETED"

\* What a reader took along is out of date, but was true.
SeenInv ==
    /\ seen.api = "succeeded" => row.final = "COMPLETED"
    /\ seen.api = "awaiting_human" => "human_review" \in ran
    /\ Honest(seen.checkpoint)

ViewInv == ViewTypeOK /\ RanInv /\ StageInv /\ RowInv /\ SeenInv
=============================================================================
