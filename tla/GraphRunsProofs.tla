-------------------------- MODULE GraphRunsProofs --------------------------
(***************************************************************************)
(* Proofs about what is built around the graph of ShortsGraph, for all     *)
(* values of the constants: what the API and the page show of a run is     *)
(* consistent, however far the worker goes between the reads (RunView);    *)
(* an evaluation counts a case as failed exactly if nothing was released   *)
(* (EvalRun); and with the offline writer and rubric it is known which     *)
(* drafts pass (OfflineRun).  All three rest on the graph's own IInv.      *)
(***************************************************************************)
EXTENDS RunView, EvalRun, OfflineRun, ShortsGraphProofs,
        FiniteSetTheorems

\* One step of the graph keeps its invariant.
LEMMA GraphIInvStep == IInv /\ [Next]_vars => IInv'
BY TypeStep, ControlStep, CountStep, DraftStep, BestStep, ReviewStep DEF IInv

-----------------------------------------------------------------------------
(***************************************************************************)
(* The worker runs the graph and nothing else.                             *)
(***************************************************************************)

\* A step of the view is a step of the graph or leaves it alone.
LEMMA ViewStepIsGraphStep == [ViewNext]_viewVars => [Next]_vars
BY DEF ViewNext, viewVars, Start, Begin, GraphRuns, Invoke, Pause, PersistFinal, FinalizeJob, FailJob,
   EnqueueDecision, Read, Next

\* What is seen of a run is seen of a run of ShortsGraph.
LEMMA ViewOfAGraph == ViewSpec => Spec
<1>1. ViewInit => Init
    BY DEF ViewInit
<1> QED
    BY <1>1, ViewStepIsGraphStep, PTL DEF ViewSpec, Spec

\* So the invariant of the graph holds under the view.
LEMMA GraphInv == ViewSpec => []IInv
BY ViewOfAGraph, Invariance, PTL

-----------------------------------------------------------------------------
(***************************************************************************)
(* What was run.                                                           *)
(***************************************************************************)

\* Past, node by node.
LEMMA PastOf ==
    /\ Past["research"] = {} /\ Past["memory_retrieve"] = {"research"}
    /\ Past["scriptwriter"] = {"research"}
    /\ Past["evaluator"] = {"research", "scriptwriter"}
    /\ Past["quality_gate"] = {"research", "scriptwriter", "evaluator"}
    /\ Past["human_review"] = {"research", "scriptwriter", "evaluator", "quality_gate"}
    /\ Past["visualizer"] =
          {"research", "scriptwriter", "evaluator", "quality_gate", "human_review"}
    /\ Past["formatter"] =
          {"research", "scriptwriter", "evaluator", "quality_gate", "human_review", "visualizer"}
    /\ Past["END"] = {"research", "scriptwriter", "evaluator", "quality_gate", "human_review",
                      "visualizer", "formatter"}
BY DEF Past, Node

\* The edges, node by node.
LEMMA EdgeOf ==
    /\ Edge["research"] = "memory_retrieve" /\ Edge["memory_retrieve"] = "scriptwriter"
    /\ Edge["scriptwriter"] = "evaluator" /\ Edge["evaluator"] = "quality_gate"
    /\ Edge["visualizer"] = "formatter" /\ Edge["formatter"] = "END"
BY DEF Edge, END

\* Where a run stands tells its status.
LEMMA StatusOf ==
    ASSUME IInv
    PROVE  /\ next = "research" => status = "INITIALIZED"
           /\ next \in {"scriptwriter", "evaluator", "quality_gate", "memory_retrieve"} =>
                 status \in {"RESEARCHING", "SCRIPTING", "EVALUATING", "FAILED"}
           /\ next = "human_review" => status \in {"PASSED", "EXHAUSTED"}
           /\ next = "visualizer" => status = "APPROVED"
           /\ next = "formatter" => status \in {"VISUALIZING", "FAILED"}
           /\ next = "END" => status \in {"COMPLETED", "FAILED"}
           /\ paused => next = "human_review"
           /\ next \in Node \cup {"END"}
BY DEF IInv, ControlInv, StatusAt, TypeOK, END

\* One node of a run that has not failed, and what is run after it.
LEMMA RanStep ==
    ASSUME IInv, IInv', RanInv, [ViewNext]_viewVars
    PROVE  RanInv'
<1> USE PastOf, EdgeOf, StatusOf DEF RanInv, draft, best, review, product, END
<1>i. status \in Status /\ iteration \in Nat /\ human_decision \in Decision \cup {"none"}
    BY DEF IInv, TypeOK
<1>1. CASE UNCHANGED <<vars, ran>>
    BY <1>1 DEF vars, control
<1>2. ASSUME NEW d \in Decision, NEW h \in BOOLEAN, Resume(d, h), ran' = ran
      PROVE  RanInv'
    <2>1. /\ paused /\ ~paused' /\ next = "human_review" /\ status # "FAILED"
          /\ Past["visualizer"] \subseteq ran
          /\ UNCHANGED <<draft, best, product>>
        BY <1>2 DEF Resume
    <2>2. /\ human_decision' \in Decision
          /\ \/ status' = "APPROVED" /\ next' = "visualizer"
             \/ status' = "SCRIPTING" /\ next' = "scriptwriter"
             \/ status' = "FAILED" /\ next' = "END"
        BY <1>2 DEF Resume, Decide, AutoApprove, GiveUp, Succeeded, Failed, Follow, RouteAfterHuman,
           Decision
    <2> QED
        BY <1>2, <2>1, <2>2 DEF Decision
<1>3. ASSUME Invoke, status = "FAILED"
      PROVE  RanInv'
    <2>1. FallThrough /\ ran' = ran
        BY <1>3 DEF Invoke, Step, Research, MemoryRetrieve, Scriptwriter, Evaluator, QualityGate,
           HumanReview, Visualizer, Formatter, Enter
    <2>2. next' # "research"
        BY <2>1 DEF FallThrough, Follow, RouteAfterGate, RouteAfterHuman, Node
    <2>3. next # "research"
        BY <1>3
    <2> QED
        BY <1>3, <2>1, <2>2, <2>3 DEF FallThrough
<1>4. ASSUME Invoke, status # "FAILED"
      PROVE  RanInv'
    <2>1. Step /\ ran' = ran \cup {next} /\ Past[next] \subseteq ran
        BY <1>4 DEF Invoke
    <2>2. CASE Research \/ MemoryRetrieve
        BY <2>1, <2>2 DEF Research, MemoryRetrieve, Enter
    <2>3. CASE Scriptwriter
        BY <2>1, <2>3 DEF Scriptwriter, Enter
    <2>4. CASE Evaluator
        BY <2>1, <2>4 DEF Evaluator, Enter
    <2>5. CASE QualityGate
        <3>1. /\ next = "quality_gate" /\ ~paused /\ ~paused'
              /\ next' \in {"scriptwriter", "human_review", "END"}
              /\ next' = "END" => status' = "FAILED"
              /\ UNCHANGED <<evaluation, review, product>>
            <4>1. status' \in {"FAILED", "PASSED", "SCRIPTING", "EXHAUSTED"}
                BY <2>5 DEF QualityGate, ApplyQualityGate, Failed, Succeeded
            <4> QED
                BY <2>5, <4>1 DEF QualityGate, Enter, Follow, RouteAfterGate
        <3> QED
            BY <2>1, <3>1
    <2>6. CASE HumanReview
        <3>1. /\ next = "human_review" /\ ~paused
              /\ \/ paused' /\ UNCHANGED <<next, status, review>>
                 \/ ~paused' /\ human_decision' = "approve" /\ next' = "visualizer"
                     /\ status' = "APPROVED"
              /\ UNCHANGED <<draft, best, product>>
            BY <2>6 DEF HumanReview, AutoApprove, Succeeded, Follow, RouteAfterHuman
        <3> QED
            BY <2>1, <3>1
    <2>7. CASE Visualizer
        BY <2>1, <2>7 DEF Visualizer, Enter
    <2>8. CASE Formatter
        BY <2>1, <2>8 DEF Formatter, Enter
    <2>9. ~FallThrough
        BY <1>4 DEF FallThrough
    <2> QED
        BY <2>1, <2>2, <2>3, <2>4, <2>5, <2>6, <2>7, <2>8, <2>9 DEF Step
<1> QED
    BY <1>1, <1>2, <1>3, <1>4 DEF ViewNext, viewVars, Start, Begin, GraphRuns, Pause, PersistFinal,
       FinalizeJob, FailJob, EnqueueDecision, Read, rows

\* What a run holds at which stage.
LEMMA StageStep ==
    ASSUME IInv, IInv', StageInv, [ViewNext]_viewVars
    PROVE  StageInv'
<1> USE EdgeOf, StatusOf DEF StageInv, draft, best, review, product, END
<1>i. status \in Status /\ iteration \in Nat
    BY DEF IInv, TypeOK
<1>s. [Next]_vars
    BY ViewStepIsGraphStep
<1>1. CASE UNCHANGED vars
    BY <1>1 DEF vars, control
<1>2. ASSUME NEW d \in Decision, NEW h \in BOOLEAN, Resume(d, h)
      PROVE  StageInv'
    <2>1. /\ paused /\ next = "human_review" /\ status \in {"PASSED", "EXHAUSTED"}
          /\ UNCHANGED <<draft, best, product>>
        BY <1>2 DEF Resume
    <2>2. /\ next' # "human_review"
          /\ \/ status' \in {"APPROVED", "SCRIPTING"} /\ error_node' = NoNode
             \/ status' = "FAILED"
        BY <1>2 DEF Resume, Decide, AutoApprove, GiveUp, Succeeded, Failed, Follow, RouteAfterHuman,
           Decision
    <2> QED
        BY <2>1, <2>2
<1>3. CASE FallThrough
    <2>1. next' # "human_review"
        BY <1>3 DEF FallThrough, Follow, RouteAfterGate, RouteAfterHuman, Node
    <2> QED
        BY <1>3, <2>1 DEF FallThrough
<1>4. CASE Research \/ MemoryRetrieve
    BY <1>4 DEF Research, MemoryRetrieve, Enter, Succeeded, Failed
<1>5. CASE Scriptwriter \/ Evaluator
    BY <1>5 DEF Scriptwriter, Evaluator, Enter, Succeeded, Failed
<1>6. CASE QualityGate
    <2>1. /\ status' # "FAILED" => error_node' = NoNode /\ evaluation # NoEvaluation
                                   /\ iteration' = iteration + 1
          /\ status' = "FAILED" => next' = "END"
          /\ next = "quality_gate" /\ status # "FAILED" /\ UNCHANGED <<evaluation, product>>
          /\ status' \in {"FAILED", "PASSED", "SCRIPTING", "EXHAUSTED"}
        BY <1>6 DEF QualityGate, ApplyQualityGate, Failed, Succeeded, Enter, Follow, RouteAfterGate
    <2> QED
        BY <1>i, <2>1
<1>7. CASE HumanReview
    BY <1>7 DEF HumanReview, AutoApprove, Succeeded, Follow, RouteAfterHuman
<1>8. CASE Visualizer \/ Formatter
    BY <1>8 DEF Visualizer, Formatter, Enter, Succeeded, Failed
<1> QED
    BY <1>s, <1>1, <1>2, <1>3, <1>4, <1>5, <1>6, <1>7, <1>8 DEF Next, Step

-----------------------------------------------------------------------------
(***************************************************************************)
(* What a checkpoint reports.                                              *)
(***************************************************************************)

\* What a checkpoint of the present state says.
LEMMA ValuesOf ==
    ASSUME NEW s
    PROVE  /\ Values(s).exists /\ Values(s).status = s /\ Values(s).error = error_node
           /\ Values(s).script <=> generated_script # NoScript \/ best_script # NoScript
           /\ Values(s).evaluation <=> evaluation # NoEvaluation
           /\ Values(s).iterated <=> iteration >= 1
           /\ Values(s).decision <=> human_decision # "none"
           /\ Values(s).visuals <=> visual_concepts # NoScript
           /\ Values(s).concept <=> final_short_concept # NoScript
BY DEF Values

\* Done, agent by agent.
LEMMA DoneOf ==
    ASSUME NEW cp
    PROVE  /\ "formatter" \in Done(cp) <=> cp.concept \/ cp.status = "COMPLETED"
           /\ "visualizer" \in Done(cp) <=> "formatter" \in Done(cp) \/ cp.visuals
           /\ "human_review" \in Done(cp) <=>
                 \/ "visualizer" \in Done(cp) \/ cp.decision
                 \/ cp.status \in {"APPROVED", "VISUALIZING", "COMPLETED"}
           /\ "quality_gate" \in Done(cp) <=>
                 "visualizer" \in Done(cp) \/ (cp.evaluation /\ cp.iterated)
           /\ "evaluator" \in Done(cp) <=> "quality_gate" \in Done(cp) \/ cp.evaluation
           /\ "scriptwriter" \in Done(cp) <=> "evaluator" \in Done(cp) \/ cp.script
           /\ "research" \in Done(cp) <=> "scriptwriter" \in Done(cp) \/ cp.exists
           /\ "memory_retrieve" \in Done(cp) <=> "research" \in Done(cp)
           /\ Done(cp) \subseteq Node
BY DEF Done, GateDone, ReviewDone, Node

\* What the state of the thread reports was run, but for the research, which
\* it takes for done from the start.
LEMMA StateIsHonest ==
    ASSUME IInv, RanInv, NEW s, s = status \/ s = "AWAITING_HUMAN"
    PROVE  Done(Values(s)) \ {"memory_retrieve", "research"} \subseteq ran
<1> DEFINE cp == Values(s)
<1>1. /\ s \in {"APPROVED", "VISUALIZING", "COMPLETED"} => Past["visualizer"] \subseteq ran
      /\ s = "COMPLETED" => Past["END"] \subseteq ran
    <2>1. /\ status = "APPROVED" => next = "visualizer"
          /\ status = "VISUALIZING" => next = "formatter"
          /\ status = "COMPLETED" => next = "END"
        BY StatusOf DEF Node
    <2> QED
        BY <2>1, PastOf DEF RanInv
<1>2. iteration >= 1 <=> iteration > 0
    BY DEF IInv, TypeOK
<1>3. /\ "formatter" \in Done(cp) => Past["END"] \subseteq ran
      /\ "visualizer" \in Done(cp) => Past["formatter"] \subseteq ran
      /\ "human_review" \in Done(cp) => Past["visualizer"] \subseteq ran
      /\ "quality_gate" \in Done(cp) => Past["human_review"] \subseteq ran
      /\ "evaluator" \in Done(cp) => Past["quality_gate"] \subseteq ran
      /\ "scriptwriter" \in Done(cp) => Past["evaluator"] \subseteq ran
    <2> HIDE DEF cp
    <2> QED
        BY <1>1, <1>2, PastOf, DoneOf, ValuesOf DEF RanInv, cp
<1> QED
    BY <1>3, PastOf, DoneOf DEF Node

\* Once the research is behind the run, that was run too.
LEMMA CheckpointIsHonest ==
    ASSUME IInv, RanInv, NEW s, s = status \/ s = "AWAITING_HUMAN", next # "research"
    PROVE  Honest(Values(s))
BY StateIsHonest DEF Honest, RanInv

\* An agent that is shown at work is due, or is the review, or the first one
\* that is not done.
LEMMA ShownActive ==
    ASSUME NEW a, NEW cp, NEW due, NEW api, Shown(a, cp, due, api) \in {"running", "paused"}
    PROVE  \/ a \in due
           \/ api = "awaiting_human" /\ a = "human_review" /\ a \notin Done(cp)
           \/ api = "running" /\ due = {} /\ FirstIncomplete(a, cp)
BY DEF Shown

\* When an agent is shown done.
LEMMA ShownDone ==
    ASSUME NEW a, NEW cp, NEW due, NEW api, Shown(a, cp, due, api) = "done"
    PROVE  api = "succeeded" \/ (a \in Done(cp) /\ a \notin due)
BY DEF Shown

\* There is one first agent that is not done.
LEMMA OneFirstIncomplete ==
    ASSUME NEW a, NEW b, NEW cp, FirstIncomplete(a, cp), FirstIncomplete(b, cp)
    PROVE  a = b
<1>1. PICK i \in DOMAIN Agents :
        Agents[i] = a /\ a \notin Done(cp) /\ \A k \in 1..(i - 1) : Agents[k] \in Done(cp)
    BY DEF FirstIncomplete
<1>2. PICK j \in DOMAIN Agents :
        Agents[j] = b /\ b \notin Done(cp) /\ \A k \in 1..(j - 1) : Agents[k] \in Done(cp)
    BY DEF FirstIncomplete
<1>3. DOMAIN Agents = 1..8
    BY DEF Agents
<1>4. ~(i < j) /\ ~(j < i)
    BY <1>1, <1>2, <1>3
<1>5. i = j
    BY <1>3, <1>4
<1> QED
    BY <1>1, <1>2, <1>5

-----------------------------------------------------------------------------
(***************************************************************************)
(* The tables, and who reads them.                                         *)
(***************************************************************************)

\* A checkpoint of the present state is a checkpoint.
LEMMA ValuesType ==
    ASSUME IInv, NEW s \in Status \cup {"none", "AWAITING_HUMAN"}
    PROVE  Values(s) \in Checkpoint
BY DEF Values, Checkpoint, IInv, TypeOK

\* What the API tells is a state of a job.
LEMMA StatusSeen ==
    ASSUME ViewTypeOK
    PROVE  ApiStatus \in JobState
BY DEF ViewTypeOK, ApiStatus, JobState

\* The types of the view.
LEMMA ViewTypeStep ==
    ASSUME IInv, ViewTypeOK, [ViewNext]_viewVars
    PROVE  ViewTypeOK'
<1> USE DEF ViewTypeOK, rows
<1>i. status \in Status /\ next \in Node \cup {END}
    BY DEF IInv, TypeOK
<1>1. CASE Start \/ Begin \/ EnqueueDecision \/ FailJob \/ FinalizeJob
    BY <1>1 DEF Start, Begin, EnqueueDecision, FailJob, FinalizeJob, Settled, JobState
<1>2. CASE Invoke
    <2>1. next # END
        BY <1>2, StatusOf DEF Invoke, Step, Research, MemoryRetrieve, Scriptwriter, Evaluator, QualityGate,
           HumanReview, Visualizer, Formatter, Enter, FallThrough, END
    <2> QED
        BY <1>2, <1>i, <2>1 DEF Invoke
<1>3. CASE Pause
    <2>1. Values("AWAITING_HUMAN") \in Checkpoint
        BY ValuesType
    <2> QED
        BY <1>3, <2>1 DEF Pause, GraphRuns
<1>4. CASE PersistFinal
    <2>1. Values(status) \in Checkpoint /\ status \in {"COMPLETED", "FAILED"}
        BY <1>4, <1>i, ValuesType, StatusOf DEF PersistFinal, END
    <2> QED
        BY <1>4, <2>1 DEF PersistFinal, GraphRuns
<1>5. CASE Read
    BY <1>5, StatusSeen DEF Read
<1>6. CASE UNCHANGED viewVars
    BY <1>6 DEF viewVars
<1> QED
    BY <1>1, <1>2, <1>3, <1>4, <1>5, <1>6 DEF ViewNext

\* What was run stays run, and once the end is stored the run stands still.
LEMMA StandsStill ==
    ASSUME IInv, RowInv, [ViewNext]_viewVars
    PROVE  /\ ran \subseteq ran'
           /\ row.final # "none" => UNCHANGED <<vars, ran>>
<1>1. row.final # "none" => ~paused
    BY StatusOf DEF RowInv, END
<1> QED
    BY <1>1 DEF ViewNext, viewVars, Start, Begin, GraphRuns, Invoke, Pause, PersistFinal, FinalizeJob, FailJob,
       EnqueueDecision, Read, rows, Resume

\* The rows follow the run.
LEMMA RowStep ==
    ASSUME IInv, ViewTypeOK, RanInv, RowInv, [ViewNext]_viewVars
    PROVE  RowInv'
<1>m. ran \subseteq ran' /\ (row.final # "none" => UNCHANGED <<vars, ran>>)
    BY StandsStill
<1>r. /\ row \in [checkpoint : Checkpoint, final : {"none", "COMPLETED", "FAILED"}]
      /\ job \in JobState
    BY DEF ViewTypeOK
<1>1. ASSUME row' = row, job' = job \/ job' \in {"queued", "running", "failed"}
      PROVE  RowInv'
    <2>1. row.final # "none" =>
            next' = END /\ row' = [checkpoint |-> Values(status), final |-> status]'
        BY <1>1, <1>m DEF RowInv, Values, vars, control, draft, best, review, product
    <2> QED
        BY <1>1, <1>m, <2>1 DEF RowInv, Honest
<1>2. CASE Start \/ Begin \/ EnqueueDecision \/ FailJob \/ Read \/ Invoke \/ UNCHANGED viewVars
    BY <1>1, <1>2 DEF Start, Begin, EnqueueDecision, FailJob, Read, Invoke, rows, viewVars
<1>3. CASE FinalizeJob
    <2>1. /\ row' = row /\ UNCHANGED <<vars, ran>> /\ job' = Settled
          /\ paused \/ (next = END /\ row.checkpoint = Values(status))
        BY <1>3 DEF FinalizeJob
    <2>2. ~paused => row.checkpoint.status = status
        BY <2>1, ValuesOf
    <2>3. job' = "awaiting_human" => "human_review" \in ran
        BY <2>1 DEF Settled, RanInv
    <2>4. job' = "succeeded" => row.final = "COMPLETED"
        <3>1. job' = "succeeded" => row.checkpoint.status = "COMPLETED" /\ status = "COMPLETED"
            BY <2>1, <2>2 DEF Settled
        <3> QED
            BY <3>1 DEF RowInv
    <2>5. row.final # "none" =>
            next' = END /\ row' = [checkpoint |-> Values(status), final |-> status]'
        BY <2>1 DEF RowInv, Values, vars, control, draft, best, review, product
    <2> QED
        BY <2>1, <2>3, <2>4, <2>5 DEF RowInv, Honest
<1>4. CASE Pause
    <2>1. /\ paused /\ UNCHANGED <<vars, job, ran>>
          /\ row' = [row EXCEPT !.checkpoint = Values("AWAITING_HUMAN")]
        BY <1>4 DEF Pause
    <2>2. row'.checkpoint = Values("AWAITING_HUMAN") /\ row'.final = row.final
        BY <1>r, <2>1
    <2>3. row'.checkpoint.status = "AWAITING_HUMAN"
        BY <2>2, ValuesOf
    <2>4. row.final = "none"
        BY <2>1, StatusOf DEF RowInv, END
    <2>5. "human_review" \in ran /\ next # "research"
        BY <2>1, StatusOf DEF RanInv
    <2>6. Honest(row'.checkpoint)
        BY <2>2, <2>5, CheckpointIsHonest
    <2> QED
        BY <2>1, <2>2, <2>3, <2>4, <2>5, <2>6 DEF RowInv, Honest
<1>5. CASE PersistFinal
    <2>1. /\ next = END /\ UNCHANGED <<vars, job, ran>>
          /\ row' = [checkpoint |-> Values(status), final |-> status]
        BY <1>5 DEF PersistFinal
    <2>2. row'.checkpoint = Values(status) /\ row'.final = status
        BY <2>1
    <2>3. status \in {"COMPLETED", "FAILED"} /\ row'.checkpoint.status = status
        BY <2>1, <2>2, StatusOf, ValuesOf DEF END
    <2>4. Honest(row'.checkpoint)
        BY <2>1, <2>2, CheckpointIsHonest DEF END
    <2>5. next' = END /\ row' = [checkpoint |-> Values(status), final |-> status]'
        BY <2>1 DEF Values, vars, control, draft, best, review, product
    <2> QED
        BY <2>1, <2>2, <2>3, <2>4, <2>5 DEF RowInv, Honest
<1> QED
    BY <1>2, <1>3, <1>4, <1>5 DEF ViewNext

\* What the API tells, in terms of the rows.
LEMMA ApiTells ==
    ASSUME ViewTypeOK, RowInv
    PROVE  /\ ApiStatus = "succeeded" => row.final = "COMPLETED"
           /\ ApiStatus = "awaiting_human" => "human_review" \in ran
           /\ job \in {"awaiting_human", "succeeded", "failed"} /\ row.final = "none"
                 => ApiStatus = job
BY DEF ApiStatus, RowInv, ViewTypeOK, JobState

\* What was read was true when it was read, and what ran has run.
LEMMA SeenStep ==
    ASSUME IInv, ViewTypeOK, RowInv, SeenInv, [ViewNext]_viewVars
    PROVE  SeenInv'
<1>m. ran \subseteq ran' /\ (row.final # "none" => UNCHANGED <<vars, ran>>)
    BY StandsStill
<1>f. row.final = "COMPLETED" => row'.final = "COMPLETED"
    <2>1. ~(row.final = "COMPLETED" /\ Pause)
        BY StatusOf DEF Pause, RowInv, END
    <2>2. PersistFinal /\ row.final = "COMPLETED" => row'.final = "COMPLETED"
        BY DEF PersistFinal, RowInv
    <2> QED
        BY <2>1, <2>2 DEF ViewNext, viewVars, Start, Begin, GraphRuns, Invoke, FinalizeJob, FailJob,
           EnqueueDecision, Read, rows
<1>1. CASE Read
    BY <1>1, ApiTells DEF Read, SeenInv, RowInv, Honest
<1>2. CASE seen' = seen
    BY <1>m, <1>f, <1>2 DEF SeenInv, Honest
<1> QED
    BY <1>1, <1>2 DEF ViewNext, viewVars, Start, Begin, GraphRuns, Invoke, Pause, PersistFinal, FinalizeJob, FailJob,
       EnqueueDecision, Read, rows

-----------------------------------------------------------------------------
(***************************************************************************)
(* The properties follow.                                                  *)
(***************************************************************************)

LEMMA ViewInvInit == ViewInit => ViewInv
<1> SUFFICES ASSUME ViewInit PROVE ViewInv
    OBVIOUS
<1> USE DEF ViewInit, Init
<1>1. NoCheckpoint \in Checkpoint /\ NoCheckpoint.status = "none" /\ Done(NoCheckpoint) = {}
    <2>1. NoCheckpoint \in Checkpoint
        BY DEF NoCheckpoint, Checkpoint
    <2>2. ~NoCheckpoint.concept /\ ~NoCheckpoint.visuals /\ ~NoCheckpoint.decision
          /\ ~NoCheckpoint.evaluation /\ ~NoCheckpoint.script /\ ~NoCheckpoint.exists
          /\ NoCheckpoint.status = "none"
        BY DEF NoCheckpoint
    <2> QED
        BY <2>1, <2>2, DoneOf DEF Node
<1>2. ViewTypeOK
    BY <1>1 DEF ViewTypeOK, JobState, NotSeen
<1>3. RanInv
    BY PastOf DEF RanInv
<1>4. StageInv
    BY DEF StageInv
<1>5. RowInv /\ SeenInv
    BY <1>1 DEF RowInv, SeenInv, Honest, NotSeen
<1> QED
    BY <1>2, <1>3, <1>4, <1>5 DEF ViewInv

\* What a reader has seen, what the tables say and what was run fit together in
\* every behaviour of one worker and its readers.
THEOREM ViewInvariance == ViewSpec => []ViewInv
<1>1. IInv /\ IInv' /\ ViewInv /\ [ViewNext]_viewVars => ViewInv'
    BY ViewTypeStep, RanStep, StageStep, RowStep, SeenStep DEF ViewInv
<1> QED
    BY GraphInv, ViewInvInit, <1>1, PTL DEF ViewSpec

\* One agent at most is shown at work.
LEMMA OnlyOneActive ==
    ASSUME IInv, ViewInv
    PROVE  OneActive
<1> SUFFICES ASSUME HasRead, status # "FAILED", NEW a \in Node, NEW b \in Node,
                    Live(a) \in {"running", "paused"}, Live(b) \in {"running", "paused"}
             PROVE  a = b
    BY DEF OneActive
<1> DEFINE cp == IF Begun THEN Values(status) ELSE seen.checkpoint
           Why(c) == \/ c \in Due
                     \/ seen.api = "awaiting_human" /\ c = "human_review" /\ c \notin Done(cp)
                     \/ seen.api = "running" /\ Due = {} /\ FirstIncomplete(c, cp)
<1>1. Why(a) /\ Why(b)
    BY ShownActive DEF Live
\* Where the review is still to come and was seen to wait, it is what is due.
<1>2. ASSUME NEW c \in Due, seen.api = "awaiting_human", "human_review" \notin Done(cp)
      PROVE  c = "human_review"
    <2>1. Begun /\ c = next
        BY <1>2 DEF Due
    <2>2. human_decision = "none"
        BY <1>2, <2>1, DoneOf, ValuesOf
    <2>3. paused
        BY <1>2, <2>2 DEF ViewInv, SeenInv, RanInv
    <2> QED
        BY <2>1, <2>3, StatusOf
<1>3. \A c, d \in Due : c = d
    BY DEF Due
<1> HIDE DEF cp
<1> QED
    BY <1>1, <1>2, <1>3, OneFirstIncomplete

\* A review that waits is shown.
LEMMA ReviewIsShown ==
    ASSUME IInv, ViewInv
    PROVE  WaitingIsShown
<1> SUFFICES ASSUME paused, seen.api = "awaiting_human"
             PROVE  /\ Live("human_review") = "paused"
                    /\ \A a \in {"visualizer", "formatter"} : Live(a) = "pending"
                    /\ \A a \in Node \ {"human_review", "visualizer", "formatter"} : Live(a) = "done"
    BY DEF WaitingIsShown
<1> DEFINE cp == Values(status)
<1>1. /\ next = "human_review" /\ status \in {"PASSED", "EXHAUSTED"}
      /\ visual_concepts = NoScript /\ final_short_concept = NoScript
      /\ evaluation # NoEvaluation /\ iteration >= 1 /\ error_node = NoNode
    BY StatusOf DEF ViewInv, StageInv, IInv, ReviewInv, TypeOK
<1>2. Begun /\ Due = {"human_review"}
    BY <1>1 DEF ViewInv, RanInv, Begun, Due, END
<1>3. /\ Node \ {"human_review", "visualizer", "formatter"} \subseteq Done(cp)
      /\ "visualizer" \notin Done(cp) /\ "formatter" \notin Done(cp)
      /\ cp.error = "none"
    BY <1>1, DoneOf, ValuesOf DEF Node, NoNode
<1>4. \A a : Live(a) = Shown(a, cp, {"human_review"}, "awaiting_human")
    BY <1>2 DEF Live
<1> HIDE DEF cp
<1> QED
    BY <1>3, <1>4 DEF Shown, Node

\* No agent is shown done that has not run.
LEMMA NothingDoneUnrun ==
    ASSUME IInv, ViewInv
    PROVE  DoneHasRun
<1> SUFFICES ASSUME HasRead, NEW a \in Node \ {"memory_retrieve"},
                    "done" \in {Live(a), Fallback(a)}
             PROVE  a \in ran
    BY DEF DoneHasRun
<1>1. CASE seen.api = "succeeded"
    <2>1. status = "COMPLETED" /\ next = END
        BY <1>1 DEF ViewInv, SeenInv, RowInv
    <2> QED
        BY <2>1, PastOf DEF ViewInv, RanInv, Node, END
<1>2. CASE seen.api # "succeeded" /\ Fallback(a) = "done"
    <2>1. a \in Done(seen.checkpoint)
        BY <1>2, ShownDone DEF Fallback
    <2> QED
        BY <2>1 DEF ViewInv, SeenInv, Honest
<1>3. CASE seen.api # "succeeded" /\ Live(a) = "done"
    <2> DEFINE cp == IF Begun THEN Values(status) ELSE seen.checkpoint
    <2>1. a \in Done(cp) /\ a \notin Due
        BY <1>3, ShownDone DEF Live
    <2>2. CASE ~Begun
        BY <2>1, <2>2 DEF ViewInv, SeenInv, Honest
    <2>3. CASE Begun /\ a # "research"
        BY <2>1, <2>3, StateIsHonest DEF ViewInv
    <2>4. CASE Begun /\ a = "research"
        BY <2>1, <2>4 DEF Due, END, ViewInv, RanInv
    <2> QED
        BY <2>2, <2>3, <2>4
<1> QED
    BY <1>1, <1>2, <1>3

\* An execution that is stored as completed has the approved script.
LEMMA StoredResult ==
    ASSUME IInv, ViewInv, row.final = "COMPLETED"
    PROVE  /\ status = "COMPLETED" /\ final_short_concept = approved_script
           /\ row.checkpoint.exists /\ row.checkpoint.concept
<1>1. status = "COMPLETED" /\ row.checkpoint = Values(status)
    BY DEF ViewInv, RowInv
<1>2. final_short_concept = approved_script /\ final_short_concept # NoScript
    <2>1. Worthy(generated_script) /\ approved_script = generated_script
          /\ final_short_concept = generated_script
        BY <1>1 DEF IInv, ReviewInv
    <2>2. generated_script # NoScript
        BY <2>1 DEF Worthy, IInv, TypeOK, Evaluation
    <2> QED
        BY <2>1, <2>2
<1> QED
    BY <1>1, <1>2, ValuesOf

\* A view that is put together from a status, a checkpoint and a thread that
\* were read at three different times shows one agent at work, a review that
\* waits, nothing done before its turn, and a result behind every success.
THEOREM ViewsAreConsistent == ViewSpec => []ViewIsConsistent
<1>1. IInv /\ ViewInv => SucceededIsServed
    BY StoredResult DEF SucceededIsServed, Served, ViewInv, SeenInv
<1>2. IInv /\ ViewInv => ViewIsConsistent
    BY <1>1, OnlyOneActive, ReviewIsShown, NothingDoneUnrun DEF ViewIsConsistent, ViewInv
<1> QED
    BY GraphInv, ViewInvariance, <1>2, PTL

\* The status the API gives out is the truth about the run: behind "succeeded"
\* is a released script, behind "awaiting_human" an opened review, and a job
\* that has settled is contradicted only by a run that had already ended.
THEOREM StatusTellsTruth == ViewSpec => []StatusIsTrue
<1>1. IInv /\ ViewInv => StatusIsTrue
    BY StoredResult, ApiTells DEF StatusIsTrue, ViewInv, RowInv
<1> QED
    BY GraphInv, ViewInvariance, <1>1, PTL

-----------------------------------------------------------------------------
(***************************************************************************)
(* Evaluation: the records of the cases.                                   *)
(***************************************************************************)

\* The gate judges each script once: it is newer than all it has judged.
LEMMA JudgedOnceStep == IInv /\ JudgedOnce /\ [Next]_vars => JudgedOnce'
<1> SUFFICES ASSUME IInv, JudgedOnce, [Next]_vars PROVE JudgedOnce'
    OBVIOUS
<1>1. CASE judged' = judged
    BY <1>1 DEF JudgedOnce
<1>2. CASE judged' # judged
    <2>1. QualityGate /\ ApplyQualityGate
        BY <1>2, OnlyGateJudges DEF best
    <2>2. judged' = judged \cup {evaluation} /\ next = "quality_gate" /\ status # "FAILED"
        BY <2>1 DEF QualityGate, ApplyQualityGate, Enter
    <2>3. /\ evaluation.script = iteration + 1
          /\ \A e \in judged : e.script <= iteration /\ e.script \in Nat
          /\ iteration \in Nat
        BY <2>2 DEF IInv, ControlInv, StatusAt, CountInv, DraftInv, Written, TypeOK, Evaluation
    <2>4. \A e \in judged : e.script # evaluation.script
        BY <2>3
    <2> QED
        BY <2>2, <2>4 DEF JudgedOnce
<1> QED
    BY <1>1, <1>2

\* An evaluation that is there stays there, until the run fails.
LEMMA VerdictStep == IInv /\ HasVerdict /\ [Next]_vars => HasVerdict'
<1> SUFFICES ASSUME IInv, HasVerdict, [Next]_vars PROVE HasVerdict'
    OBVIOUS
<1> USE DEF HasVerdict, IInv, ControlInv, StatusAt, Enter, Succeeded, Failed, NoNode
<1>1. CASE Research \/ MemoryRetrieve \/ Scriptwriter
    BY <1>1 DEF Research, MemoryRetrieve, Scriptwriter
<1>2. CASE Evaluator
    <2>1. ASSUME NEW s, NEW a, generated_script # NoScript
          PROVE  [script |-> generated_script, score |-> s, approved |-> a] # NoEvaluation
        BY <2>1 DEF NoEvaluation
    <2> QED
        BY <1>2, <2>1 DEF Evaluator
<1>3. CASE QualityGate
    BY <1>3 DEF QualityGate, ApplyQualityGate
<1>4. CASE HumanReview
    BY <1>4 DEF HumanReview, AutoApprove, draft
<1>5. CASE \E d \in Decision, h \in BOOLEAN : Resume(d, h)
    BY <1>5 DEF Resume, Decide, AutoApprove, GiveUp, draft
<1>6. CASE Visualizer \/ Formatter
    BY <1>6 DEF Visualizer, Formatter, draft
<1>7. CASE FallThrough
    BY <1>7 DEF FallThrough
<1>8. CASE UNCHANGED vars
    BY <1>8 DEF vars, control, draft
<1> QED
    BY <1>1, <1>2, <1>3, <1>4, <1>5, <1>6, <1>7, <1>8 DEF Next, Step

\* The released script has one judgment, so ReleasedScore is its score.
LEMMA ReleasedScoreOf ==
    ASSUME IInv, JudgedOnce, status = "COMPLETED"
    PROVE  ReleasedScore \in Scores
<1>1. PICK e \in judged : e.script = final_short_concept
    BY DEF IInv, ReviewInv, Worthy
<1>2. {j \in judged : j.script = final_short_concept} = {e}
    BY <1>1 DEF JudgedOnce
<1>3. e.score \in Scores /\ e.score \in Nat
    BY GraphAssumption DEF IInv, TypeOK, Evaluation
<1>4. Max({e.score}) = e.score
    BY <1>3 DEF Max
<1>5. {f.score : f \in {e}} = {e.score}
    OBVIOUS
<1> QED
    BY <1>2, <1>3, <1>4, <1>5 DEF ReleasedScore

\* A record of a case that has ended, or was broken off.
LEMMA RecordIsTrue ==
    ASSUME IInv, JudgedOnce, HasVerdict, NEW error \in BOOLEAN, NEW w \in BOOLEAN,
           ~error => next = END
    PROVE  /\ RecordOf(error, w) \in Record
           /\ RecordOf(error, w).failed <=> RecordOf(error, w).released = NoScore
<1> DEFINE r == RecordOf(error, w)
<1>1. ~error => status \in {"COMPLETED", "FAILED"}
    BY DEF IInv, ControlInv, StatusAt, END
<1>2. NoScore \notin Scores /\ Scores \subseteq Nat
    BY GraphAssumption DEF NoScore
<1>3. CASE error
    <2>1. r = [failed |-> TRUE, score |-> NoScore, criteria_pass |-> FALSE,
               exhausted |-> FALSE, released |-> NoScore, gave_up |-> FALSE]
        BY <1>3 DEF RecordOf, CaseFailed
    <2> QED
        BY <2>1 DEF Record
<1>4. CASE ~error
    <2>1. r.released = ReleasedScore /\ ReleasedScore \in Scores \cup {NoScore}
        BY <1>4, <1>1, ReleasedScoreOf DEF RecordOf, ReleasedScore
    <2>2. ReleasedScore = NoScore <=> status # "COMPLETED"
        BY <1>2, ReleasedScoreOf DEF ReleasedScore
    <2>3. CaseFailed(error) <=> status # "COMPLETED"
        BY <1>1, <1>4 DEF CaseFailed, HasVerdict
    <2>4. evaluation.score \in Scores \cup {NoScore}
        BY DEF IInv, TypeOK, Evaluation, NoEvaluation
    <2>5. PICK f \in BOOLEAN : f = CaseFailed(error)
        BY DEF CaseFailed
    <2>6. PICK c \in BOOLEAN : c = (~CaseFailed(error) /\ CriteriaPass(evaluation, w))
        BY DEF CaseFailed, CriteriaPass
    <2>7. PICK x \in BOOLEAN : x = (~error /\ status = "EXHAUSTED")
        OBVIOUS
    <2>8. PICK g \in BOOLEAN : g = (~error /\ status = "COMPLETED" /\ ~Passes(evaluation))
        OBVIOUS
    <2>9. r = [failed |-> f, score |-> evaluation.score, criteria_pass |-> c,
               exhausted |-> x, released |-> ReleasedScore, gave_up |-> g]
        BY <1>4, <2>5, <2>6, <2>7, <2>8, Zenon DEF RecordOf
    <2> HIDE DEF r
    <2>10. r \in Record /\ r.failed = f /\ r.released = ReleasedScore
        BY <2>1, <2>4, <2>9 DEF Record
    <2> QED
        BY <2>2, <2>3, <2>5, <2>10 DEF r
<1> QED
    BY <1>3, <1>4

\* The graph made ready for the next case is in an initial state.
LEMMA FreshGraph == NextCase => IInv' /\ JudgedOnce' /\ HasVerdict'
<1>1. NextCase => Init'
    BY DEF NextCase, Init
<1>2. Init => IInv /\ JudgedOnce /\ HasVerdict
    BY InitIInv DEF Init, JudgedOnce, HasVerdict
<1> QED
    BY <1>1, <1>2, PTL

\* One record more.
LEMMA OneRecordMore ==
    ASSUME CasesAreCounted, AtWork, NEW r \in Record, r.failed <=> r.released = NoScore,
           records' = Append(records, r), UNCHANGED <<runs, mode>>
    PROVE  CasesAreCounted'
<1>1. RecordsTypeOK'
    BY EvalAssumption DEF CasesAreCounted, RecordsTypeOK, AtWork
<1>2. FailedIsUnreleased'
    BY DEF CasesAreCounted, RecordsTypeOK, FailedIsUnreleased
<1> QED
    BY <1>1, <1>2 DEF CasesAreCounted

\* A step of an evaluation keeps its invariant.
LEMMA EvalStep == EvalIInv /\ [EvalNext]_evalVars => EvalIInv'
<1> SUFFICES ASSUME EvalIInv, [EvalNext]_evalVars PROVE EvalIInv'
    OBVIOUS
<1> USE DEF EvalIInv
<1>1. ASSUME [Next]_vars PROVE IInv' /\ JudgedOnce' /\ HasVerdict'
    BY <1>1, GraphIInvStep, JudgedOnceStep, VerdictStep
<1>2. ASSUME UNCHANGED <<runs, mode, records>> PROVE CasesAreCounted'
    BY <1>2 DEF CasesAreCounted, RecordsTypeOK, FailedIsUnreleased
<1>3. CASE RunNode
    BY <1>1, <1>2, <1>3 DEF RunNode, Next, eval
<1>4. CASE FinishCase
    <2>1. PICK w \in BOOLEAN : records' = Append(records, RecordOf(FALSE, w))
        BY <1>4 DEF FinishCase
    <2>2. CasesAreCounted'
        BY <1>4, <2>1, RecordIsTrue, OneRecordMore DEF FinishCase
    <2> QED
        BY <1>4, <2>2, FreshGraph DEF FinishCase
<1>5. CASE CaseRaises
    <2>1. CasesAreCounted'
        BY <1>5, RecordIsTrue, OneRecordMore DEF CaseRaises
    <2> QED
        BY <1>5, <2>1, FreshGraph DEF CaseRaises
<1>6. CASE StartRun
    <2>1. CasesAreCounted'
        BY <1>6, EvalAssumption DEF StartRun, CasesAreCounted, RecordsTypeOK, FailedIsUnreleased
    <2> QED
        BY <1>1, <1>6, <2>1 DEF StartRun
<1>7. CASE WriteArtifact \/ SaveBaseline \/ Gate
    BY <1>1, <1>2, <1>7 DEF WriteArtifact, SaveBaseline, Gate
<1>8. CASE UNCHANGED evalVars
    BY <1>1, <1>2, <1>8 DEF evalVars, eval
<1> QED
    BY <1>3, <1>4, <1>5, <1>6, <1>7, <1>8 DEF EvalNext

\* Before the first case.
LEMMA EvalInitIInv == EvalInit => EvalIInv
<1> SUFFICES ASSUME EvalInit PROVE EvalIInv
    OBVIOUS
<1>1. IInv /\ JudgedOnce /\ HasVerdict
    BY InitIInv DEF EvalInit, NoRuns, Init, JudgedOnce, HasVerdict
<1>2. CasesAreCounted
    BY EvalAssumption DEF EvalInit, NoRuns, CasesAreCounted, RecordsTypeOK, FailedIsUnreleased, Mode
<1> QED
    BY <1>1, <1>2 DEF EvalIInv

\* Whatever node of a case fails or raises, and whatever evaluation is left over
\* in its state: the case counts as failed exactly if nothing was released.
THEOREM CasesCountedRight == EvalSpec => []CasesAreCounted
<1>1. EvalIInv => CasesAreCounted
    BY DEF EvalIInv
<1> QED
    BY <1>1, EvalInitIInv, EvalStep, PTL DEF EvalSpec

-----------------------------------------------------------------------------
(***************************************************************************)
(* Evaluation: the gate on what the records come to.  MapThenSumSet is a   *)
(* fold; what is needed of it follows from a set that would be a smallest  *)
(* counterexample, of which a finite set of sets has one.                  *)
(***************************************************************************)

\* Among sets of elements of a finite set one is minimal.
LEMMA MinimalSet ==
    ASSUME NEW S, IsFiniteSet(S), NEW B, B \subseteq SUBSET S, B # {}
    PROVE  \E u \in B : \A t \in SUBSET u : t # u => t \notin B
<1>1. B \subseteq FiniteSubsetsOf(S)
    BY FS_Subset DEF FiniteSubsetsOf
<1>2. IsWellFoundedOn(StrictSubsetOrdering(S), FiniteSubsetsOf(S))
    BY FS_StrictSubsetOrderingWellFounded
<1>3. PICK u \in B : \A t \in B : ~(<<t, u>> \in StrictSubsetOrdering(S))
    BY <1>1, <1>2, WFMin
<1>4. ASSUME NEW t \in SUBSET u, t # u
      PROVE  t \notin B
    BY <1>3, <1>4 DEF StrictSubsetOrdering
<1> QED
    BY <1>4

\* What a fold over a set takes next.
AnyOf(s) == CHOOSE x \in s : TRUE

\* g adds up the scores of r over every subset of S, as MapThenSumSet does.
AddsUp(g, r, S) ==
    g = [s \in SUBSET S |-> IF s = {} THEN 0 ELSE r[AnyOf(s)].score + g[s \ {AnyOf(s)}]]

\* One more element of the sum.
LEMMA SumStep ==
    ASSUME NEW S, NEW r, NEW g, AddsUp(g, r, S), NEW s \in SUBSET S
    PROVE  /\ s = {} => g[s] = 0
           /\ s # {} => /\ AnyOf(s) \in s
                        /\ s \ {AnyOf(s)} \in SUBSET s /\ s \ {AnyOf(s)} # s
                        /\ g[s] = r[AnyOf(s)].score + g[s \ {AnyOf(s)}]
<1>1. g[s] = IF s = {} THEN 0 ELSE r[AnyOf(s)].score + g[s \ {AnyOf(s)}]
    BY Zenon DEF AddsUp
<1>2. s # {} => AnyOf(s) \in s
    BY DEF AnyOf
<1> QED
    BY <1>1, <1>2

\* Natural numbers add up to one.
LEMMA SumIsNat ==
    ASSUME NEW S, IsFiniteSet(S), NEW r, \A x \in S : r[x].score \in Nat, NEW g, AddsUp(g, r, S)
    PROVE  \A s \in SUBSET S : g[s] \in Nat
<1> DEFINE B == {s \in SUBSET S : g[s] \notin Nat}
<1> SUFFICES ASSUME B # {} PROVE FALSE
    OBVIOUS
<1>1. PICK u \in B : \A t \in SUBSET u : t # u => t \notin B
    <2>1. B \subseteq SUBSET S
        OBVIOUS
    <2> HIDE DEF B
    <2> QED
        BY <2>1, MinimalSet
<1>2. u \in SUBSET S /\ u # {}
    <2>1. u \in SUBSET S /\ g[u] \notin Nat
        BY <1>1
    <2>2. u = {} => g[u] = 0
        BY <2>1, SumStep
    <2> QED
        BY <2>1, <2>2
<1>3. AnyOf(u) \in S /\ g[u \ {AnyOf(u)}] \in Nat
    BY <1>1, <1>2, SumStep
<1>4. g[u] = r[AnyOf(u)].score + g[u \ {AnyOf(u)}]
    <2> HIDE DEF B
    <2> QED
        BY <1>2, SumStep
<1> QED
    BY <1>3, <1>4

\* Sums over two sets agree on the subsets of both.
LEMMA SumsAgree ==
    ASSUME NEW S, IsFiniteSet(S), NEW r, NEW a \in SUBSET S, NEW b \in SUBSET S,
           NEW g, AddsUp(g, r, a), NEW h, AddsUp(h, r, b)
    PROVE  \A s \in SUBSET (a \cap b) : g[s] = h[s]
<1> DEFINE B == {s \in SUBSET (a \cap b) : g[s] # h[s]}
<1> SUFFICES ASSUME B # {} PROVE FALSE
    OBVIOUS
<1>1. PICK u \in B : \A t \in SUBSET u : t # u => t \notin B
    <2>1. B \subseteq SUBSET S
        OBVIOUS
    <2> HIDE DEF B
    <2> QED
        BY <2>1, MinimalSet
<1>2. u \in SUBSET a /\ u \in SUBSET b /\ u # {}
    BY SumStep
<1>3. g[u \ {AnyOf(u)}] = h[u \ {AnyOf(u)}]
    <2>1. u \ {AnyOf(u)} \in SUBSET u /\ u \ {AnyOf(u)} # u
        BY <1>2, SumStep
    <2> QED
        BY <1>1, <1>2, <2>1
<1>4. g[u] = r[AnyOf(u)].score + g[u \ {AnyOf(u)}] /\ h[u] = r[AnyOf(u)].score + h[u \ {AnyOf(u)}]
    BY <1>2, SumStep
<1> QED
    BY <1>3, <1>4

\* There is a sum: CHOOSE finds it.
LEMMA SumExists ==
    ASSUME NEW S, IsFiniteSet(S), NEW r
    PROVE  \E g : AddsUp(g, r, S)
<1> DEFINE B == {s \in SUBSET S : \A g : ~AddsUp(g, r, s)}
<1> SUFFICES ASSUME B # {} PROVE FALSE
    OBVIOUS
<1>1. PICK u \in B : \A t \in SUBSET u : t # u => t \notin B
    <2>1. B \subseteq SUBSET S
        OBVIOUS
    <2> HIDE DEF B
    <2> QED
        BY <2>1, MinimalSet
<1> DEFINE of(t) == CHOOSE g : AddsUp(g, r, t)
<1>2. ASSUME NEW t \in SUBSET u, t # u
      PROVE  AddsUp(of(t), r, t)
    BY <1>1, <1>2
<1> DEFINE last == IF u = {} THEN 0 ELSE r[AnyOf(u)].score + of(u \ {AnyOf(u)})[u \ {AnyOf(u)}]
           f == [t \in SUBSET u |-> IF t = u THEN last ELSE of(t)[t]]
<1>3. ASSUME NEW t \in SUBSET u
      PROVE  f[t] = IF t = {} THEN 0 ELSE r[AnyOf(t)].score + f[t \ {AnyOf(t)}]
    <2>1. t # {} => t \ {AnyOf(t)} \in SUBSET u /\ t \ {AnyOf(t)} # u
        BY DEF AnyOf
    <2>2. t # {} => f[t \ {AnyOf(t)}] = of(t \ {AnyOf(t)})[t \ {AnyOf(t)}]
        BY <2>1
    <2>3. CASE t = u
        <3>1. f[t] = last
            BY <2>3
        <3> HIDE DEF f, of
        <3> QED
            BY <2>2, <2>3, <3>1
    <2>4. CASE t # u
        <3>1. f[t] = of(t)[t]
            BY <2>4
        <3>2. AddsUp(of(t), r, t)
            BY <1>2, <2>4
        <3>3. t # {} => of(t)[t \ {AnyOf(t)}] = of(t \ {AnyOf(t)})[t \ {AnyOf(t)}]
            <4> SUFFICES ASSUME t # {}
                         PROVE  of(t)[t \ {AnyOf(t)}] = of(t \ {AnyOf(t)})[t \ {AnyOf(t)}]
                OBVIOUS
            <4>1. AddsUp(of(t \ {AnyOf(t)}), r, t \ {AnyOf(t)})
                BY <1>2, <2>1
            <4> HIDE DEF of
            <4>2. /\ t \in SUBSET S /\ t \ {AnyOf(t)} \in SUBSET S
                  /\ t \ {AnyOf(t)} \in SUBSET (t \cap (t \ {AnyOf(t)}))
                OBVIOUS
            <4> QED
                BY <3>2, <4>1, <4>2, SumsAgree
        <3> HIDE DEF f, of
        <3>4. of(t)[t] = IF t = {} THEN 0 ELSE r[AnyOf(t)].score + of(t)[t \ {AnyOf(t)}]
            BY <3>2, SumStep
        <3> QED
            BY <2>2, <3>1, <3>3, <3>4
    <2> QED
        BY <2>3, <2>4
<1>4. AddsUp(f, r, u)
    <2>1. f = [t \in SUBSET u |-> f[t]]
        OBVIOUS
    <2> HIDE DEF f
    <2> QED
        BY <1>3, <2>1 DEF AddsUp
<1> QED
    BY <1>4

\* The scores that count add up to a natural number.
LEMMA SumOfScores ==
    ASSUME IsFiniteSet(Scored), \A i \in Scored : records[i].score \in Nat
    PROVE  MapThenSumSet(LAMBDA i : records[i].score, Scored) \in Nat
<1> DEFINE f == CHOOSE g : AddsUp(g, records, Scored)
<1>1. AddsUp(f, records, Scored)
    BY SumExists
<1>2. MapThenSumSet(LAMBDA i : records[i].score, Scored) = f[Scored]
    BY DEF MapThenSumSet, MapThenFoldSet, AddsUp, AnyOf
<1>3. f[Scored] \in Nat
    <2> HIDE DEF f
    <2> QED
        BY <1>1, SumIsNat
<1> QED
    BY <1>2, <1>3

\* A rounded fraction lies between nothing and all.
LEMMA RateOfPart ==
    ASSUME NEW n \in Nat \ {0}, NEW p \in 0..n
    PROVE  Rate(p, n) \in 0..Unit
<1>1. \A a \in Nat, d \in Nat \ {0} : a \div d \in Nat /\ d * (a \div d) <= a
    OBVIOUS
<1>2. \A d \in Nat \ {0}, q \in Nat : q >= Unit + 1 => d * q >= d * (Unit + 1)
    BY DEF Unit
<1> DEFINE num == 2 * p * Unit + n
           q == num \div (2 * n)
<1>3. num \in Nat /\ 2 * n \in Nat \ {0} /\ num < 2 * n * (Unit + 1)
    BY DEF Unit
<1>4. q \in Nat /\ (2 * n) * q <= num
    <2> HIDE DEF num
    <2> QED
        BY <1>1, <1>3
<1>5. q <= Unit
    <2>1. CASE q >= Unit + 1
        <3>1. (2 * n) * q >= (2 * n) * (Unit + 1)
            <4> HIDE DEF q
            <4> QED
                BY <1>2, <1>3, <1>4, <2>1
        <3>2. \A x, y, z \in Int : x <= y /\ x >= z /\ y < z => FALSE
            OBVIOUS
        <3>3. (2 * n) * q \in Int /\ (2 * n) * (Unit + 1) \in Int /\ num \in Int
            <4> HIDE DEF q, num
            <4> QED
                BY <1>3, <1>4 DEF Unit
        <3> HIDE DEF q, num
        <3> QED
            BY <1>3, <1>4, <3>1, <3>2, <3>3
    <2>2. CASE ~(q >= Unit + 1)
        <3> HIDE DEF q
        <3> QED
            BY <1>4, <2>2 DEF Unit
    <2> QED
        BY <2>1, <2>2
<1>6. Rate(p, n) = q
    BY DEF Rate
<1> HIDE DEF q
<1> QED
    BY <1>4, <1>5, <1>6 DEF Unit

\* A rounded mean of natural numbers is one.
LEMMA RateOfSum ==
    ASSUME NEW n \in Nat \ {0}, NEW p \in Nat
    PROVE  Rate(p, n) \in Nat
<1>1. \A a \in Nat, d \in Nat \ {0} : a \div d \in Nat
    OBVIOUS
<1>2. 2 * p * Unit + n \in Nat /\ 2 * n \in Nat \ {0}
    BY DEF Unit
<1> QED
    BY <1>1, <1>2 DEF Rate

\* Some of the records, counted.
LEMMA CountOfRecords ==
    ASSUME RecordsTypeOK, NEW some \in SUBSET DOMAIN records
    PROVE  /\ IsFiniteSet(some)
           /\ Cardinality(some) \in 0..Len(records)
<1>1. DOMAIN records = 1..Len(records) /\ Len(records) \in Nat
    BY DEF RecordsTypeOK
<1>2. IsFiniteSet(1..Len(records)) /\ Cardinality(1..Len(records)) = Len(records)
    BY <1>1, FS_Interval
<1>3. IsFiniteSet(some) /\ Cardinality(some) <= Len(records)
    BY <1>1, <1>2, FS_Subset
<1> QED
    BY <1>1, <1>3, FS_CardinalityType

\* What aggregate_metrics makes of the records of a whole run is a summary: no
\* rate above 1, and a mean exactly if a case did not fail.
LEMMA AggregateOf ==
    ASSUME RecordsTypeOK, Len(records) = Cases
    PROVE  Aggregate \in Summary
<1>1. Len(records) \in Nat \ {0}
    BY EvalAssumption
<1> DEFINE passed == {i \in DOMAIN records : records[i].criteria_pass}
           failed == {i \in DOMAIN records : records[i].failed}
           rated == MapThenSumSet(LAMBDA i : records[i].score, Scored)
           mean == IF Scored = {} THEN NoMean ELSE Rate(rated, Cardinality(Scored))
<1>2. Rate(Cardinality(passed), Len(records)) \in 0..Unit
    <2>1. Cardinality(passed) \in 0..Len(records)
        BY CountOfRecords
    <2> HIDE DEF passed
    <2> QED
        BY <1>1, <2>1, RateOfPart
<1>3. Rate(Cardinality(failed), Len(records)) \in 0..Unit
    <2>1. Cardinality(failed) \in 0..Len(records)
        BY CountOfRecords
    <2> HIDE DEF failed
    <2> QED
        BY <1>1, <2>1, RateOfPart
<1>4. mean \in Nat \cup {NoMean}
    <2> SUFFICES ASSUME Scored # {} PROVE mean \in Nat
        BY DEF NoMean
    <2>1. Scored \in SUBSET DOMAIN records
        BY DEF Scored
    <2>2. IsFiniteSet(Scored) /\ Cardinality(Scored) \in Nat \ {0}
        BY <1>1, <2>1, CountOfRecords, FS_EmptySet
    <2>3. \A i \in Scored : records[i].score \in Nat
        <3>1. \A i \in DOMAIN records : records[i] \in Record
            BY DEF RecordsTypeOK
        <3>2. \A e \in Record : e.score \in Scores \cup {NoScore}
            BY DEF Record
        <3> QED
            BY <3>1, <3>2, GraphAssumption DEF Scored
    <2>4. rated \in Nat
        BY <2>2, <2>3, SumOfScores
    <2> HIDE DEF rated
    <2> QED
        BY <2>2, <2>4, RateOfSum
<1>5. Aggregate = [mode |-> mode,
                   pass_rate |-> Rate(Cardinality(passed), Len(records)),
                   failure_rate |-> Rate(Cardinality(failed), Len(records)),
                   average_quality |-> mean]
    BY DEF Aggregate, Count
<1>6. mode \in Mode
    BY DEF RecordsTypeOK
<1> HIDE DEF passed, failed, mean
<1> QED
    BY <1>2, <1>3, <1>4, <1>5, <1>6 DEF Summary

\* A step of an evaluation leaves artifacts with every part, and no verdict on
\* artifacts that have changed since.
LEMMA GateStep == GateIInv /\ [EvalNext]_evalVars => GateIInv'
<1> SUFFICES ASSUME GateIInv, [EvalNext]_evalVars PROVE GateIInv'
    OBVIOUS
<1>1. EvalIInv'
    BY EvalStep DEF GateIInv
<1>2. ArtifactsTypeOK /\ VerdictIsCurrent /\ RecordsTypeOK
    BY DEF GateIInv, EvalIInv, CasesAreCounted
<1>3. ASSUME UNCHANGED <<baseline, candidate, verdict>>
      PROVE  ArtifactsTypeOK' /\ VerdictIsCurrent'
    BY <1>2, <1>3 DEF ArtifactsTypeOK, VerdictIsCurrent, GatePasses, PassesLess,
       QualityRegressed, FailsTooOften
<1>4. ASSUME verdict' = "none", {baseline', candidate'} \subseteq Summary \cup {Missing}
      PROVE  ArtifactsTypeOK' /\ VerdictIsCurrent'
    BY <1>4 DEF ArtifactsTypeOK, VerdictIsCurrent
<1>5. CASE RunNode \/ FinishCase \/ CaseRaises
    BY <1>1, <1>3, <1>5 DEF RunNode, FinishCase, CaseRaises, eval, GateIInv
<1>6. CASE StartRun
    BY <1>1, <1>2, <1>4, <1>6 DEF StartRun, ArtifactsTypeOK, GateIInv
<1>7. CASE WriteArtifact
    <2>1. Aggregate \in Summary
        BY <1>2, <1>7, AggregateOf DEF WriteArtifact
    <2>2. verdict' = "none" /\ candidate' = Aggregate /\ baseline' = baseline
        BY <1>7 DEF WriteArtifact
    <2>3. {baseline', candidate'} \subseteq Summary \cup {Missing}
        BY <1>2, <2>1, <2>2 DEF ArtifactsTypeOK
    <2> QED
        BY <1>1, <1>4, <2>2, <2>3 DEF GateIInv
<1>8. CASE SaveBaseline
    BY <1>1, <1>2, <1>4, <1>8 DEF SaveBaseline, ArtifactsTypeOK, GateIInv
<1>9. CASE Gate
    <2>1. /\ verdict' = IF GatePasses(baseline, candidate) THEN "passed" ELSE "failed"
          /\ UNCHANGED <<baseline, candidate>>
        BY <1>9 DEF Gate
    <2>2. ArtifactsTypeOK'
        BY <1>2, <2>1 DEF ArtifactsTypeOK
    <2>3. VerdictIsCurrent'
        BY <2>1 DEF VerdictIsCurrent, GatePasses, PassesLess, QualityRegressed, FailsTooOften
    <2> QED
        BY <1>1, <2>2, <2>3 DEF GateIInv
<1>10. CASE UNCHANGED evalVars
    BY <1>1, <1>3, <1>10 DEF evalVars, eval, GateIInv
<1> QED
    BY <1>5, <1>6, <1>7, <1>8, <1>9, <1>10 DEF EvalNext

\* The metrics of two artifacts that can be compared.
LEMMA MetricsOf ==
    ASSUME ArtifactsTypeOK, NEW s \in {baseline, candidate}, s # Missing
    PROVE  /\ s.pass_rate \in Int /\ s.failure_rate \in Int
           /\ s.average_quality \in Nat \cup {NoMean}
<1>1. s \in Summary
    BY DEF ArtifactsTypeOK
<1>2. /\ s.pass_rate \in 0..Unit /\ s.failure_rate \in 0..Unit
      /\ s.average_quality \in Nat \cup {NoMean}
    BY <1>1 DEF Summary
<1>3. \A x : x \in 0..Unit => x \in Int
    BY DEF Unit
<1> QED
    BY <1>2, <1>3

\* Whatever the dataset and the records: a candidate that passes the gate has
\* the metrics to be compared, few failures, and no more than allowed over the
\* baseline's; and one that fails it is worse than the baseline in a metric, or
\* fails too often, or there is nothing to compare.
THEOREM GateErrsToNeitherSide == GateAssumption => (EvalSpec => []GateIsFair)
<1> SUFFICES ASSUME GateAssumption PROVE EvalSpec => []GateIsFair
    OBVIOUS
<1>1. EvalInit => GateIInv
    <2> SUFFICES ASSUME EvalInit PROVE ArtifactsTypeOK /\ VerdictIsCurrent
        BY EvalInitIInv DEF GateIInv
    <2> QED
        BY DEF EvalInit, NoRuns, ArtifactsTypeOK, VerdictIsCurrent
<1>2. GateIInv => GateIsFair
    <2> SUFFICES ASSUME GateIInv PROVE GateIsFair
        OBVIOUS
    <2>1. ArtifactsTypeOK /\ VerdictIsCurrent
        BY DEF GateIInv
    <2>2. {MinPassDelta, MinQualityDelta, MaxFailure, MaxFailureDelta} \subseteq Int
        BY EvalAssumption
    <2>3. PassedIsHarmless
        <3> SUFFICES ASSUME verdict = "passed", GatePasses(baseline, candidate)
                     PROVE  PassedIsHarmless
            BY <2>1 DEF VerdictIsCurrent, PassedIsHarmless
        <3>1. baseline # Missing /\ candidate # Missing /\ baseline.mode = candidate.mode
            BY DEF GatePasses
        <3>2. /\ NoMean \notin {baseline.average_quality, candidate.average_quality}
              /\ ~FailsTooOften(baseline, candidate)
            BY DEF GatePasses, QualityRegressed
        <3>3. /\ candidate.failure_rate <= MaxFailure
              /\ candidate.failure_rate <= baseline.failure_rate + MaxFailureDelta
            BY <2>1, <2>2, <3>1, <3>2, MetricsOf DEF FailsTooOften
        <3> QED
            BY <3>1, <3>2, <3>3 DEF PassedIsHarmless
    <2>4. BetterPasses
        <3> SUFFICES ASSUME verdict = "failed", ~GatePasses(baseline, candidate),
                            baseline # Missing, candidate # Missing,
                            baseline.mode = candidate.mode,
                            NoMean \notin {candidate.average_quality, baseline.average_quality}
                     PROVE  BetterPasses
            BY <2>1 DEF VerdictIsCurrent, BetterPasses
        <3>1. PassesLess(baseline, candidate) => candidate.pass_rate < baseline.pass_rate
            BY <2>1, <2>2, MetricsOf DEF PassesLess, GateAssumption
        <3>2. QualityRegressed(baseline, candidate) =>
                  candidate.average_quality < baseline.average_quality
            BY <2>1, <2>2, MetricsOf DEF QualityRegressed, GateAssumption
        <3>3. FailsTooOften(baseline, candidate) =>
                  \/ candidate.failure_rate > MaxFailure
                  \/ candidate.failure_rate > baseline.failure_rate
            BY <2>1, <2>2, MetricsOf DEF FailsTooOften, GateAssumption
        <3> QED
            BY <3>1, <3>2, <3>3 DEF GatePasses, BetterPasses
    <2> QED
        BY <2>1, <2>3, <2>4 DEF GateIsFair
<1> QED
    BY <1>1, <1>2, GateStep, PTL DEF EvalSpec

-----------------------------------------------------------------------------
(***************************************************************************)
(* Offline runs: the rubric on the drafts of the offline writer.           *)
(***************************************************************************)

\* What demo_script writes.
LEMMA DemoShape ==
    ASSUME OfflineAssumption, OfflineTypeOK, NEW s, Authored(s)
    PROVE  /\ s \in ShortScript
           /\ s.revised => s.hook >= 38 /\ s.body >= 112 /\ s.cta = 53
           /\ s.duration = 45 /\ s.labels = Labels /\ s.seconds = 40
<1>1. PICK length \in Nat, notes \in Nat, inspired \in BOOLEAN, guided \in BOOLEAN,
           revised \in BOOLEAN : s = DemoScript(length, notes, inspired, guided, revised)
    BY DEF OfflineTypeOK, OfflineAssumption, Authored
<1>2. ASSUME NEW limit \in Nat, NEW n \in Nat PROVE UpTo(n, limit) \in Nat
    BY <1>2 DEF UpTo
<1>3. PICK hook \in Nat :
        /\ hook = CASE revised -> 38 + UpTo(length, 28)
                    [] guided /\ ~revised -> 21 + UpTo(length, 28)
                    [] OTHER -> 23 + UpTo(length, 40)
        /\ revised => hook >= 38
    <2> DEFINE h == CASE revised -> 38 + UpTo(length, 28)
                      [] guided /\ ~revised -> 21 + UpTo(length, 28)
                      [] OTHER -> 23 + UpTo(length, 40)
    <2>1. UpTo(length, 28) \in Nat /\ UpTo(length, 40) \in Nat
        BY <1>2
    <2>2. h \in Nat /\ (revised => h >= 38)
        BY <2>1
    <2> HIDE DEF h
    <2>3. \E hook \in Nat : hook = h /\ (revised => hook >= 38)
        BY <2>2
    <2> QED
        BY <2>3 DEF h
<1>4. PICK body \in Nat :
        /\ body = (IF notes = 0 THEN 29 ELSE 30) + length + UpTo(notes, 120)
                    + (IF inspired THEN 48 ELSE 0) + (IF guided THEN 69 ELSE 0)
                    + (IF revised THEN 83 ELSE 0)
        /\ revised => body >= 112
    <2>1. UpTo(notes, 120) \in Nat
        BY <1>2
    <2> QED
        BY <2>1
<1>5. PICK cta \in {53, 42, 36} :
        /\ cta = CASE revised -> 53 [] guided /\ ~revised -> 42 [] OTHER -> 36
        /\ revised => cta = 53
    OBVIOUS
<1>6. s = [hook |-> hook, body |-> body, cta |-> cta, duration |-> 45, labels |-> Labels,
           seconds |-> 40, revised |-> revised, guided |-> guided]
    BY <1>1, <1>3, <1>4, <1>5, Zenon DEF DemoScript
<1> QED
    BY <1>3, <1>4, <1>5, <1>6 DEF ShortScript

\* The rubric is a mean of scores of 40 to 90.
LEMMA OverallOf ==
    ASSUME NEW s \in ShortScript, NEW notes \in Nat
    PROVE  /\ Overall(s, notes) \in Nat
           /\ s.hook >= 24 /\ s.body >= 80 /\ s.cta >= 24 /\ s.duration = 45
                => /\ Overall(s, notes) >= 70
                   /\ HookScore(s) = 90 /\ CtaScore(s) = 90
<1>1. ASSUME NEW n \in Nat, NEW good \in Nat, NEW fair \in Nat
      PROVE  Graded(n, good, fair) \in {40, 70, 90} /\ (n >= good => Graded(n, good, fair) = 90)
    BY DEF Graded
<1>2. /\ HookScore(s) \in {40, 70, 90} /\ (s.hook >= 24 => HookScore(s) = 90)
      /\ CtaScore(s) \in {40, 70, 90} /\ (s.cta >= 24 => CtaScore(s) = 90)
      /\ Graded(s.body, 80, 40) \in {40, 70, 90}
      /\ s.body >= 80 => Graded(s.body, 80, 40) = 90
    BY <1>1 DEF HookScore, CtaScore, ShortScript
<1>3. DurationScore(s) \in {60, 90} /\ (s.duration = 45 => DurationScore(s) = 90)
    BY DEF DurationScore
<1>4. PICK h \in {40, 70, 90}, b \in {40, 70, 90}, c \in {40, 70, 90}, d \in {60, 90},
           t \in {75, 85} :
        /\ h = HookScore(s) /\ b = Graded(s.body, 80, 40) /\ c = CtaScore(s)
        /\ d = DurationScore(s) /\ t = IF notes > 0 THEN 85 ELSE 75
    BY <1>2, <1>3
<1>5. Overall(s, notes) = (2 * (h + b + 80 + 80 + 75 + t + d + c + 85) + 9) \div 18
    BY <1>4 DEF Overall
<1> QED
    BY <1>2, <1>3, <1>4, <1>5

\* A draft that reaches every limit fails no check.
LEMMA SoundDraft ==
    ASSUME NEW s, s.hook \in Nat, s.cta \in Nat, s.body \in Nat, s.seconds \in Nat,
           s.hook >= 12, s.cta >= 12, s.body >= 40, s.labels = Labels, s.seconds <= 60
    PROVE  DeterministicChecks(s) = {}
<1> DEFINE Fails(c) ==
        CASE c = "hook" -> s.hook < 12
          [] c = "cta" -> s.cta < 12
          [] c = "body" -> s.body < 40
          [] c = "labels" -> s.labels # Labels
          [] c = "seconds" -> s.seconds > 60
<1>1. /\ Fails("hook") <=> s.hook < 12
      /\ Fails("cta") <=> s.cta < 12
      /\ Fails("body") <=> s.body < 40
      /\ Fails("labels") <=> s.labels # Labels
      /\ Fails("seconds") <=> s.seconds > 60
    BY Zenon
<1>2. DeterministicChecks(s) = {c \in {"hook", "cta", "body", "labels", "seconds"} : Fails(c)}
    BY Zenon DEF DeterministicChecks
<1> HIDE DEF Fails
<1>3. ~Fails("hook") /\ ~Fails("cta") /\ ~Fails("body") /\ ~Fails("labels")
      /\ ~Fails("seconds")
    BY <1>1
<1> QED
    BY <1>2, <1>3, Zenon

\* What the checks leave of a verdict.
LEMMA MergeOf ==
    ASSUME NEW overall, NEW duration, NEW refused \in BOOLEAN, NEW approved \in BOOLEAN,
           NEW failed
    PROVE  LET e == [overall |-> overall, duration |-> duration, issues |-> refused,
                     approved |-> approved]
           IN  /\ MergeEvaluation(e, failed).overall = overall
               /\ MergeEvaluation(e, failed).approved = (approved /\ failed = {})
               /\ MergeEvaluation(e, failed).issues = (refused \/ failed # {})
<1> DEFINE e == [overall |-> overall, duration |-> duration, issues |-> refused,
                 approved |-> approved]
<1>1. PICK a \in BOOLEAN : a = (approved /\ failed = {})
    OBVIOUS
<1>2. PICK i \in BOOLEAN : i = (refused \/ failed # {})
    OBVIOUS
<1>3. e.issues = refused /\ e.approved = approved
    OBVIOUS
<1>4. MergeEvaluation(e, failed) = [e EXCEPT !.issues = i, !.approved = a]
    BY <1>1, <1>2, <1>3, Zenon DEF MergeEvaluation
<1> DEFINE f == [e EXCEPT !.issues = i]
<1>5. f = [overall |-> overall, duration |-> duration, issues |-> i, approved |-> approved]
    OBVIOUS
<1> HIDE DEF f
<1>6. [f EXCEPT !.approved = a]
        = [overall |-> overall, duration |-> duration, issues |-> i, approved |-> a]
    BY <1>5
<1>7. MergeEvaluation(e, failed)
        = [overall |-> overall, duration |-> duration, issues |-> i, approved |-> a]
    BY <1>4, <1>6, Zenon DEF f
<1> QED
    BY <1>1, <1>2, <1>7

\* What judge_script says of a draft of this run.
LEMMA JudgeOf ==
    ASSUME OfflineAssumption, OfflineTypeOK, NEW s, Authored(s)
    PROVE  /\ s \in ShortScript
           /\ JudgeScript(s).overall \in Nat
           /\ JudgeScript(s).approved \in BOOLEAN
           /\ JudgeScript(s).issues = ~JudgeScript(s).approved
           /\ JudgeScript(s).approved => DeterministicChecks(s) = {}
           /\ request.marker = "none" => /\ s.revised => JudgeScript(s).approved
                                         /\ JudgeScript(s).approved => JudgeScript(s).overall >= 70
           /\ request.marker = "retry_pass" /\ JudgeScript(s).approved => s.revised
           /\ request.marker = "reject" =>
                 ~JudgeScript(s).approved /\ JudgeScript(s).overall = 35
<1>1. PICK revised \in BOOLEAN : revised = s.revised
    BY DemoShape DEF ShortScript
<1>2. request.marker \in Marker /\ research \in Nat
    BY DEF OfflineTypeOK, OfflineAssumption
<1>3. /\ s \in ShortScript
      /\ revised => s.hook >= 38 /\ s.body >= 112 /\ s.cta = 53
      /\ s.duration = 45 /\ s.labels = Labels /\ s.seconds = 40
    BY <1>1, DemoShape
<1>4. s.hook \in Nat /\ s.body \in Nat /\ s.cta \in Nat
    BY <1>3 DEF ShortScript
<1>5. revised => DeterministicChecks(s) = {}
    BY <1>3, <1>4, SoundDraft
<1>6. Overall(s, research) \in Nat
      /\ (revised => Overall(s, research) >= 70 /\ HookScore(s) = 90 /\ CtaScore(s) = 90)
    BY <1>2, <1>3, <1>4, OverallOf
<1> DEFINE e == SyntheticJudge(s, request.marker, research)
<1>7. PICK overall \in Nat, duration \in Nat, approved \in BOOLEAN :
        /\ e = [overall |-> overall, duration |-> duration, issues |-> ~approved,
                approved |-> approved]
        /\ request.marker = "none" => /\ revised => approved
                                      /\ approved => overall >= 70
        /\ request.marker = "retry_pass" /\ approved => revised
        /\ request.marker = "reject" => ~approved /\ overall = 35
    <2>1. CASE request.marker = "reject"
        BY <2>1 DEF SyntheticJudge, Verdict
    <2>2. CASE request.marker = "retry_pass" /\ revised
        BY <2>2, <1>1, ZenonT(40) DEF SyntheticJudge, Verdict
    <2>3. CASE request.marker = "retry_pass" /\ ~revised
        BY <2>3, <1>1 DEF SyntheticJudge, Verdict
    <2>4. CASE request.marker = "none"
        <3> DEFINE a == Overall(s, research) >= 70 /\ HookScore(s) >= 60 /\ CtaScore(s) >= 60
        <3>1. PICK approved \in BOOLEAN : approved = a
            OBVIOUS
        <3>2. DurationScore(s) \in Nat
            BY DEF DurationScore
        <3>3. e = [overall |-> Overall(s, research), duration |-> DurationScore(s),
                   issues |-> ~approved, approved |-> approved]
            BY <2>4, <3>1, Zenon DEF SyntheticJudge, Verdict
        <3>4. (revised => approved) /\ (approved => Overall(s, research) >= 70)
            BY <1>3, <1>6, <3>1
        <3> HIDE DEF e
        <3> QED
            BY <1>6, <2>4, <3>2, <3>3, <3>4
    <2> QED
        BY <1>2, <2>1, <2>2, <2>3, <2>4 DEF Marker
<1> DEFINE sound == DeterministicChecks(s) = {}
<1>8. PICK fine \in BOOLEAN : fine = sound
    OBVIOUS
<1>9. JudgeScript(s) = MergeEvaluation(e, DeterministicChecks(s))
    BY DEF JudgeScript
<1> HIDE DEF e
<1>10. /\ JudgeScript(s).overall = overall
      /\ JudgeScript(s).approved = (approved /\ fine)
      /\ JudgeScript(s).issues = (~approved \/ ~fine)
    <2>1. PICK refused \in BOOLEAN : refused = ~approved
        OBVIOUS
    <2>2. e = [overall |-> overall, duration |-> duration, issues |-> refused,
               approved |-> approved]
        BY <1>7, <2>1, Zenon
    <2>3. /\ JudgeScript(s).overall = overall
          /\ JudgeScript(s).approved = (approved /\ DeterministicChecks(s) = {})
          /\ JudgeScript(s).issues = (refused \/ DeterministicChecks(s) # {})
        BY <1>9, <2>2, MergeOf
    <2> QED
        BY <1>8, <2>1, <2>3
<1> QED
    BY <1>1, <1>3, <1>5, <1>7, <1>8, <1>10

\* The writer and the judge are those of the graph.
LEMMA OfflineIsGraphStep == [OfflineNext]_<<vars, offline>> => [Next]_vars
BY DEF OfflineNext, Write, Judge, Review, Answer, Elsewhere, Next, Step, vars

\* A step that neither writes nor judges leaves drafts and judgments alone.
LEMMA SameDrafts ==
    ASSUME ScriptsInv, JudgmentsInv,
           UNCHANGED <<inputs, scripts, script_version, evaluation, issues, judged>>
    PROVE  ScriptsInv' /\ JudgmentsInv'
BY DEF ScriptsInv, JudgmentsInv, Authored, OfRubric, JudgeScript, inputs

\* What the rubric's judgments of this run's drafts have in common.
LEMMA RubricOf ==
    ASSUME OfflineAssumption, OfflineIInv, NEW e, OfRubric(e)
    PROVE  /\ e.script \in Nat /\ e.script >= 1 /\ e.script <= script_version
           /\ e.approved => DeterministicChecks(scripts[e.script]) = {}
           /\ request.marker = "none" => /\ scripts[e.script].revised => e.approved
                                         /\ e.approved => e.score >= Threshold
           /\ request.marker = "retry_pass" /\ e.approved => scripts[e.script].revised
           /\ request.marker = "reject" => ~e.approved /\ e.score = 35
<1>1. e.script \in DOMAIN scripts /\ Authored(scripts[e.script])
    BY DEF OfRubric, OfflineIInv, ScriptsInv
<1>2. e.script \in Nat /\ e.script >= 1 /\ e.script <= script_version
    BY <1>1 DEF OfflineIInv, OfflineTypeOK, ScriptsInv
<1>3. e.score = JudgeScript(scripts[e.script]).overall
      /\ e.approved = JudgeScript(scripts[e.script]).approved
    BY DEF OfRubric
<1>4. Threshold <= 70 /\ Threshold \in Nat
    BY GraphAssumption DEF OfflineAssumption
<1>5. OfflineTypeOK
    BY DEF OfflineIInv
<1> DEFINE s == scripts[e.script]
<1>6. /\ JudgeScript(s).overall \in Nat
      /\ JudgeScript(s).approved => DeterministicChecks(s) = {}
      /\ request.marker = "none" => /\ s.revised => JudgeScript(s).approved
                                    /\ JudgeScript(s).approved => JudgeScript(s).overall >= 70
      /\ request.marker = "retry_pass" /\ JudgeScript(s).approved => s.revised
      /\ request.marker = "reject" =>
            ~JudgeScript(s).approved /\ JudgeScript(s).overall = 35
    BY <1>1, <1>5, JudgeOf
<1> QED
    BY <1>2, <1>3, <1>4, <1>6

\* The next draft: it is this run's, and new unless the writer fails.
LEMMA DraftOf ==
    ASSUME OfflineAssumption, OfflineTypeOK
    PROVE  Authored(Draft) /\ Draft \in ShortScript /\ Draft.revised = issues
<1>1. issues \in BOOLEAN /\ human_feedback \in BOOLEAN
    BY DEF OfflineTypeOK
<1>2. Authored(Draft)
    BY <1>1 DEF Authored, Draft
<1>3. Draft.revised = issues
    BY Zenon DEF Draft, DemoScript
<1> QED
    BY <1>2, <1>3, DemoShape

\* The writer: the draft answers the issues of the last judgment.
LEMMA WriteKeeps ==
    ASSUME OfflineAssumption, OfflineIInv, Write
    PROVE  /\ ScriptsInv' /\ JudgmentsInv' /\ GateInv' /\ RevisionsInv' /\ FirstIsBest'
<1>1. /\ next = "scriptwriter" /\ next' = "evaluator" /\ status # "FAILED"
      /\ status \in {"RESEARCHING", "SCRIPTING"}
      /\ UNCHANGED <<inputs, issues, evaluation, judged, best_script, best_score, iteration,
                     human_revision_count>>
    BY DEF Write, Scriptwriter, Enter, Edge, best, review, OfflineIInv, IInv, ControlInv, StatusAt
<1>2. script_version \in Nat /\ scripts \in Seq(ShortScript) /\ Len(scripts) = script_version
    BY DEF OfflineIInv, IInv, TypeOK, OfflineTypeOK, ScriptsInv
<1>3. CASE status' = "FAILED"
    <2>1. UNCHANGED <<scripts, script_version>>
        BY <1>2, <1>3 DEF Write, Scriptwriter, Succeeded
    <2>2. ScriptsInv' /\ JudgmentsInv'
        BY <1>1, <2>1, SameDrafts DEF OfflineIInv
    <2>3. GateInv' /\ FirstIsBest'
        BY <1>1, <1>3 DEF GateInv, FirstIsBest, OfflineIInv, inputs
    <2>4. RevisionsInv'
        BY <1>1, <2>1 DEF RevisionsInv, OfflineIInv, inputs
    <2> QED
        BY <2>2, <2>3, <2>4
<1>4. CASE status' # "FAILED"
    <2>1. /\ script_version' = script_version + 1 /\ status' = "SCRIPTING"
          /\ scripts' = Append(scripts, Draft)
        BY <1>2, <1>4 DEF Write, Scriptwriter, Failed, Succeeded
    <2>2. Authored(Draft) /\ Draft \in ShortScript /\ Draft.revised = issues
        BY DraftOf DEF OfflineIInv
    <2>3. /\ Len(scripts') = script_version + 1
          /\ \A i \in 1..script_version : scripts'[i] = scripts[i]
          /\ scripts'[script_version + 1] = Draft
          /\ DOMAIN scripts = 1..script_version
          /\ DOMAIN scripts' = 1..(script_version + 1)
        BY <1>2, <2>1, <2>2
    <2>4. ScriptsInv'
        <3>1. \A i \in DOMAIN scripts' : Authored(scripts'[i])
            BY <1>2, <2>2, <2>3 DEF OfflineIInv, ScriptsInv
        <3> QED
            BY <1>1, <2>1, <2>3, <3>1 DEF ScriptsInv, Authored, inputs
    <2>5. ASSUME NEW e, OfRubric(e) PROVE OfRubric(e)'
        BY <1>1, <1>2, <2>3, <2>5 DEF OfRubric, JudgeScript, inputs
    <2>6. JudgmentsInv'
        BY <1>1, <2>5 DEF JudgmentsInv, OfflineIInv
    <2>7. evaluation # NoEvaluation => evaluation \in judged
        BY <1>1 DEF GateInv, OfflineIInv
    <2>8. GateInv'
        BY <1>1, <2>1, <2>7 DEF GateInv, OfflineIInv
    <2>9. issues => \E e \in judged : e.script < script_version + 1 /\ ~e.approved
        <3>1. issues => evaluation # NoEvaluation /\ ~evaluation.approved /\ OfRubric(evaluation)
            BY DEF JudgmentsInv, OfflineIInv
        <3> QED
            BY <1>2, <2>7, <3>1, RubricOf
    <2>10. request.marker = "none" /\ human_revision_count = 0 /\ script_version # 0 => issues
        <3> SUFFICES ASSUME request.marker = "none", human_revision_count = 0, script_version # 0
                     PROVE  issues
            OBVIOUS
        <3>1. evaluation # NoEvaluation /\ ~Passes(evaluation)
            BY <1>1 DEF GateInv, RevisionsInv, OfflineIInv
        <3>2. OfRubric(evaluation)
            BY <3>1 DEF JudgmentsInv, OfflineIInv
        <3>3. ~evaluation.approved
            BY <3>1, <3>2, RubricOf DEF Passes
        <3> QED
            BY <3>1, <3>3 DEF JudgmentsInv, OfflineIInv
    <2>11. RevisionsInv'
        <3>1. ASSUME NEW i \in DOMAIN scripts', scripts'[i].revised
              PROVE  \E e \in judged : e.script < i /\ ~e.approved
            <4>1. CASE i = script_version + 1
                BY <2>2, <2>3, <2>9, <3>1, <4>1
            <4>2. CASE i # script_version + 1
                BY <1>2, <2>3, <3>1, <4>2 DEF RevisionsInv, OfflineIInv
            <4> QED
                BY <4>1, <4>2
        <3>2. ASSUME request.marker = "none", human_revision_count = 0,
                     NEW i \in DOMAIN scripts', i > 1
              PROVE  scripts'[i].revised
            <4>1. CASE i = script_version + 1
                BY <1>2, <2>2, <2>3, <2>10, <3>2, <4>1
            <4>2. CASE i # script_version + 1
                BY <1>2, <2>3, <3>2, <4>2 DEF RevisionsInv, OfflineIInv
            <4> QED
                BY <4>1, <4>2
        <3> QED
            BY <1>1, <3>1, <3>2 DEF RevisionsInv, inputs
    <2>12. FirstIsBest'
        BY <1>1, <2>1 DEF FirstIsBest, OfflineIInv, inputs
    <2> QED
        BY <2>4, <2>6, <2>8, <2>11, <2>12
<1> QED
    BY <1>3, <1>4

\* The judge: one more judgment by the rubric, with issues if it refuses.
LEMMA JudgeKeeps ==
    ASSUME OfflineAssumption, OfflineIInv, Judge
    PROVE  /\ ScriptsInv' /\ JudgmentsInv' /\ GateInv' /\ RevisionsInv' /\ FirstIsBest'
<1>1. /\ next = "evaluator" /\ next' = "quality_gate" /\ status # "FAILED"
      /\ UNCHANGED <<inputs, scripts, script_version, judged, best_script, best_score, iteration,
                     human_revision_count>>
    BY DEF Judge, Evaluator, Enter, Edge, best, review
<1>2. ScriptsInv'
    BY <1>1 DEF ScriptsInv, Authored, inputs, OfflineIInv
<1>3. ASSUME NEW e, OfRubric(e) PROVE OfRubric(e)'
    BY <1>1, <1>3 DEF OfRubric, JudgeScript, inputs
<1>4. RevisionsInv'
    BY <1>1 DEF RevisionsInv, OfflineIInv, inputs
<1>5. CASE status' = "FAILED"
    <2>1. /\ evaluation' \in {NoEvaluation, evaluation}
          /\ issues' = (issues /\ evaluation' = evaluation)
        BY <1>5 DEF Judge, Evaluator, Succeeded
    <2>2. issues = (evaluation # NoEvaluation /\ ~evaluation.approved)
          /\ (evaluation # NoEvaluation => OfRubric(evaluation))
        BY DEF JudgmentsInv, OfflineIInv
    <2>3. issues' = (evaluation' # NoEvaluation /\ ~evaluation'.approved)
          /\ (evaluation' # NoEvaluation => OfRubric(evaluation)' /\ evaluation' = evaluation)
        BY <1>3, <2>1, <2>2
    <2>4. JudgmentsInv'
        BY <1>1, <1>3, <2>3 DEF JudgmentsInv, OfflineIInv
    <2>5. GateInv' /\ FirstIsBest'
        BY <1>1, <1>5 DEF GateInv, FirstIsBest, OfflineIInv, inputs
    <2> QED
        BY <1>2, <1>4, <2>4, <2>5
<1>6. CASE status' # "FAILED"
    <2> DEFINE j == JudgeScript(scripts[generated_script])
    <2>1. /\ generated_script # NoScript /\ status' = "EVALUATING"
          /\ evaluation'.score = j.overall /\ evaluation'.approved = j.approved
          /\ issues' = j.issues
          /\ evaluation'.script = generated_script
        BY <1>6 DEF Judge, Evaluator, Failed, Succeeded
    <2>2. generated_script = script_version /\ script_version \in Nat
        BY <1>1 DEF OfflineIInv, IInv, TypeOK, DraftInv, Written
    <2>3. generated_script \in DOMAIN scripts
        BY <2>1, <2>2 DEF OfflineIInv, OfflineTypeOK, ScriptsInv, NoScript
    <2>4. j.issues = ~j.approved
        BY <2>3, JudgeOf DEF OfflineIInv, ScriptsInv
    <2>5. evaluation'.script # NoEvaluation.script
        BY <2>1 DEF NoEvaluation
    <2>6. OfRubric(evaluation)'
        BY <1>1, <2>1, <2>3 DEF OfRubric, JudgeScript, inputs
    <2>7. JudgmentsInv'
        BY <1>1, <1>3, <2>1, <2>4, <2>5, <2>6 DEF JudgmentsInv, OfflineIInv
    <2>8. GateInv' /\ FirstIsBest'
        BY <1>1, <2>1 DEF GateInv, FirstIsBest, OfflineIInv, inputs
    <2> QED
        BY <1>2, <1>4, <2>7, <2>8
<1> QED
    BY <1>5, <1>6

\* The gate: with [reject] the first draft is the best and stays it.
LEMMA QualityGateKeeps ==
    ASSUME OfflineAssumption, OfflineIInv, QualityGate, UNCHANGED offline
    PROVE  /\ ScriptsInv' /\ JudgmentsInv' /\ GateInv' /\ RevisionsInv' /\ FirstIsBest'
<1>1. /\ next = "quality_gate" /\ status # "FAILED" /\ status = "EVALUATING"
      /\ UNCHANGED <<inputs, scripts, issues, human_feedback, script_version, evaluation,
                     human_revision_count>>
    BY DEF QualityGate, Enter, review, offline, texts, OfflineIInv, IInv, ControlInv, StatusAt
<1>2. ScriptsInv'
    BY <1>1 DEF ScriptsInv, Authored, inputs, OfflineIInv
<1>3. ASSUME NEW e, OfRubric(e) PROVE OfRubric(e)'
    BY <1>1, <1>3 DEF OfRubric, JudgeScript, inputs
<1>4. CASE generated_script = NoScript \/ evaluation = NoEvaluation
    <2>1. status' = "FAILED" /\ next' = "END" /\ UNCHANGED <<generated_script, best>>
        BY <1>4 DEF QualityGate, Failed, Follow, RouteAfterGate, END
    <2>2. JudgmentsInv'
        BY <1>1, <2>1, SameDrafts DEF OfflineIInv, best
    <2>3. GateInv' /\ RevisionsInv' /\ FirstIsBest'
        BY <1>1, <2>1 DEF GateInv, RevisionsInv, FirstIsBest, OfflineIInv, inputs, best
    <2> QED
        BY <1>2, <2>2, <2>3
<1>5. CASE ~(generated_script = NoScript \/ evaluation = NoEvaluation)
    <2>1. ApplyQualityGate /\ evaluation # NoEvaluation /\ generated_script # NoScript
          /\ next' = Follow("quality_gate", status')
        BY <1>5 DEF QualityGate
    <2>2. /\ judged' = judged \cup {evaluation} /\ iteration' = iteration + 1
          /\ status' \in {"PASSED", "SCRIPTING", "EXHAUSTED"}
          /\ status' # "PASSED" => ~Passes(evaluation)
          /\ status' = "EXHAUSTED" => generated_script' = ExhaustedScript(best_script')
        BY <2>1 DEF ApplyQualityGate, Succeeded
    <2>3. OfRubric(evaluation)
        BY <2>1 DEF JudgmentsInv, OfflineIInv
    <2>4. /\ evaluation.script = generated_script /\ generated_script = script_version
          /\ script_version = iteration + 1 /\ iteration \in Nat
        BY <1>1 DEF OfflineIInv, IInv, TypeOK, DraftInv, CountInv, Written
    <2>5. JudgmentsInv'
        BY <1>1, <1>3, <2>2, <2>3 DEF JudgmentsInv, OfflineIInv
    <2>6. GateInv'
        BY <1>1, <2>1, <2>2, <2>4 DEF GateInv, Passes
    <2>7. RevisionsInv'
        <3>1. \A i \in DOMAIN scripts : scripts[i].revised =>
                \E e \in judged' : e.script < i /\ ~e.approved
            BY <2>2 DEF RevisionsInv, OfflineIInv
        <3>2. status' = "SCRIPTING" => evaluation # NoEvaluation /\ ~Passes(evaluation)
            BY <2>1, <2>2
        <3>3. request.marker = "none" /\ human_revision_count = 0 =>
                \A i \in DOMAIN scripts : i > 1 => scripts[i].revised
            BY DEF RevisionsInv, OfflineIInv
        <3> QED
            BY <1>1, <3>1, <3>2, <3>3 DEF RevisionsInv, Passes, inputs
    <2>8. request.marker = "reject" => best_script' = 1 /\ best_score' = 35
        <3> SUFFICES ASSUME request.marker = "reject" PROVE best_script' = 1 /\ best_score' = 35
            OBVIOUS
        <3>1. evaluation.score = 35
            BY <2>3, RubricOf
        <3>2. CASE judged = {}
            <4>1. iteration = 0 /\ best_score = NoScore
                BY <3>2 DEF GateInv, OfflineIInv, IInv, BestSoFar
            <4> QED
                BY <2>1, <2>4, <3>1, <4>1 DEF ApplyQualityGate, Improves
        <3>3. CASE judged # {}
            <4>1. best_script = 1 /\ best_score = 35
                BY <3>3 DEF FirstIsBest, OfflineIInv
            <4> QED
                BY <2>1, <3>1, <4>1 DEF ApplyQualityGate, Improves, NoScore
        <3> QED
            BY <3>2, <3>3
    <2>9. FirstIsBest'
        BY <1>1, <2>2, <2>8 DEF FirstIsBest, ExhaustedScript, NoScript, inputs
    <2> QED
        BY <1>2, <2>5, <2>6, <2>7, <2>9
<1> QED
    BY <1>4, <1>5

\* The review, by a human or not: with [reject] only an exhausted run gets there.
LEMMA ReviewKeeps ==
    ASSUME OfflineAssumption, OfflineIInv, UNCHANGED <<inputs, scripts, issues>>,
           HumanReview \/ \E d \in Decision, h \in BOOLEAN : Resume(d, h)
    PROVE  /\ ScriptsInv' /\ JudgmentsInv' /\ GateInv' /\ RevisionsInv' /\ FirstIsBest'
<1>1. /\ next = "human_review" /\ status \in {"PASSED", "EXHAUSTED"}
      /\ UNCHANGED <<generated_script, script_version, evaluation, best_script, best_score,
                     iteration, judged>>
      /\ \/ status' = status /\ next' = next /\ human_revision_count' = human_revision_count
         \/ status' = "APPROVED" /\ next' = "visualizer" /\ human_revision_count' = human_revision_count
         \/ status' \in {"FAILED", "SCRIPTING"} /\ human_revision_count' = human_revision_count + 1
    BY DEF HumanReview, Resume, AutoApprove, Decide, GiveUp, Failed, Succeeded, Follow,
       RouteAfterHuman, draft, best, review, OfflineIInv, IInv, ControlInv, StatusAt
<1>2. ScriptsInv' /\ JudgmentsInv'
    BY <1>1, SameDrafts DEF OfflineIInv
<1>3. GateInv'
    BY <1>1 DEF GateInv, OfflineIInv, Passes
<1>4. human_revision_count \in Nat
    BY GraphAssumption DEF OfflineIInv, IInv, TypeOK
<1>5. RevisionsInv'
    BY <1>1, <1>4 DEF RevisionsInv, OfflineIInv, inputs
<1>6. FirstIsBest'
    <2>1. request.marker = "reject" => status # "PASSED"
        <3> SUFFICES ASSUME status = "PASSED" PROVE request.marker # "reject"
            OBVIOUS
        <3>1. evaluation.approved /\ evaluation.script = generated_script
            BY <1>1 DEF OfflineIInv, IInv, ReviewInv, ReviewedScriptIsSettled
        <3>2. evaluation # NoEvaluation
            BY <3>1 DEF NoEvaluation
        <3> QED
            BY <3>1, <3>2, RubricOf DEF JudgmentsInv, OfflineIInv
    <2> QED
        BY <1>1, <2>1 DEF FirstIsBest, OfflineIInv, inputs
<1> QED
    BY <1>2, <1>3, <1>5, <1>6

\* The nodes that have nothing to do with drafts.
LEMMA ElsewhereKeeps ==
    ASSUME OfflineIInv, UNCHANGED offline,
           Research \/ MemoryRetrieve \/ Visualizer \/ Formatter \/ FallThrough
    PROVE  /\ ScriptsInv' /\ JudgmentsInv' /\ GateInv' /\ RevisionsInv' /\ FirstIsBest'
<1>1. /\ UNCHANGED <<inputs, scripts, issues, generated_script, script_version, evaluation,
                     best_script, best_score, iteration, judged, human_revision_count>>
      /\ \/ status' = "FAILED"
         \/ /\ status' \in {"INITIALIZED", "RESEARCHING"}
            /\ status \in {"INITIALIZED", "RESEARCHING"} /\ next # "quality_gate"
         \/ /\ status' \in {"VISUALIZING", "COMPLETED"}
            /\ status \in {"APPROVED", "VISUALIZING"} /\ next # "quality_gate"
    BY DEF Research, MemoryRetrieve, Visualizer, Formatter, FallThrough, Enter, Succeeded, Failed,
       draft, best, review, offline, texts, OfflineIInv, IInv, ControlInv, StatusAt
<1>2. ScriptsInv' /\ JudgmentsInv'
    BY <1>1, SameDrafts DEF OfflineIInv
<1>3. GateInv' /\ RevisionsInv' /\ FirstIsBest'
    BY <1>1 DEF GateInv, RevisionsInv, FirstIsBest, OfflineIInv, Passes, inputs
<1> QED
    BY <1>2, <1>3

\* The types of an offline run.
LEMMA OfflineTypeStep ==
    ASSUME OfflineAssumption, OfflineTypeOK, [OfflineNext]_<<vars, offline>>, JudgmentsInv'
    PROVE  OfflineTypeOK'
<1>1. CASE Write
    <2>1. scripts' = scripts \/ scripts' = Append(scripts, Draft)
        BY <1>1 DEF Write
    <2>2. Draft \in ShortScript /\ scripts \in Seq(ShortScript)
        BY DraftOf DEF OfflineTypeOK
    <2>3. scripts' \in Seq(ShortScript)
        BY <2>1, <2>2
    <2> QED
        BY <1>1, <2>3 DEF Write, OfflineTypeOK, inputs
<1>2. CASE Judge
    BY <1>2 DEF Judge, OfflineTypeOK, JudgmentsInv, inputs
<1>3. CASE Review \/ Answer \/ Elsewhere \/ UNCHANGED <<vars, offline>>
    BY <1>3 DEF Review, Answer, Elsewhere, OfflineTypeOK, inputs, texts, offline
<1> QED
    BY <1>1, <1>2, <1>3 DEF OfflineNext

\* A step of an offline run keeps its invariant.
LEMMA OfflineStep ==
    ASSUME OfflineAssumption, OfflineIInv, [OfflineNext]_<<vars, offline>>
    PROVE  OfflineIInv'
<1>1. ScriptsInv' /\ JudgmentsInv' /\ GateInv' /\ RevisionsInv' /\ FirstIsBest'
    <2>1. CASE Write
        BY <2>1, WriteKeeps
    <2>2. CASE Judge
        BY <2>2, JudgeKeeps
    <2>3. CASE Review
        BY <2>3, ReviewKeeps DEF Review
    <2>4. CASE Answer
        <3>1. \E d \in Decision, h \in BOOLEAN : Resume(d, h)
            BY <2>4 DEF Answer
        <3> QED
            BY <2>4, <3>1, ReviewKeeps DEF Answer
    <2>5. CASE Elsewhere
        BY <2>5, QualityGateKeeps, ElsewhereKeeps DEF Elsewhere
    <2>6. CASE UNCHANGED <<vars, offline>>
        <3>1. ScriptsInv' /\ JudgmentsInv'
            BY <2>6, SameDrafts DEF OfflineIInv, vars, draft, best, offline, texts
        <3>2. GateInv' /\ RevisionsInv' /\ FirstIsBest'
            BY <2>6 DEF GateInv, RevisionsInv, FirstIsBest, OfflineIInv, Passes, vars, control,
               draft, best, review, offline, texts, inputs
        <3> QED
            BY <3>1, <3>2
    <2> QED
        BY <2>1, <2>2, <2>3, <2>4, <2>5, <2>6 DEF OfflineNext
<1>2. IInv'
    BY OfflineIsGraphStep, GraphIInvStep DEF OfflineIInv
<1>3. OfflineTypeOK'
    BY <1>1, OfflineTypeStep DEF OfflineIInv
<1> QED
    BY <1>1, <1>2, <1>3 DEF OfflineIInv

LEMMA OfflineInitIInv == ASSUME OfflineAssumption, OfflineInit PROVE OfflineIInv
<1>1. IInv
    BY InitIInv DEF OfflineInit
<1>2. scripts = <<>> /\ issues = FALSE /\ human_feedback = FALSE
      /\ research \in ResearchLengths /\ memory_context \in BOOLEAN
      /\ request \in [length : RequestLengths, marker : Marker]
    BY DEF OfflineInit
<1>3. scripts \in Seq(ShortScript) /\ Len(scripts) = 0
    BY <1>2
<1>4. OfflineTypeOK
    BY <1>2, <1>3 DEF OfflineTypeOK
<1>5. /\ script_version = 0 /\ evaluation = NoEvaluation /\ judged = {} /\ iteration = 0
      /\ status = "INITIALIZED" /\ next = "research"
    BY DEF OfflineInit, Init
<1>6. ScriptsInv /\ JudgmentsInv
    <2>1. DOMAIN scripts = {}
        BY <1>2
    <2>2. ScriptsInv
        BY <1>3, <1>5, <2>1 DEF ScriptsInv
    <2>3. JudgmentsInv
        BY <1>2, <1>5 DEF JudgmentsInv
    <2> QED
        BY <2>2, <2>3
<1>7. GateInv /\ RevisionsInv /\ FirstIsBest
    BY <1>2, <1>3, <1>5 DEF GateInv, RevisionsInv, FirstIsBest
<1> QED
    BY <1>1, <1>4, <1>6, <1>7 DEF OfflineIInv

\* The invariant gives the properties of the delivered program.
LEMMA OfflineInvOf == ASSUME OfflineAssumption, OfflineIInv PROVE OfflineInv
<1>1. ASSUME status = "PASSED"
      PROVE  /\ OfRubric(evaluation) /\ evaluation.approved
             /\ evaluation.script = generated_script
    <2>1. next = "human_review"
        BY <1>1 DEF OfflineIInv, IInv, TypeOK, ControlInv, StatusAt, Node, END
    <2>2. evaluation.approved /\ evaluation.script = generated_script
        BY <1>1, <2>1 DEF OfflineIInv, IInv, ReviewInv, ReviewedScriptIsSettled
    <2>3. evaluation # NoEvaluation
        BY <2>2 DEF NoEvaluation
    <2> QED
        BY <2>2, <2>3 DEF OfflineIInv, JudgmentsInv
<1>2. RevisedDraftPasses
    <2> SUFFICES ASSUME request.marker = "none" PROVE RevisedDraftPasses
        BY DEF RevisedDraftPasses
    <2>1. ASSUME NEW e \in judged, scripts[e.script].revised PROVE Passes(e)
        <3>1. OfRubric(e)
            BY DEF OfflineIInv, JudgmentsInv
        <3> QED
            BY <2>1, <3>1, RubricOf DEF Passes
    <2>2. ASSUME status = "EXHAUSTED", MaxIterations > 1, human_revision_count = 0
          PROVE  FALSE
        <3>1. /\ OfRubric(evaluation) /\ ~Passes(evaluation)
              /\ evaluation.script = script_version
            BY <2>2 DEF OfflineIInv, JudgmentsInv, GateInv
        <3>2. next = "human_review"
            BY <2>2 DEF OfflineIInv, IInv, TypeOK, ControlInv, StatusAt, Node, END
        <3>3. iteration >= MaxIterations /\ script_version = iteration
            BY <2>2, <3>2 DEF OfflineIInv, IInv, ReviewInv, ReviewedScriptIsSettled, CountInv, Written
        <3>4. script_version > 1
            BY <2>2, <3>3, GraphAssumption DEF OfflineIInv, IInv, TypeOK
        <3>5. scripts[script_version].revised
            BY <2>2, <3>1, <3>4 DEF OfRubric, OfflineIInv, RevisionsInv
        <3> QED
            BY <3>1, <3>5, RubricOf DEF Passes
    <2>3. human_revision_count \in Nat
        BY GraphAssumption DEF OfflineIInv, IInv, TypeOK
    <2> QED
        BY <2>1, <2>2, <2>3 DEF RevisedDraftPasses
<1>3. RetryPassNeedsRetry
    <2> SUFFICES ASSUME request.marker = "retry_pass", status = "PASSED"
                 PROVE  /\ scripts[generated_script].revised
                        /\ \E e \in judged : e.script < generated_script /\ ~e.approved
        BY DEF RetryPassNeedsRetry
    <2>1. scripts[generated_script].revised
        BY <1>1, RubricOf
    <2>2. generated_script \in DOMAIN scripts
        BY <1>1 DEF OfRubric
    <2> QED
        BY <2>1, <2>2 DEF OfflineIInv, RevisionsInv
<1>4. RejectKeepsFirstDraft
    BY <1>1, RubricOf DEF RejectKeepsFirstDraft, OfflineIInv, FirstIsBest
<1>5. PassedDraftIsSound
    BY <1>1, RubricOf DEF PassedDraftIsSound
<1> QED
    BY <1>2, <1>3, <1>4, <1>5 DEF OfflineInv, OfflineIInv

\* Over all requests, notes, markers, attempts and reviews, for a threshold the
\* rubric's own approvals reach (7.0): without a marker a revised draft passes,
\* [retry-pass] passes with a revised draft only, [reject] never passes and is
\* left with the first draft, and no draft passes that fails a check.
THEOREM OfflineOutcome == OfflineAssumption => (OfflineSpec => []OfflineInv)
<1> SUFFICES ASSUME OfflineAssumption PROVE OfflineSpec => []OfflineInv
    OBVIOUS
<1>1. OfflineInit => OfflineIInv
    BY OfflineInitIInv
<1>2. OfflineIInv /\ [OfflineNext]_<<vars, offline>> => OfflineIInv'
    BY OfflineStep
<1>3. OfflineIInv => OfflineInv
    BY OfflineInvOf
<1> QED
    BY <1>1, <1>2, <1>3, PTL DEF OfflineSpec
=============================================================================
