-------------------------- MODULE JobSystemProofs --------------------------
(***************************************************************************)
(* Proofs about JobSystem for all values of its constants.                 *)
(*                                                                         *)
(* Any number of workers: types, exclusive claims, settled jobs, and that  *)
(* no reviewed run is released without an approval.                        *)
(*                                                                         *)
(* One worker at work, as the stack of docker-compose.prod.yml runs one:   *)
(* what the tables call a success is released and stored, and every thread *)
(* keeps the promise of ReviewedRun; and while the database answers        *)
(* besides, what is offered for review is what the thread waits on, and a  *)
(* success stays a success.  First for every behaviour with one worker,    *)
(* then for the scenarios of MCJobScenarios.                               *)
(***************************************************************************)
EXTENDS MCJobScenarios, TLAPS

\* The table starts empty, and the workers idle.
LEMMA InitIInv == Init => IInv
<1> SUFFICES ASSUME Init PROVE IInv
    OBVIOUS
<1> USE JobAssumption DEF Init, JobId, ExecutionId, None
<1>1. NewJob \in Job /\ NewExecution \in Execution /\ NewThread \in Thread
    BY DEF NewJob, NewExecution, NewThread, Job, Execution, Thread, JobType, JobStatus
<1>2. IdleWorker \in WorkerState
    BY <1>1 DEF IdleWorker, WorkerState
<1>3. TypeOK
    BY <1>1, <1>2 DEF TypeOK
<1>4. QueueInv
    BY DEF QueueInv, NewJob
<1>5. ClaimedOnce /\ HolderInv
    BY DEF ClaimedOnce, HolderInv, At, IdleWorker
<1>6. ExecutionInv
    BY DEF ExecutionInv, At, IdleWorker
<1>7. RoundsInv
    BY DEF RoundsInv, RoundsLeft, NewThread, IdleWorker
<1>8. ReviewerInv
    BY DEF ReviewerInv, NewThread, IdleWorker, At
<1> QED
    BY <1>3, <1>4, <1>5, <1>6, <1>7, <1>8 DEF IInv

-----------------------------------------------------------------------------
(***************************************************************************)
(* What the many actions of a worker do to the job table and the threads   *)
(* comes down to a few shapes.                                             *)
(***************************************************************************)

\* Worker k goes on with its job, which stays as it is.
GoesOn(k) ==
    /\ ~At(k, "idle")
    /\ workers' \in [Worker -> WorkerState]
    /\ \A l \in Worker \ {k} : workers'[l] = workers[l]
    /\ workers'[k].pc \notin {"idle", "claimed"}
    /\ workers'[k].job = workers[k].job
    /\ workers'[k].run = workers[k].run
    /\ UNCHANGED <<jobs, job_count, exec_count, threads>>

\* Worker k gives its job the status s and is idle.
Settles(k, s) ==
    /\ ~At(k, "idle")
    /\ s = "queued" => jobs[JobOf(k)].attempts < MaxAttempts
    /\ jobs' = [jobs EXCEPT ![JobOf(k)].status = s]
    /\ workers' = [workers EXCEPT ![k] = IdleWorker]
    /\ UNCHANGED <<job_count, exec_count, threads>>

Left == {"queued", "awaiting_human", "succeeded", "failed"}

\* The last transaction of a job, whichever it is.
LEMMA SettleShape ==
    ASSUME NEW k \in Worker, TypeOK, FinalizeJob(k) \/ FailJob(k) \/ HandleFailure(k)
    PROVE  \E s \in Left : Settles(k, s)
<1> USE DEF Settle, Settles, Left, At
<1>1. CASE FinalizeJob(k)
    BY <1>1 DEF FinalizeJob
<1>2. CASE FailJob(k)
    BY <1>2 DEF FailJob
<1>3. CASE HandleFailure(k)
    <2>1. CASE workers[k].transient /\ AttemptsLeft(jobs[JobOf(k)])
        BY <1>3, <2>1 DEF HandleFailure, AttemptsLeft
    <2>2. CASE ~(workers[k].transient /\ AttemptsLeft(jobs[JobOf(k)]))
        BY <1>3, <2>2 DEF HandleFailure
    <2> QED
        BY <2>1, <2>2
<1> QED
    BY <1>1, <1>2, <1>3

\* A worker record stays one.
LEMMA MovedWorker ==
    ASSUME NEW x \in WorkerState, NEW p \in {"raised", "failing"}, NEW tr \in BOOLEAN
    PROVE  [x EXCEPT !.pc = p, !.transient = tr] \in WorkerState
<1>1. [x EXCEPT !.transient = tr] \in WorkerState
    BY Zenon DEF WorkerState
<1> QED
    BY <1>1 DEF WorkerState

\* An exception, a pause, a result and the clock only move the worker.
LEMMA GoesOnShape ==
    ASSUME NEW k \in Worker, TypeOK,
           \/ InvalidDecision(k) \/ Checkpoint(k) \/ PersistFinal(k) \/ PolicyBlocks(k)
           \/ ClockExpires(k) \/ GraphRaises(k) \/ CommitFails(k)
    PROVE  GoesOn(k)
<1>s. workers[k] \in WorkerState
    BY DEF TypeOK
<1>0. ASSUME NEW p \in {"raised", "failing"}, NEW tr \in BOOLEAN, ~At(k, "idle"),
             workers' = [workers EXCEPT ![k].pc = p, ![k].transient = tr],
             UNCHANGED <<jobs, job_count, exec_count, threads>>
      PROVE  GoesOn(k)
    <2> DEFINE w == [workers[k] EXCEPT !.pc = p, !.transient = tr]
    <2>1. workers' = [workers EXCEPT ![k] = w]
        BY <1>0, Zenon
    <2>2. w \in WorkerState
        BY <1>s, MovedWorker
    <2>3. w.pc = p /\ w.job = workers[k].job /\ w.run = workers[k].run
        BY <1>s DEF WorkerState
    <2> HIDE DEF w
    <2> QED
        BY <1>0, <2>1, <2>2, <2>3 DEF TypeOK, GoesOn
<1> USE DEF TypeOK, GoesOn, WorkerState, At, tables, bounds
<1>1. ASSUME InvokeRaises(k), ~At(k, "idle"), UNCHANGED <<jobs, job_count, exec_count, threads>>
      PROVE  GoesOn(k)
    BY <1>0, <1>1 DEF InvokeRaises
<1>2. ASSUME Returned(k), ~At(k, "idle"), UNCHANGED <<jobs, job_count, exec_count, threads>>
      PROVE  GoesOn(k)
    BY <1>2 DEF Returned
<1>3. CASE InvalidDecision(k)
    BY <1>3 DEF InvalidDecision
<1>4. CASE Checkpoint(k)
    BY <1>2, <1>4 DEF Checkpoint
<1>5. CASE PersistFinal(k)
    BY <1>1, <1>2, <1>5 DEF PersistFinal, PersistFails
<1>6. CASE PolicyBlocks(k)
    BY <1>6 DEF PolicyBlocks
<1>7. CASE ClockExpires(k)
    BY <1>7 DEF ClockExpires
<1>8. CASE GraphRaises(k)
    BY <1>1, <1>8 DEF GraphRaises
<1>9. CASE CommitFails(k)
    BY <1>0, <1>9 DEF CommitFails
<1> QED
    BY <1>3, <1>4, <1>5, <1>6, <1>7, <1>8, <1>9

\* The process of worker k dies.
Drops(k) ==
    /\ ~At(k, "idle")
    /\ workers' = [workers EXCEPT ![k] = IdleWorker]
    /\ UNCHANGED <<jobs, job_count, exec_count, threads>>

\* One step, by its effect on the job table, the threads and the workers.
Shape ==
    \/ \E hitl \in BOOLEAN : EnqueueShort(hitl)
    \/ \E type \in JobType \ {"run"} : EnqueueResume(type)
    \/ \E k \in Worker :
          \/ Claim(k) \/ StartExecution(k) \/ InvokeResume(k) \/ GraphStep(k)
          \/ \E s \in Left : Settles(k, s)
          \/ GoesOn(k) \/ Drops(k)
    \/ UNCHANGED <<jobs, job_count, exec_count, threads, workers>>

LEMMA StepShape == TypeOK /\ [Next]_vars => Shape
<1> SUFFICES ASSUME TypeOK, [Next]_vars PROVE Shape
    OBVIOUS
<1>1. CASE \E hitl \in BOOLEAN : EnqueueShort(hitl)
    BY <1>1 DEF Shape
<1>2. CASE \E type \in JobType \ {"run"} : EnqueueResume(type)
    BY <1>2 DEF Shape
<1>3. ASSUME NEW k \in Worker,
             \/ Work(k) \/ PolicyBlocks(k) \/ ClockExpires(k) \/ GraphRaises(k)
             \/ CommitFails(k) \/ Crash(k)
      PROVE  Shape
    <2>1. CASE Claim(k) \/ StartExecution(k) \/ InvokeResume(k) \/ GraphStep(k)
        BY <2>1 DEF Shape
    <2>2. CASE FinalizeJob(k) \/ FailJob(k) \/ HandleFailure(k)
        BY <2>2, SettleShape DEF Shape
    <2>3. CASE \/ InvalidDecision(k) \/ Checkpoint(k) \/ PersistFinal(k) \/ PolicyBlocks(k)
               \/ ClockExpires(k) \/ GraphRaises(k) \/ CommitFails(k)
        BY <2>3, GoesOnShape DEF Shape
    <2>4. CASE Crash(k)
        <3>1. Drops(k)
            BY <2>4 DEF Crash, Drops, tables
        <3> QED
            BY <3>1 DEF Shape
    <2> QED
        BY <1>3, <2>1, <2>2, <2>3, <2>4 DEF Work
<1>4. CASE UNCHANGED vars
    BY <1>4 DEF Shape, vars, tables
<1> QED
    BY <1>1, <1>2, <1>3, <1>4 DEF Next

\* The rows and the bounds that no invariant is about.
LEMMA RestStep ==
    ASSUME TypeOK, [Next]_vars
    PROVE  /\ executions' \in [ExecutionId -> Execution]
           /\ workflow' \in {"none", "QUEUED", "RUNNING", "AWAITING_HUMAN", "COMPLETED", "FAILED"}
           /\ crashes' \in 0..MaxCrashes
           /\ faults' \in 0..MaxFaults
           /\ timeouts' \in 0..MaxTimeouts
<1> DEFINE Rest ==
        /\ executions' \in [ExecutionId -> Execution]
        /\ workflow' \in {"none", "QUEUED", "RUNNING", "AWAITING_HUMAN", "COMPLETED", "FAILED"}
        /\ crashes' \in 0..MaxCrashes
        /\ faults' \in 0..MaxFaults
        /\ timeouts' \in 0..MaxTimeouts
<1> SUFFICES Rest
    OBVIOUS
<1> USE JobAssumption DEF TypeOK, tables, bounds, Fault
<1>1. CASE \E hitl \in BOOLEAN : EnqueueShort(hitl)
    BY <1>1 DEF EnqueueShort, Enqueue
<1>2. CASE \E type \in JobType \ {"run"} : EnqueueResume(type)
    BY <1>2 DEF EnqueueResume, Enqueue
<1>3. ASSUME NEW k \in Worker,
             \/ Work(k) \/ PolicyBlocks(k) \/ ClockExpires(k) \/ GraphRaises(k)
             \/ CommitFails(k) \/ Crash(k)
      PROVE  Rest
    <2>1. CASE Claim(k) \/ InvokeResume(k) \/ InvalidDecision(k) \/ GraphStep(k) \/ PolicyBlocks(k)
        BY <2>1 DEF Claim, InvokeResume, InvalidDecision, GraphStep, PolicyBlocks
    <2>2. CASE StartExecution(k)
        BY <2>2 DEF StartExecution
    <2>3. CASE FinalizeJob(k) \/ FailJob(k) \/ HandleFailure(k)
        BY <2>3 DEF FinalizeJob, FailJob, HandleFailure, Settle
    <2>4. CASE GraphRaises(k) \/ CommitFails(k)
        BY <2>4 DEF GraphRaises, InvokeRaises, CommitFails
    <2>5. CASE ClockExpires(k) \/ Crash(k)
        BY <2>5 DEF ClockExpires, Crash
    <2>6. workers[k].run.rounds \in 0..(MaxHumanRounds + 1)
        BY DEF WorkerState, Thread
    <2>7. CASE Checkpoint(k)
        <3>1. \A x \in Execution : Paused(x, workers[k].run) \in Execution
            BY <2>6 DEF Paused, Execution
        <3>2. \/ executions' = [executions EXCEPT ![ExecutionOf(k)] = Paused(@, workers[k].run)]
                    /\ UNCHANGED bounds
              \/ Fault /\ UNCHANGED executions
            BY <2>7 DEF Checkpoint
        <3>3. executions' \in [ExecutionId -> Execution]
            BY <3>1, <3>2
        <3> QED
            BY <2>7, <3>2, <3>3 DEF Checkpoint
    <2>8. CASE PersistFinal(k)
        <3> DEFINE exe == [checkpoint |-> FinalStatus(workers[k].run),
                           round |-> workers[k].run.rounds,
                           final |-> FinalStatus(workers[k].run)]
        <3>1. exe \in Execution
            BY <2>6 DEF FinalStatus, Execution
        <3>2. FinalStatus(workers[k].run) \in {"COMPLETED", "FAILED"}
            BY DEF FinalStatus
        <3> HIDE DEF exe
        <3>3. \/ executions' = [executions EXCEPT ![ExecutionOf(k)] = exe]
                    /\ workflow' = FinalStatus(workers[k].run) /\ UNCHANGED bounds
              \/ InvokeRaises(k) /\ UNCHANGED <<executions, workflow>>
            BY <2>8 DEF PersistFinal, PersistFails, exe
        <3> QED
            BY <3>1, <3>2, <3>3 DEF InvokeRaises
    <2> QED
        BY <1>3, <2>1, <2>2, <2>3, <2>4, <2>5, <2>7, <2>8 DEF Work
<1>4. CASE UNCHANGED vars
    BY <1>4 DEF vars
<1> QED
    BY <1>1, <1>2, <1>3, <1>4 DEF Next

\* The row a request writes is a row of the table.
LEMMA QueuedJob ==
    ASSUME NEW hitl \in BOOLEAN, NEW type \in JobType, NEW e \in ExecutionId,
           NEW seen \in 0..(MaxHumanRounds + 1)
    PROVE  /\ [NewJob EXCEPT !.status = "queued", !.hitl = hitl] \in Job
           /\ [NewJob EXCEPT !.status = "queued", !.type = type, !.execution = e, !.seen = seen] \in Job
<1>1. NewJob \in Job
    BY JobAssumption DEF NewJob, Job, JobType, JobStatus, None
<1>2. [NewJob EXCEPT !.hitl = hitl] \in Job
    BY <1>1, Zenon DEF Job
<1>3. "queued" \in JobStatus \cup {"none"}
    BY DEF JobStatus
<1> QED
    BY <1>1, <1>2, <1>3 DEF Job

LEMMA EnqueueTypes ==
    ASSUME NEW job \in Job, TypeOK, Enqueue(job)
    PROVE  jobs' \in [JobId -> Job] /\ job_count' \in 0..MaxJobs
<1>1. jobs \in [JobId -> Job] /\ job_count \in 0..MaxJobs
    BY DEF TypeOK
<1>2. jobs' = [jobs EXCEPT ![job_count + 1] = job] /\ job_count < MaxJobs
      /\ job_count' = job_count + 1
    BY DEF Enqueue
<1>3. jobs' \in [JobId -> Job]
    BY <1>1, <1>2
<1>4. job_count' \in 0..MaxJobs
    BY <1>1, <1>2, JobAssumption
<1> QED
    BY <1>3, <1>4

\* A claimed row is a row, whatever the status of its job was.
LEMMA ClaimedJob ==
    ASSUME NEW job \in Job, job.attempts < MaxAttempts
    PROVE  Claimed(job) \in Job
<1>1. job.attempts + 1 \in 0..MaxAttempts
    BY JobAssumption DEF Job
<1>2. "running" \in JobStatus \cup {"none"}
    BY DEF JobStatus
<1>3. Claimed(job) = [job EXCEPT !.status = "running", !.attempts = job.attempts + 1]
    BY DEF Claimed, Job
<1> QED
    BY <1>1, <1>2, <1>3 DEF Job

\* What a decision or the next graph step makes of a thread is a thread.
LEMMA ThreadTypes ==
    ASSUME NEW t \in Thread, RoundsLeft(t), NEW type \in {"approve", "revise"}, NEW hitl \in BOOLEAN
    PROVE  /\ Resumed(t, type) \in Thread /\ RoundsLeft(Resumed(t, type))
           /\ Successors(t, hitl) \subseteq Thread
           /\ \A u \in Successors(t, hitl) : RoundsLeft(u)
<1> USE JobAssumption
<1>1. Resumed(t, type) \in Thread /\ RoundsLeft(Resumed(t, type))
    <2>1. CASE t.phase # "review"
        BY <2>1 DEF Resumed
    <2>2. CASE t.phase = "review" /\ (type = "approve" \/ ~EnvHitl)
        <3>1. Resumed(t, type) = [t EXCEPT !.phase = "approved"]
            BY <2>2 DEF Resumed, Answered
        <3> QED
            BY <2>2, <3>1 DEF RoundsLeft, Thread
    <2>3. CASE t.phase = "review" /\ ~(type = "approve" \/ ~EnvHitl)
        <3>1. Resumed(t, type) =
                [phase |-> IF t.rounds + 1 > MaxHumanRounds THEN "failed" ELSE "working",
                 rounds |-> t.rounds + 1]
            BY <2>3 DEF Resumed, Answered
        <3> QED
            BY <2>3, <3>1 DEF RoundsLeft, Thread
    <2> QED
        BY <2>1, <2>2, <2>3
<1>2. ASSUME NEW u \in Successors(t, hitl)
      PROVE  u \in Thread /\ RoundsLeft(u)
    <2>1. /\ t.phase # "failed"
          /\ \E p \in {"review", "approved", "released", "failed"} : u = [t EXCEPT !.phase = p]
        BY <1>2 DEF Successors, Thread
    <2> QED
        BY <2>1 DEF Thread, RoundsLeft
<1> QED
    BY <1>1, <1>2

-----------------------------------------------------------------------------
(***************************************************************************)
(* Every part of the invariant is kept by every step.                      *)
(***************************************************************************)

\* What the invariant says of a worker that is not idle.
LEMMA Holder ==
    ASSUME IInv, NEW k \in Worker, ~At(k, "idle")
    PROVE  /\ JobOf(k) \in JobId /\ JobOf(k) <= job_count /\ job_count > 0
           /\ jobs[JobOf(k)] \in Job
           /\ jobs[JobOf(k)].status = "running" /\ jobs[JobOf(k)].attempts > 0
           /\ TypeOf(k) = "run" <=> JobOf(k) = 1
           /\ TypeOf(k) # "run" => ExecutionOf(k) \in ExecutionId
           /\ \A l \in Worker \ {k} : ~At(l, "idle") => JobOf(l) # JobOf(k)
<1>1. JobOf(k) \in JobId /\ jobs[JobOf(k)].status = "running"
      /\ \A l \in Worker \ {k} : ~At(l, "idle") => JobOf(l) # JobOf(k)
    BY DEF IInv, HolderInv, ClaimedOnce
<1>2. jobs[JobOf(k)].status # NewJob.status
    BY <1>1 DEF NewJob
<1>3. JobOf(k) \in Nat /\ JobOf(k) >= 1 /\ job_count \in Nat
    BY <1>1, JobAssumption DEF JobId, IInv, TypeOK
<1>4. JobOf(k) <= job_count
    BY <1>1, <1>2, <1>3 DEF IInv, QueueInv
<1> QED
    BY <1>1, <1>3, <1>4 DEF IInv, QueueInv, TypeOK, TypeOf, ExecutionOf

LEMMA TypeStep == IInv /\ [Next]_vars => TypeOK'
<1> SUFFICES ASSUME IInv, [Next]_vars PROVE TypeOK'
    OBVIOUS
<1>0. TypeOK /\ Shape
    BY StepShape DEF IInv
<1> SUFFICES /\ jobs' \in [JobId -> Job] /\ job_count' \in 0..MaxJobs
             /\ exec_count' \in 0..MaxAttempts
             /\ threads' \in [ExecutionId -> Thread]
             /\ workers' \in [Worker -> WorkerState]
    BY <1>0, RestStep DEF TypeOK
<1> USE JobAssumption, <1>0 DEF TypeOK, tables
<1>i. IdleWorker \in WorkerState
    BY DEF IdleWorker, WorkerState, NewThread, Thread, None
<1>1. CASE \E hitl \in BOOLEAN : EnqueueShort(hitl)
    <2> PICK hitl \in BOOLEAN : EnqueueShort(hitl)
        BY <1>1
    <2> DEFINE job == [NewJob EXCEPT !.status = "queued", !.hitl = hitl]
    <2>1. job \in Job
        <3>1. 1 \in ExecutionId /\ "run" \in JobType /\ 0 \in 0..(MaxHumanRounds + 1)
            BY DEF ExecutionId, JobType
        <3> QED
            BY <3>1, QueuedJob
    <2>2. Enqueue(job) /\ UNCHANGED <<exec_count, threads, workers>>
        BY DEF EnqueueShort
    <2> HIDE DEF job
    <2> QED
        BY <2>1, <2>2, EnqueueTypes
<1>2. CASE \E type \in JobType \ {"run"} : EnqueueResume(type)
    <2> PICK type \in JobType \ {"run"} : EnqueueResume(type)
        BY <1>2
    <2> DEFINE job == [NewJob EXCEPT !.status = "queued", !.type = type,
                          !.execution = exec_count, !.seen = executions[exec_count].round]
    <2>1. exec_count \in ExecutionId
        BY DEF EnqueueResume, ExecutionId
    <2>2. executions[exec_count].round \in 0..(MaxHumanRounds + 1)
        BY <2>1 DEF Execution
    <2>3. job \in Job
        BY <2>1, <2>2, QueuedJob
    <2>4. Enqueue(job) /\ UNCHANGED <<exec_count, threads, workers>>
        BY DEF EnqueueResume
    <2> HIDE DEF job
    <2> QED
        BY <2>3, <2>4, EnqueueTypes
<1>3. ASSUME NEW k \in Worker, Claim(k)
      PROVE  TypeOK'
    <2> PICK j \in Claimable :
            /\ jobs' = [jobs EXCEPT ![j] = Claimed(@)]
            /\ workers' = [workers EXCEPT ![k] = [IdleWorker EXCEPT !.pc = "claimed", !.job = j]]
        BY <1>3 DEF Claim
    <2>1. j \in JobId /\ jobs[j] \in Job /\ jobs[j].attempts < MaxAttempts
        BY DEF Claimable, IInv, QueueInv
    <2>2. Claimed(jobs[j]) \in Job
        BY <2>1, ClaimedJob
    <2>3. [IdleWorker EXCEPT !.pc = "claimed", !.job = j] \in WorkerState
        BY <1>i, <2>1 DEF WorkerState
    <2> QED
        BY <1>3, <2>2, <2>3, RestStep DEF Claim
<1>4. ASSUME NEW k \in Worker, StartExecution(k)
      PROVE  TypeOK'
    <2>1. ~At(k, "idle") /\ At(k, "claimed") /\ TypeOf(k) = "run"
        BY <1>4 DEF StartExecution, At
    <2>2. JobOf(k) = 1 /\ JobOf(k) \in JobId /\ jobs[1] \in Job /\ exec_count < jobs[1].attempts
        BY <2>1, Holder DEF IInv, ExecutionInv
    <2>3. exec_count + 1 \in ExecutionId
        BY <2>2 DEF ExecutionId, Job
    <2>4. jobs' \in [JobId -> Job]
        BY <1>4, <2>2, <2>3 DEF StartExecution, Job
    <2>5. workers' \in [Worker -> WorkerState]
        BY <1>4 DEF StartExecution, WorkerState
    <2>6. exec_count' \in 0..MaxAttempts
        BY <1>4, <2>3 DEF StartExecution, ExecutionId
    <2> QED
        BY <1>4, <2>4, <2>5, <2>6, RestStep DEF StartExecution
<1>5. ASSUME NEW k \in Worker, InvokeResume(k)
      PROVE  TypeOK'
    <2> DEFINE t == Resumed(threads[ExecutionOf(k)], TypeOf(k))
    <2>1. ~At(k, "idle") /\ TypeOf(k) \in {"approve", "revise"}
        BY <1>5 DEF InvokeResume, At
    <2>2. ExecutionOf(k) \in ExecutionId
        BY <2>1, Holder
    <2>3. t \in Thread
        BY <2>1, <2>2, ThreadTypes, TRUE \in BOOLEAN DEF IInv, RoundsInv
    <2>4. /\ threads' = [threads EXCEPT ![ExecutionOf(k)] = t]
          /\ workers' = [workers EXCEPT ![k].pc = "graph", ![k].run = t]
          /\ UNCHANGED <<jobs, job_count, exec_count>>
        BY <1>5 DEF InvokeResume
    <2> HIDE DEF t
    <2>5. threads' \in [ExecutionId -> Thread]
        BY <2>3, <2>4
    <2>6. workers' \in [Worker -> WorkerState]
        <3> DEFINE w == [workers[k] EXCEPT !.pc = "graph", !.run = t]
        <3>1. w \in WorkerState
            BY <2>3 DEF WorkerState
        <3>2. workers' = [workers EXCEPT ![k] = w]
            BY <2>4, Zenon
        <3> HIDE DEF w
        <3> QED
            BY <3>1, <3>2
    <2> QED
        BY <2>4, <2>5, <2>6, RestStep
<1>6. ASSUME NEW k \in Worker, GraphStep(k)
      PROVE  TypeOK'
    <2> PICK t \in Successors(workers[k].run, Hitl(k)) :
            /\ threads' = [threads EXCEPT ![ExecutionOf(k)] = t]
            /\ workers' = [workers EXCEPT ![k].run = t]
        BY <1>6 DEF GraphStep
    <2>1. ~At(k, "idle")
        BY <1>6 DEF GraphStep, At
    <2>2. Hitl(k) \in BOOLEAN
        BY <2>1, Holder DEF Hitl, Job
    <2>3. workers[k].run \in Thread /\ RoundsLeft(workers[k].run)
        BY DEF WorkerState, IInv, RoundsInv
    <2>4. t \in Thread
        BY <2>2, <2>3, ThreadTypes, "approve" \in {"approve", "revise"}
    <2>5. threads' \in [ExecutionId -> Thread] /\ workers' \in [Worker -> WorkerState]
        BY <2>4, ZenonT(40) DEF WorkerState
    <2> QED
        BY <1>6, <2>5, RestStep DEF GraphStep
<1>7. ASSUME NEW k \in Worker, NEW s \in Left, Settles(k, s)
      PROVE  TypeOK'
    <2>1. jobs' \in [JobId -> Job]
        BY <1>7, ZenonT(40) DEF Settles, Left, Job, JobStatus
    <2> QED
        BY <1>7, <1>i, <2>1, RestStep DEF Settles
<1>8. ASSUME NEW k \in Worker, GoesOn(k) \/ Drops(k)
      PROVE  TypeOK'
    BY <1>8, <1>i, RestStep DEF GoesOn, Drops
<1>9. CASE UNCHANGED <<jobs, job_count, exec_count, threads, workers>>
    BY <1>9
<1> QED
    BY <1>1, <1>2, <1>3, <1>4, <1>5, <1>6, <1>7, <1>8, <1>9 DEF Shape

\* A queued or running row belongs to a job that was enqueued.
LEMMA InTable ==
    ASSUME IInv, NEW j \in JobId, jobs[j].status # "none"
    PROVE  j <= job_count /\ job_count > 0 /\ jobs[j] \in Job
<1>1. j \in Nat /\ j >= 1 /\ job_count \in Nat /\ jobs[j] \in Job
    BY JobAssumption DEF JobId, IInv, TypeOK
<1>2. j > job_count => jobs[j].status = "none"
    BY DEF IInv, QueueInv, NewJob
<1> QED
    BY <1>1, <1>2

\* New rows are appended, and a row only ever changes as its holder says.
LEMMA QueueStep == IInv /\ [Next]_vars => QueueInv'
<1> SUFFICES ASSUME IInv, [Next]_vars PROVE QueueInv'
    OBVIOUS
<1>0. TypeOK /\ Shape /\ QueueInv /\ jobs \in [JobId -> Job] /\ job_count \in 0..MaxJobs
    BY StepShape DEF IInv, TypeOK
<1> USE JobAssumption, <1>0
<1>n. MaxAttempts > 0 /\ JobId \subseteq Nat /\ job_count \in Nat /\ \A j \in JobId : j >= 1
    BY DEF JobId
<1>1. CASE \E hitl \in BOOLEAN : EnqueueShort(hitl)
    <2> PICK hitl \in BOOLEAN : EnqueueShort(hitl)
        BY <1>1
    <2> DEFINE job == [NewJob EXCEPT !.status = "queued", !.hitl = hitl]
    <2>1. job_count = 0 /\ job_count' = 1 /\ jobs' = [jobs EXCEPT ![1] = job]
        BY DEF EnqueueShort, Enqueue
    <2>2. job.status = "queued" /\ job.type = "run" /\ job.attempts = 0
        BY DEF NewJob
    <2> HIDE DEF job
    <2> QED
        BY <1>n, <2>1, <2>2 DEF QueueInv
<1>2. CASE \E type \in JobType \ {"run"} : EnqueueResume(type)
    <2> PICK type \in JobType \ {"run"} : EnqueueResume(type)
        BY <1>2
    <2>1. exec_count \in ExecutionId /\ job_count > 0
        BY <1>n DEF EnqueueResume, ExecutionId, IInv, ExecutionInv, TypeOK
    <2> DEFINE job == [NewJob EXCEPT !.status = "queued", !.type = type,
                          !.execution = exec_count, !.seen = executions[exec_count].round]
    <2>2. /\ job.status = "queued" /\ job.type # "run" /\ job.attempts = 0
          /\ job.execution = exec_count
        BY DEF NewJob
    <2>3. job_count' = job_count + 1 /\ jobs' = [jobs EXCEPT ![job_count + 1] = job]
        BY DEF EnqueueResume, Enqueue
    <2> HIDE DEF job
    <2> QED
        BY <1>n, <2>1, <2>2, <2>3 DEF QueueInv
<1>3. ASSUME NEW k \in Worker, Claim(k)
      PROVE  QueueInv'
    <2> PICK j \in Claimable : jobs' = [jobs EXCEPT ![j] = Claimed(@)] /\ job_count' = job_count
        BY <1>3 DEF Claim
    <2>1. j \in JobId /\ jobs[j].status = "queued"
        BY DEF Claimable
    <2>2. j <= job_count /\ jobs[j] \in Job
        BY <2>1, InTable
    <2>3. /\ Claimed(jobs[j]).status = "running" /\ Claimed(jobs[j]).attempts > 0
          /\ Claimed(jobs[j]).type = jobs[j].type
          /\ Claimed(jobs[j]).execution = jobs[j].execution
        BY <2>2 DEF Claimed, Job
    <2> QED
        BY <1>n, <2>1, <2>2, <2>3 DEF QueueInv
<1>4. ASSUME NEW k \in Worker, StartExecution(k)
      PROVE  QueueInv'
    <2>1. JobOf(k) = 1 /\ 1 \in JobId /\ jobs[1] \in Job /\ 1 <= job_count
        BY <1>4, Holder DEF StartExecution, At
    <2>2. jobs' = [jobs EXCEPT ![1].execution = exec_count + 1] /\ job_count' = job_count
        BY <1>4, <2>1 DEF StartExecution
    <2> QED
        BY <1>n, <2>1, <2>2 DEF QueueInv, Job
<1>5. ASSUME NEW k \in Worker, NEW s \in Left, Settles(k, s)
      PROVE  QueueInv'
    <2>1. /\ JobOf(k) \in JobId /\ JobOf(k) <= job_count
          /\ jobs[JobOf(k)] \in Job /\ jobs[JobOf(k)].status = "running"
        BY <1>5, Holder DEF Settles
    <2>2. /\ jobs' = [jobs EXCEPT ![JobOf(k)].status = s] /\ job_count' = job_count
          /\ s = "queued" => jobs[JobOf(k)].attempts < MaxAttempts
          /\ s # "none" /\ s # "running"
        BY <1>5 DEF Settles, Left
    <2> QED
        BY <1>n, <2>1, <2>2 DEF QueueInv, Job
<1>6. CASE UNCHANGED <<jobs, job_count>>
    BY <1>6 DEF QueueInv
<1> QED
    BY <1>1, <1>2, <1>3, <1>4, <1>5, <1>6
    DEF Shape, InvokeResume, GraphStep, GoesOn, Drops, tables

\* A worker takes a queued job, and nobody else can while it runs.
LEMMA ClaimStep == IInv /\ [Next]_vars => ClaimedOnce' /\ HolderInv'
<1> SUFFICES ASSUME IInv, [Next]_vars PROVE ClaimedOnce' /\ HolderInv'
    OBVIOUS
<1>0. /\ TypeOK /\ Shape /\ ClaimedOnce /\ HolderInv
      /\ jobs \in [JobId -> Job] /\ workers \in [Worker -> WorkerState]
    BY StepShape DEF IInv, TypeOK
<1> USE <1>0 DEF ClaimedOnce, HolderInv, At, JobOf
<1>1. ASSUME NEW j \in Nat, jobs[j].status # "running" \/ j \notin JobId,
             \E job : jobs' = [jobs EXCEPT ![j] = job], UNCHANGED workers
      PROVE  ClaimedOnce' /\ HolderInv'
    BY <1>1
<1>2. CASE \E hitl \in BOOLEAN : EnqueueShort(hitl)
    <2>1. job_count + 1 \in Nat /\ (job_count + 1 \in JobId => jobs[job_count + 1] = NewJob)
        BY DEF IInv, QueueInv, TypeOK
    <2> QED
        BY <1>1, <1>2, <2>1 DEF EnqueueShort, Enqueue, NewJob
<1>3. CASE \E type \in JobType \ {"run"} : EnqueueResume(type)
    <2>1. job_count + 1 \in Nat /\ (job_count + 1 \in JobId => jobs[job_count + 1] = NewJob)
        BY DEF IInv, QueueInv, TypeOK
    <2> QED
        BY <1>1, <1>3, <2>1 DEF EnqueueResume, Enqueue, NewJob
<1>4. ASSUME NEW k \in Worker, Claim(k)
      PROVE  ClaimedOnce' /\ HolderInv'
    <2> PICK j \in Claimable :
            /\ jobs' = [jobs EXCEPT ![j] = Claimed(@)]
            /\ workers' = [workers EXCEPT ![k] = [IdleWorker EXCEPT !.pc = "claimed", !.job = j]]
        BY <1>4 DEF Claim
    <2>1. j \in JobId /\ jobs[j].status = "queued"
        BY DEF Claimable
    <2>2. \A l \in Worker : ~At(l, "idle") => JobOf(l) # j
        BY <2>1
    <2>3. jobs'[j].status = "running"
        BY <2>1 DEF Claimed, Job
    <2>4. workers'[k].pc = "claimed" /\ workers'[k].job = j /\ workers'[k].run = NewThread
        BY DEF IdleWorker
    <2>5. /\ \A l \in Worker \ {k} : workers'[l] = workers[l]
          /\ \A i \in JobId \ {j} : jobs'[i] = jobs[i]
        OBVIOUS
    <2> QED
        BY <2>1, <2>2, <2>3, <2>4, <2>5
<1>5. ASSUME NEW k \in Worker, StartExecution(k)
      PROVE  ClaimedOnce' /\ HolderInv'
    <2>1. /\ \A j \in JobId : jobs'[j].status = jobs[j].status
          /\ \A l \in Worker \ {k} : workers'[l] = workers[l]
          /\ workers'[k].job = workers[k].job /\ workers'[k].pc = "graph"
        BY <1>5 DEF StartExecution, Job, WorkerState
    <2> QED
        BY <1>5, <2>1 DEF StartExecution
<1>6. ASSUME NEW k \in Worker, InvokeResume(k) \/ GraphStep(k) \/ GoesOn(k)
      PROVE  ClaimedOnce' /\ HolderInv'
    <2>1. /\ jobs' = jobs /\ ~At(k, "idle")
          /\ \A l \in Worker \ {k} : workers'[l] = workers[l]
          /\ workers'[k].job = workers[k].job /\ workers'[k].pc \notin {"idle", "claimed"}
        BY <1>6 DEF InvokeResume, GraphStep, GoesOn, tables, WorkerState
    <2> QED
        BY <2>1
<1>7. ASSUME NEW k \in Worker, NEW s \in Left, Settles(k, s)
      PROVE  ClaimedOnce' /\ HolderInv'
    <2>1. /\ \A j \in JobId \ {JobOf(k)} : jobs'[j] = jobs[j]
          /\ \A l \in Worker \ {k} : workers'[l] = workers[l]
          /\ workers'[k].pc = "idle" /\ ~At(k, "idle")
        BY <1>7 DEF Settles, IdleWorker
    <2> QED
        BY <2>1
<1>8. ASSUME NEW k \in Worker, Drops(k)
      PROVE  ClaimedOnce' /\ HolderInv'
    BY <1>8 DEF Drops, IdleWorker
<1>9. CASE UNCHANGED <<jobs, workers>>
    BY <1>9
<1> QED
    BY <1>2, <1>3, <1>4, <1>5, <1>6, <1>7, <1>8, <1>9 DEF Shape

\* A new execution needs a claimed run job that has not started one yet.
LEMMA ExecutionStep == IInv /\ [Next]_vars => ExecutionInv'
<1> SUFFICES ASSUME IInv, [Next]_vars PROVE ExecutionInv'
    OBVIOUS
<1>0. /\ TypeOK /\ Shape /\ ExecutionInv
      /\ jobs \in [JobId -> Job] /\ workers \in [Worker -> WorkerState]
      /\ job_count \in Nat /\ exec_count \in Nat
    BY StepShape DEF IInv, TypeOK
<1> USE JobAssumption, <1>0 DEF At, JobOf
<1>1. CASE \E hitl \in BOOLEAN : EnqueueShort(hitl)
    <2> PICK hitl \in BOOLEAN : EnqueueShort(hitl)
        BY <1>1
    <2>1. job_count = 0 /\ job_count' = 1 /\ exec_count = 0 /\ exec_count' = 0 /\ workers' = workers
        BY DEF EnqueueShort, Enqueue, ExecutionInv
    <2>2. \A k \in Worker : At(k, "idle")
        BY <2>1, Holder
    <2>3. jobs'[1].attempts = 0
        BY <2>1 DEF EnqueueShort, Enqueue, NewJob, JobId
    <2> QED
        BY <2>1, <2>2, <2>3 DEF ExecutionInv
<1>2. CASE \E type \in JobType \ {"run"} : EnqueueResume(type)
    <2>1. /\ exec_count > 0 /\ job_count' = job_count + 1
          /\ exec_count' = exec_count /\ workers' = workers
          /\ \E job : jobs' = [jobs EXCEPT ![job_count + 1] = job]
        BY <1>2 DEF EnqueueResume, Enqueue
    <2>2. job_count > 0
        BY <2>1 DEF ExecutionInv
    <2>3. jobs'[1] = jobs[1]
        BY <2>1, <2>2
    <2> QED
        BY <2>1, <2>2, <2>3 DEF ExecutionInv
<1>3. ASSUME NEW k \in Worker, Claim(k)
      PROVE  ExecutionInv'
    <2> PICK j \in Claimable :
            /\ jobs' = [jobs EXCEPT ![j] = Claimed(@)]
            /\ workers' = [workers EXCEPT ![k] = [IdleWorker EXCEPT !.pc = "claimed", !.job = j]]
        BY <1>3 DEF Claim
    <2>1. j \in JobId /\ jobs[j].status = "queued"
        BY DEF Claimable
    <2>2. job_count > 0 /\ jobs[j] \in Job
        BY <2>1, InTable
    <2>3. jobs'[j].attempts = jobs[j].attempts + 1 /\ jobs[j].attempts \in Nat
        BY <2>1, <2>2 DEF Claimed, Job
    <2>4. /\ workers'[k].job = j /\ \A l \in Worker \ {k} : workers'[l] = workers[l]
          /\ \A i \in JobId \ {j} : jobs'[i] = jobs[i]
        BY DEF IdleWorker
    <2>5. 1 \in JobId
        BY <2>2 DEF JobId, TypeOK
    <2> QED
        BY <1>3, <2>1, <2>2, <2>3, <2>4, <2>5 DEF Claim, ExecutionInv
<1>4. ASSUME NEW k \in Worker, StartExecution(k)
      PROVE  ExecutionInv'
    <2>1. /\ JobOf(k) = 1 /\ 1 \in JobId /\ job_count > 0 /\ jobs[1] \in Job
          /\ \A l \in Worker \ {k} : ~At(l, "idle") => JobOf(l) # 1
        BY <1>4, Holder DEF StartExecution
    <2>2. exec_count < jobs[1].attempts
        BY <1>4, <2>1 DEF StartExecution, ExecutionInv
    <2>3. /\ jobs'[1].attempts = jobs[1].attempts /\ jobs[1].attempts \in Nat
          /\ job_count' = job_count /\ exec_count' = exec_count + 1
          /\ \A l \in Worker \ {k} : workers'[l] = workers[l]
          /\ workers'[k].pc = "graph"
        BY <1>4, <2>1 DEF StartExecution, Job, WorkerState
    <2> QED
        BY <2>1, <2>2, <2>3 DEF ExecutionInv
<1>5. ASSUME NEW k \in Worker, NEW s \in Left, Settles(k, s)
      PROVE  ExecutionInv'
    <2>1. JobOf(k) \in JobId /\ job_count > 0
        BY <1>5, Holder DEF Settles
    <2>2. 1 \in JobId
        BY <2>1 DEF JobId
    <2>3. /\ jobs'[1].attempts = jobs[1].attempts
          /\ job_count' = job_count /\ exec_count' = exec_count
          /\ \A l \in Worker \ {k} : workers'[l] = workers[l]
          /\ workers'[k].pc = "idle"
        BY <1>5, <2>1, <2>2 DEF Settles, Job, IdleWorker
    <2> QED
        BY <2>1, <2>3 DEF ExecutionInv
<1>6. ASSUME NEW k \in Worker,
             InvokeResume(k) \/ GraphStep(k) \/ GoesOn(k) \/ Drops(k)
      PROVE  ExecutionInv'
    <2>1. /\ jobs' = jobs /\ job_count' = job_count /\ exec_count' = exec_count
          /\ \A l \in Worker \ {k} : workers'[l] = workers[l]
          /\ workers'[k].pc # "claimed"
        BY <1>6 DEF InvokeResume, GraphStep, GoesOn, Drops, tables, WorkerState, IdleWorker
    <2> QED
        BY <2>1 DEF ExecutionInv
<1>7. CASE UNCHANGED <<jobs, job_count, exec_count, workers>>
    BY <1>7 DEF ExecutionInv
<1> QED
    BY <1>1, <1>2, <1>3, <1>4, <1>5, <1>6, <1>7 DEF Shape

\* Rounds are counted only at a review, where one is left.
LEMMA RoundsStep == IInv /\ [Next]_vars => RoundsInv'
<1> SUFFICES ASSUME IInv, [Next]_vars PROVE RoundsInv'
    OBVIOUS
<1>0. /\ TypeOK /\ Shape /\ RoundsInv /\ threads \in [ExecutionId -> Thread]
      /\ workers \in [Worker -> WorkerState]
    BY StepShape DEF IInv, TypeOK
<1> USE JobAssumption, <1>0
<1>n. RoundsLeft(NewThread) /\ IdleWorker.run = NewThread
    BY DEF RoundsLeft, NewThread, IdleWorker
<1>1. ASSUME NEW k \in Worker, NEW t, RoundsLeft(t), UNCHANGED threads \/
             \E e : threads' = [threads EXCEPT ![e] = t],
             \A l \in Worker \ {k} : workers'[l] = workers[l],
             workers'[k].run = t
      PROVE  RoundsInv'
    BY <1>1 DEF RoundsInv
<1>2. ASSUME NEW k \in Worker, InvokeResume(k)
      PROVE  RoundsInv'
    <2>1. ExecutionOf(k) \in ExecutionId /\ TypeOf(k) \in {"approve", "revise"}
        BY <1>2, Holder DEF InvokeResume, At
    <2> DEFINE t == Resumed(threads[ExecutionOf(k)], TypeOf(k))
    <2>2. RoundsLeft(t)
        BY <2>1, ThreadTypes, TRUE \in BOOLEAN DEF RoundsInv
    <2>3. /\ threads' = [threads EXCEPT ![ExecutionOf(k)] = t]
          /\ workers' = [workers EXCEPT ![k].pc = "graph", ![k].run = t]
        BY <1>2 DEF InvokeResume
    <2> HIDE DEF t
    <2>4. workers'[k].run = t /\ \A l \in Worker \ {k} : workers'[l] = workers[l]
        BY <2>3 DEF WorkerState
    <2> QED
        BY <1>1, <2>2, <2>3, <2>4
<1>3. ASSUME NEW k \in Worker, GraphStep(k)
      PROVE  RoundsInv'
    <2> PICK t \in Successors(workers[k].run, Hitl(k)) :
            /\ threads' = [threads EXCEPT ![ExecutionOf(k)] = t]
            /\ workers' = [workers EXCEPT ![k].run = t]
        BY <1>3 DEF GraphStep
    <2>1. Hitl(k) \in BOOLEAN
        BY <1>3, Holder DEF GraphStep, At, Hitl, Job
    <2>2. workers[k].run \in Thread /\ RoundsLeft(workers[k].run)
        BY DEF WorkerState, RoundsInv
    <2>3. RoundsLeft(t)
        BY <2>1, <2>2, ThreadTypes, "approve" \in {"approve", "revise"}
    <2>4. workers'[k].run = t /\ \A l \in Worker \ {k} : workers'[l] = workers[l]
        BY DEF WorkerState
    <2> QED
        BY <1>1, <2>3, <2>4
<1>4. ASSUME NEW k \in Worker, Claim(k) \/ (\E s \in Left : Settles(k, s)) \/ Drops(k)
      PROVE  RoundsInv'
    <2>1. /\ threads' = threads /\ workers'[k].run = NewThread
          /\ \A l \in Worker \ {k} : workers'[l] = workers[l]
        BY <1>4, <1>n DEF Claim, Settles, Drops, IdleWorker
    <2> QED
        BY <1>1, <1>n, <2>1
<1>5. ASSUME NEW k \in Worker, StartExecution(k) \/ GoesOn(k)
      PROVE  RoundsInv'
    <2>1. /\ threads' = threads /\ workers'[k].run = workers[k].run
          /\ \A l \in Worker \ {k} : workers'[l] = workers[l]
        BY <1>5 DEF StartExecution, GoesOn, WorkerState
    <2> QED
        BY <1>1, <2>1 DEF RoundsInv
<1>6. CASE UNCHANGED <<threads, workers>>
    BY <1>6 DEF RoundsInv
<1> QED
    BY <1>2, <1>3, <1>4, <1>5, <1>6 DEF Shape, EnqueueShort, EnqueueResume

\* What was asked for in a row stays; only the run job changes its execution.
LEMMA RowStays ==
    ASSUME IInv, [Next]_vars, NEW j \in JobId, j <= job_count
    PROVE  /\ jobs'[j].type = jobs[j].type /\ jobs'[j].hitl = jobs[j].hitl
           /\ jobs'[j].attempts >= jobs[j].attempts
           /\ j # 1 => jobs'[j].execution = jobs[j].execution
           /\ job_count' >= job_count
<1>0. /\ TypeOK /\ Shape /\ jobs \in [JobId -> Job] /\ jobs[j] \in Job
      /\ jobs[j].attempts \in Nat /\ job_count \in Nat /\ j \in Nat
    BY JobAssumption, StepShape DEF IInv, TypeOK, Job, JobId
<1> USE JobAssumption, <1>0
<1>1. ASSUME NEW job, jobs' = [jobs EXCEPT ![job_count + 1] = job], job_count' = job_count + 1
      PROVE  jobs'[j] = jobs[j] /\ job_count' >= job_count
    BY <1>1
<1>2. CASE (\E hitl \in BOOLEAN : EnqueueShort(hitl))
              \/ (\E type \in JobType \ {"run"} : EnqueueResume(type))
    <2>1. jobs'[j] = jobs[j] /\ job_count' >= job_count
        BY <1>1, <1>2 DEF EnqueueShort, EnqueueResume, Enqueue
    <2> QED
        BY <2>1
<1>3. ASSUME NEW k \in Worker, Claim(k)
      PROVE  /\ jobs'[j] = jobs[j] \/ jobs'[j] = Claimed(jobs[j])
             /\ job_count' = job_count
    BY <1>3 DEF Claim
<1>4. /\ Claimed(jobs[j]).type = jobs[j].type /\ Claimed(jobs[j]).hitl = jobs[j].hitl
      /\ Claimed(jobs[j]).attempts >= jobs[j].attempts
      /\ Claimed(jobs[j]).execution = jobs[j].execution
    <2>1. /\ Claimed(jobs[j]).type = jobs[j].type
          /\ Claimed(jobs[j]).execution = jobs[j].execution
          /\ Claimed(jobs[j]).attempts = jobs[j].attempts + 1
        BY DEF Claimed, Job
    <2>2. Claimed(jobs[j]).hitl = jobs[j].hitl
        BY Zenon DEF Claimed, Job
    <2> QED
        BY <2>1, <2>2
<1>5. ASSUME NEW k \in Worker, StartExecution(k)
      PROVE  /\ jobs'[j].type = jobs[j].type /\ jobs'[j].hitl = jobs[j].hitl
             /\ jobs'[j].attempts = jobs[j].attempts
             /\ j # 1 => jobs'[j].execution = jobs[j].execution
             /\ job_count' = job_count
    <2>1. JobOf(k) = 1
        BY <1>5, Holder DEF StartExecution, At
    <2> QED
        BY <1>5, <2>1 DEF StartExecution, Job
<1>6. ASSUME NEW k \in Worker, NEW s \in Left, Settles(k, s)
      PROVE  /\ jobs'[j].type = jobs[j].type /\ jobs'[j].hitl = jobs[j].hitl
             /\ jobs'[j].attempts = jobs[j].attempts
             /\ jobs'[j].execution = jobs[j].execution
             /\ job_count' = job_count
    BY <1>6 DEF Settles, Job
<1>7. CASE UNCHANGED <<jobs, job_count>>
    BY <1>7
<1>8. ASSUME NEW k \in Worker, InvokeResume(k) \/ GraphStep(k) \/ GoesOn(k) \/ Drops(k)
      PROVE  UNCHANGED <<jobs, job_count>>
    BY <1>8 DEF InvokeResume, GraphStep, GoesOn, Drops, tables
<1> QED
    BY <1>2, <1>3, <1>4, <1>5, <1>6, <1>7, <1>8 DEF Shape

\* An approval that was taken up is never forgotten.
LEMMA TakenStays ==
    ASSUME IInv, [Next]_vars, NEW e, ApprovalTaken(e)
    PROVE  ApprovalTaken(e)'
<1> PICK j \in JobId : jobs[j].type = "approve" /\ jobs[j].execution = e /\ jobs[j].attempts > 0
    BY DEF ApprovalTaken
<1>1. j \in Nat /\ job_count \in Nat /\ jobs[j].attempts \in Nat
    BY JobAssumption DEF JobId, IInv, TypeOK, Job
<1>2. j <= job_count
    BY <1>1 DEF IInv, QueueInv, NewJob
<1>3. j # 1
    BY <1>2 DEF IInv, QueueInv
<1>4. jobs'[j].attempts >= jobs[j].attempts /\ jobs'[j].type = "approve" /\ jobs'[j].execution = e
    BY <1>2, <1>3, RowStays
<1>5. jobs'[j].attempts \in Nat
    BY TypeStep, JobAssumption DEF TypeOK, Job
<1>6. jobs'[j].attempts > 0
    BY <1>1, <1>4, <1>5
<1> QED
    BY <1>4, <1>6 DEF ApprovalTaken

\* A job keeps the execution it is about, unless its holder starts one.
LEMMA ExecutionStays ==
    ASSUME IInv, [Next]_vars, NEW k \in Worker, ~At(k, "idle"), ~StartExecution(k)
    PROVE  jobs'[JobOf(k)].execution = ExecutionOf(k)
<1>0. /\ Shape /\ jobs \in [JobId -> Job] /\ job_count \in Nat
      /\ JobOf(k) \in JobId /\ JobOf(k) <= job_count /\ JobOf(k) \in Nat
      /\ jobs[JobOf(k)].status = "running"
      /\ \A l \in Worker \ {k} : ~At(l, "idle") => JobOf(l) # JobOf(k)
    BY StepShape, Holder, JobAssumption DEF IInv, TypeOK, JobId
<1> USE <1>0 DEF ExecutionOf
<1>1. CASE JobOf(k) # 1
    BY <1>1, RowStays
<1>2. CASE (\E hitl \in BOOLEAN : EnqueueShort(hitl))
              \/ (\E type \in JobType \ {"run"} : EnqueueResume(type))
    <2>1. \E job : jobs' = [jobs EXCEPT ![job_count + 1] = job]
        BY <1>2 DEF EnqueueShort, EnqueueResume, Enqueue
    <2> QED
        BY <2>1
<1>3. ASSUME NEW l \in Worker, Claim(l)
      PROVE  jobs'[JobOf(k)] = jobs[JobOf(k)]
    <2> PICK j \in Claimable : jobs' = [jobs EXCEPT ![j] = Claimed(@)]
        BY <1>3 DEF Claim
    <2>1. j # JobOf(k)
        BY DEF Claimable
    <2> QED
        BY <2>1
<1>4. ASSUME NEW l \in Worker, StartExecution(l)
      PROVE  jobs'[JobOf(k)] = jobs[JobOf(k)]
    <2>1. JobOf(l) # JobOf(k)
        BY <1>4 DEF StartExecution, At
    <2> QED
        BY <1>4, <2>1 DEF StartExecution
<1>5. ASSUME NEW l \in Worker, NEW s \in Left, Settles(l, s)
      PROVE  jobs'[JobOf(k)].execution = jobs[JobOf(k)].execution
    BY <1>5 DEF Settles, Job
<1>6. ASSUME NEW l \in Worker, InvokeResume(l) \/ GraphStep(l) \/ GoesOn(l) \/ Drops(l)
      PROVE  jobs' = jobs
    BY <1>6 DEF InvokeResume, GraphStep, GoesOn, Drops, tables
<1> QED
    BY <1>2, <1>3, <1>4, <1>5, <1>6 DEF Shape

\* With human review on, only a resume that approves passes the review.
LEMMA ReviewerStep == IInv /\ [Next]_vars => ReviewerInv'
<1> DEFINE Past(t) == t.phase \in {"approved", "released"}
           After(e) == \E j \in JobId : jobs'[j].type = "approve" /\ jobs'[j].execution = e
                                            /\ jobs'[j].attempts > 0
           Threads == \A e \in ExecutionId : Past(threads'[e]) => After(e)
           Workers == \A k \in Worker : workers'[k].pc # "idle" /\ Past(workers'[k].run)
                          => After(jobs'[workers'[k].job].execution)
<1> SUFFICES ASSUME IInv, [Next]_vars, EnvHitl, job_count' > 0 => jobs'[1].hitl
             PROVE  Threads /\ Workers
    BY Zenon DEF ReviewerInv, ApprovalTaken, ExecutionOf, JobOf, At
<1>0. /\ TypeOK /\ Shape /\ threads \in [ExecutionId -> Thread]
      /\ workers \in [Worker -> WorkerState] /\ job_count \in Nat
    BY StepShape, JobAssumption DEF IInv, TypeOK
<1>1. job_count > 0 => jobs[1].hitl
    <2>1. job_count > 0 => 1 \in JobId /\ 1 <= job_count
        BY <1>0, JobAssumption DEF JobId, TypeOK
    <2>2. job_count' \in Nat
        BY TypeStep, JobAssumption DEF TypeOK
    <2> QED
        BY <1>0, <2>1, <2>2, RowStays
<1>2. /\ \A e \in ExecutionId : Past(threads[e]) => ApprovalTaken(e)
      /\ \A k \in Worker : ~At(k, "idle") /\ Past(workers[k].run) => ApprovalTaken(ExecutionOf(k))
    BY <1>1 DEF IInv, ReviewerInv
<1>3. \A e : ApprovalTaken(e) => After(e)
    BY TakenStays DEF ApprovalTaken
<1> HIDE DEF Past, After
\* A worker that is not touched keeps what it has.
<1>4. ASSUME NEW l \in Worker, workers'[l] = workers[l],
             workers'[l].pc # "idle", Past(workers'[l].run)
      PROVE  After(jobs'[workers'[l].job].execution)
    <2>1. ~At(l, "idle") /\ ~StartExecution(l)
        BY <1>0, <1>4 DEF At, StartExecution, WorkerState
    <2>2. jobs'[JobOf(l)].execution = ExecutionOf(l)
        BY <2>1, ExecutionStays
    <2> QED
        BY <1>2, <1>3, <1>4, <2>1, <2>2 DEF JobOf
\* Nor does a worker that stops, or starts from scratch, add anything.
<1>5. ASSUME NEW k \in Worker, \A l \in Worker \ {k} : workers'[l] = workers[l],
             workers'[k].pc = "idle" \/ ~Past(workers'[k].run), UNCHANGED threads
      PROVE  Threads /\ Workers
    BY <1>2, <1>3, <1>4, <1>5
\* A worker that saves thread t, or holds it.
<1>6. ASSUME NEW k \in Worker, NEW t, ~At(k, "idle"), ~StartExecution(k),
             Past(t) => ApprovalTaken(ExecutionOf(k)),
             threads' = threads \/ threads' = [threads EXCEPT ![ExecutionOf(k)] = t],
             \A l \in Worker \ {k} : workers'[l] = workers[l],
             workers'[k].job = JobOf(k), workers'[k].run = t
      PROVE  Threads /\ Workers
    <2>1. jobs'[JobOf(k)].execution = ExecutionOf(k)
        BY <1>6, ExecutionStays
    <2>2. Threads
        BY <1>0, <1>2, <1>3, <1>6
    <2>3. Workers
        BY <1>3, <1>4, <1>6, <2>1
    <2> QED
        BY <2>2, <2>3
<1>n. ~Past(NewThread)
    BY DEF Past, NewThread
<1>7. ASSUME NEW k \in Worker,
             Claim(k) \/ StartExecution(k) \/ (\E s \in Left : Settles(k, s)) \/ Drops(k)
      PROVE  Threads /\ Workers
    <2>1. workers'[k].pc = "idle" \/ workers'[k].run = NewThread
        <3>1. CASE Claim(k)
            BY <1>0, <3>1 DEF Claim, IdleWorker
        <3>2. CASE StartExecution(k)
            <4>1. workers[k].run = NewThread
                BY <3>2 DEF StartExecution, IInv, HolderInv
            <4> QED
                BY <1>0, <3>2, <4>1 DEF StartExecution, WorkerState
        <3>3. CASE (\E s \in Left : Settles(k, s)) \/ Drops(k)
            BY <1>0, <3>3 DEF Settles, Drops, IdleWorker
        <3> QED
            BY <1>7, <3>1, <3>2, <3>3
    <2>2. threads' = threads /\ \A l \in Worker \ {k} : workers'[l] = workers[l]
        BY <1>0, <1>7 DEF Claim, StartExecution, Settles, Drops
    <2> QED
        BY <1>5, <1>n, <2>1, <2>2
<1>8. ASSUME NEW k \in Worker, InvokeResume(k)
      PROVE  Threads /\ Workers
    <2> DEFINE e == ExecutionOf(k)
               t == Resumed(threads[e], TypeOf(k))
    <2>1. /\ ~At(k, "idle") /\ ~StartExecution(k) /\ TypeOf(k) \in {"approve", "revise"}
          /\ threads' = [threads EXCEPT ![e] = t]
          /\ workers' = [workers EXCEPT ![k].pc = "graph", ![k].run = t]
        BY <1>8 DEF InvokeResume, StartExecution, At
    <2>2. e \in ExecutionId /\ JobOf(k) \in JobId /\ jobs[JobOf(k)].attempts > 0
        BY <2>1, Holder
    <2>3. TypeOf(k) = "approve" => ApprovalTaken(e)
        BY <2>2 DEF ApprovalTaken, TypeOf, ExecutionOf
    <2>4. Past(t) => ApprovalTaken(e)
        <3>1. CASE TypeOf(k) = "approve"
            BY <2>3, <3>1
        <3>2. CASE TypeOf(k) = "revise" /\ threads[e].phase = "review"
            <4>1. t = [phase |-> IF threads[e].rounds + 1 > MaxHumanRounds
                                   THEN "failed" ELSE "working",
                       rounds |-> threads[e].rounds + 1]
                BY <3>2 DEF Resumed, Answered
            <4>2. t.phase \in {"failed", "working"}
                BY <4>1
            <4> QED
                BY <4>2 DEF Past
        <3>3. CASE threads[e].phase # "review"
            BY <1>2, <2>2, <3>3 DEF Resumed
        <3> QED
            BY <2>1, <3>1, <3>2, <3>3
    <2> HIDE DEF t
    <2>5. /\ workers'[k].run = t /\ workers'[k].job = JobOf(k)
          /\ \A l \in Worker \ {k} : workers'[l] = workers[l]
        BY <1>0, <2>1 DEF WorkerState, JobOf
    <2> QED
        BY <1>6, <2>1, <2>4, <2>5
<1>9. ASSUME NEW k \in Worker, GraphStep(k)
      PROVE  Threads /\ Workers
    <2> PICK t \in Successors(workers[k].run, Hitl(k)) :
            /\ threads' = [threads EXCEPT ![ExecutionOf(k)] = t]
            /\ workers' = [workers EXCEPT ![k].run = t]
        BY <1>9 DEF GraphStep
    <2>1. ~At(k, "idle") /\ ~StartExecution(k)
        BY <1>9 DEF GraphStep, StartExecution, At
    <2>2. Hitl(k)
        BY <1>1, <2>1, Holder, Zenon DEF Hitl
    <2>3. workers[k].run \in Thread
        BY <1>0 DEF WorkerState
    <2>4. Past(t) => workers[k].run.phase = "approved"
        BY <2>2, <2>3 DEF Successors, Past, Thread
    <2>5. Past(t) => ApprovalTaken(ExecutionOf(k))
        BY <1>2, <2>1, <2>4 DEF Past
    <2>6. /\ workers'[k].run = t /\ workers'[k].job = JobOf(k)
          /\ \A l \in Worker \ {k} : workers'[l] = workers[l]
        BY <1>0 DEF WorkerState, JobOf
    <2> QED
        BY <1>6, <2>1, <2>5, <2>6
<1>10. ASSUME NEW k \in Worker, GoesOn(k)
       PROVE  Threads /\ Workers
    <2>1. ~At(k, "idle") /\ ~StartExecution(k)
        BY <1>0, <1>10 DEF GoesOn, StartExecution, IInv, TypeOK
    <2> QED
        BY <1>2, <1>6, <1>10, <2>1 DEF GoesOn, JobOf
<1>11. CASE UNCHANGED <<threads, workers>>
    BY <1>2, <1>3, <1>4, <1>11
<1> QED
    BY <1>0, <1>7, <1>8, <1>9, <1>10, <1>11 DEF Shape, EnqueueShort, EnqueueResume

\* A settled row of the job table is never written again.
LEMMA SettledRow ==
    ASSUME IInv, [Next]_vars, NEW j \in JobId,
           jobs[j].status \in {"awaiting_human", "succeeded", "failed"}
    PROVE  jobs'[j] = jobs[j]
<1>0. Shape /\ jobs \in [JobId -> Job] /\ job_count \in Nat /\ j \in Nat /\ j <= job_count
    BY StepShape, InTable, JobAssumption DEF IInv, TypeOK, JobId
<1>1. \A k \in Worker : ~At(k, "idle") => JobOf(k) # j
    BY DEF IInv, ClaimedOnce
<1>2. CASE (\E hitl \in BOOLEAN : EnqueueShort(hitl))
              \/ (\E type \in JobType \ {"run"} : EnqueueResume(type))
    <2>1. \E job : jobs' = [jobs EXCEPT ![job_count + 1] = job]
        BY <1>2 DEF EnqueueShort, EnqueueResume, Enqueue
    <2> QED
        BY <1>0, <2>1
<1>3. ASSUME NEW k \in Worker, Claim(k)
      PROVE  jobs'[j] = jobs[j]
    BY <1>0, <1>3 DEF Claim, Claimable
<1>4. ASSUME NEW k \in Worker, StartExecution(k) \/ (\E s \in Left : Settles(k, s))
      PROVE  jobs'[j] = jobs[j]
    BY <1>0, <1>1, <1>4 DEF StartExecution, Settles, At
<1>5. ASSUME NEW k \in Worker, InvokeResume(k) \/ GraphStep(k) \/ GoesOn(k) \/ Drops(k)
      PROVE  jobs' = jobs
    BY <1>5 DEF InvokeResume, GraphStep, GoesOn, Drops, tables
<1> QED
    BY <1>0, <1>2, <1>3, <1>4, <1>5 DEF Shape

-----------------------------------------------------------------------------
(***************************************************************************)
(* The theorems.                                                           *)
(***************************************************************************)

\* The invariant holds in every run, whatever fails or crashes.
THEOREM Invariance == Spec => []IInv
<1>1. IInv /\ [Next]_vars => IInv'
    BY TypeStep, QueueStep, ClaimStep, ExecutionStep, RoundsStep, ReviewerStep DEF IInv
<1> QED
    BY InitIInv, <1>1, PTL DEF Spec

\* Rows, threads and workers keep their types: attempts, executions and review
\* rounds stay within their limits.
THEOREM TypeCorrect == Spec => []TypeOK
<1>1. IInv => TypeOK
    BY DEF IInv
<1> QED
    BY Invariance, <1>1, PTL

\* claim_next never gives a job to two workers.
THEOREM ClaimsAreExclusive == Spec => []ClaimedOnce
<1>1. IInv => ClaimedOnce
    BY DEF IInv
<1> QED
    BY Invariance, <1>1, PTL

\* A job that awaits its human, succeeded or failed is never taken up again.
THEOREM SettledStays == Spec => SettledJobsStay
<1>1. ASSUME IInv, [Next]_vars, NEW j \in JobId,
             jobs[j].status \in {"awaiting_human", "succeeded", "failed"}
      PROVE  jobs'[j] = jobs[j]
    BY <1>1, SettledRow
<1>2. IInv /\ [Next]_vars =>
        [\A j \in JobId : jobs[j].status \in {"awaiting_human", "succeeded", "failed"}
                             => jobs'[j] = jobs[j]]_vars
    BY <1>1
<1> QED
    BY Invariance, <1>2, PTL DEF Spec, SettledJobsStay

\* Where workers run with human review on, no run that asked for a review is
\* released before a worker took up an approval of it.
THEOREM ReviewIsRespected == Spec => [](EnvHitl => HumanDecided)
<1>1. ASSUME IInv, EnvHitl
      PROVE  HumanDecided
    BY <1>1 DEF IInv, ReviewerInv, HumanDecided, ApprovalTaken
<1>2. IInv => (EnvHitl => HumanDecided)
    BY <1>1
<1> QED
    BY Invariance, <1>2, PTL

-----------------------------------------------------------------------------
(***************************************************************************)
(* One worker at work.  Its steps, by what they do to the threads and to   *)
(* the execution rows.                                                     *)
(***************************************************************************)

\* Every step of worker k.
Own(k) ==
    \/ Work(k) \/ PolicyBlocks(k) \/ ClockExpires(k) \/ GraphRaises(k)
    \/ CommitFails(k) \/ Crash(k)

\* An idle worker that stays idle does nothing.
LEMMA AloneStep ==
    ASSUME TypeOK, NEW k \in Worker, Alone(k), Alone(k)', [Next]_vars
    PROVE  \/ \E hitl \in BOOLEAN : EnqueueShort(hitl)
           \/ \E type \in JobType \ {"run"} : EnqueueResume(type)
           \/ Own(k)
           \/ UNCHANGED vars
<1>1. ASSUME NEW l \in Worker \ {k}, Own(l) PROVE FALSE
    <2>1. At(l, "idle") /\ At(l, "idle")'
        BY DEF Alone
    <2>2. ~Claim(l)
        BY <2>1, ZenonT(40) DEF Claim, At, IdleWorker, TypeOK
    <2>3. ~(StartExecution(l) \/ InvokeResume(l) \/ InvalidDecision(l) \/ GraphStep(l)
             \/ Checkpoint(l) \/ PersistFinal(l) \/ FinalizeJob(l) \/ FailJob(l)
             \/ HandleFailure(l))
        BY <2>1 DEF At, StartExecution, InvokeResume, InvalidDecision, GraphStep,
           Checkpoint, PersistFinal, FinalizeJob, FailJob, HandleFailure
    <2>4. ~(PolicyBlocks(l) \/ ClockExpires(l) \/ GraphRaises(l) \/ CommitFails(l) \/ Crash(l))
        BY <2>1 DEF At, PolicyBlocks, ClockExpires, GraphRaises, CommitFails, Crash
    <2> QED
        BY <1>1, <2>2, <2>3, <2>4 DEF Own, Work
<1> QED
    BY <1>1 DEF Next, Own

\* Worker k moves on without touching tables or threads.  Only the clock
\* leaves it in the graph.
Moves(k) ==
    /\ ~At(k, "idle")
    /\ \E w \in WorkerState :
          /\ workers' = [workers EXCEPT ![k] = w]
          /\ \/ w.pc \in {"raised", "failing"} /\ w.job = JobOf(k)
             \/ w.pc = "idle"
             \/ w.pc = "graph" /\ At(k, "graph") /\ w.job = JobOf(k) /\ w.run = workers[k].run
                   /\ w.transient = workers[k].transient
          /\ faults' = faults =>
                \/ w.pc = "idle" /\ ~w.transient
                \/ /\ w.transient = workers[k].transient
                   /\ w.pc = "graph" \/ ~At(k, "graph")
    /\ UNCHANGED <<jobs, job_count, executions, exec_count, workflow, threads>>

\* The call returns, its result stored.
Reports(k) ==
    /\ ~At(k, "idle")
    /\ \E w \in WorkerState :
          /\ workers' = [workers EXCEPT ![k] = w]
          /\ w.pc \in {"failing", "finalize"} /\ w.job = JobOf(k) /\ w.run = workers[k].run
          /\ w.transient = workers[k].transient
    /\ UNCHANGED <<jobs, job_count, exec_count, threads>>

\* Worker k pauses, with or without its checkpoint.
Pauses(k) ==
    /\ At(k, "graph") /\ workers[k].run.phase = "review"
    /\ Reports(k)
    /\ UNCHANGED workflow
    /\ \/ executions' = [executions EXCEPT ![ExecutionOf(k)] = Paused(@, workers[k].run)]
       \/ UNCHANGED executions /\ faults' = faults + 1

\* Worker k stores the end of its thread.
Stored(run) == [checkpoint |-> FinalStatus(run), round |-> run.rounds, final |-> FinalStatus(run)]
Ends(k) ==
    /\ At(k, "graph") /\ workers[k].run.phase \in {"released", "failed"}
    /\ Reports(k)
    /\ workflow' = FinalStatus(workers[k].run)
    /\ executions' = [executions EXCEPT ![ExecutionOf(k)] = Stored(workers[k].run)]

\* Worker k takes the thread of its job to t.
Takes(k, t) ==
    /\ \/ /\ At(k, "claimed") /\ TypeOf(k) \in {"approve", "revise"}
          /\ t = Resumed(threads[ExecutionOf(k)], TypeOf(k))
       \/ At(k, "graph") /\ t \in Successors(workers[k].run, Hitl(k))
    /\ threads' = [threads EXCEPT ![ExecutionOf(k)] = t]
    /\ \E w \in WorkerState :
          /\ workers' = [workers EXCEPT ![k] = w]
          /\ w.pc = "graph" /\ w.job = JobOf(k) /\ w.run = t
          /\ w.transient = workers[k].transient
    /\ UNCHANGED <<jobs, job_count, executions, exec_count, workflow>>

\* Worker k settles its job.
SettlesAs(k, s) ==
    /\ Settles(k, s)
    /\ UNCHANGED <<executions, faults>>
    /\ ~At(k, "graph")
    /\ s = "succeeded" <=> workflow' = "COMPLETED"
    /\ s = "succeeded" => At(k, "finalize") /\ workers[k].run.phase = "released"
    /\ s = "queued" => workers[k].transient

OwnShape(k) ==
    \/ Claim(k) \/ StartExecution(k) \/ Moves(k) \/ Pauses(k) \/ Ends(k)
    \/ \E t \in Thread : Takes(k, t)
    \/ \E s \in Left : SettlesAs(k, s)

\* The actions of a worker, reduced to what they do to its thread and its row:
\* first those that touch neither.
LEMMA MovesShape ==
    ASSUME IInv, NEW k \in Worker,
           \/ InvalidDecision(k) \/ PolicyBlocks(k) \/ ClockExpires(k) \/ GraphRaises(k)
           \/ CommitFails(k) \/ Crash(k)
    PROVE  Moves(k)
<1>0. workers \in [Worker -> WorkerState] /\ workers[k] \in WorkerState /\ faults \in Nat
    BY JobAssumption DEF IInv, TypeOK
<1>1. ASSUME NEW p \in {"raised", "failing"}, NEW tr \in BOOLEAN, ~At(k, "idle"), Fault,
             workers' = [workers EXCEPT ![k].pc = p, ![k].transient = tr],
             UNCHANGED <<tables, threads>>
      PROVE  Moves(k)
    <2> DEFINE w == [workers[k] EXCEPT !.pc = p, !.transient = tr]
    <2>1. workers' = [workers EXCEPT ![k] = w]
        BY <1>1, Zenon
    <2>2. w \in WorkerState
        BY <1>0, MovedWorker
    <2>3. w.pc = p /\ w.job = workers[k].job
        BY <1>0 DEF WorkerState
    <2>4. faults' # faults
        BY <1>0, <1>1 DEF Fault
    <2> HIDE DEF w
    <2> QED
        BY <1>1, <2>1, <2>2, <2>3, <2>4 DEF Moves, tables, JobOf
<1>2. ASSUME NEW p \in {"raised", "failing"}, ~At(k, "idle"), ~At(k, "graph"),
             workers' = [workers EXCEPT ![k].pc = p], UNCHANGED <<tables, threads>>
      PROVE  Moves(k)
    <2> DEFINE w == [workers[k] EXCEPT !.pc = p]
    <2>1. workers' = [workers EXCEPT ![k] = w]
        BY <1>2
    <2>2. w \in WorkerState /\ w.pc = p /\ w.job = workers[k].job
          /\ w.transient = workers[k].transient
        BY <1>0 DEF WorkerState
    <2> HIDE DEF w
    <2> QED
        BY <1>2, <2>1, <2>2 DEF Moves, tables, JobOf
<1>3. CASE InvalidDecision(k)
    BY <1>2, <1>3 DEF InvalidDecision, At
<1>4. CASE PolicyBlocks(k)
    BY <1>2, <1>4 DEF PolicyBlocks, At
<1>5. CASE GraphRaises(k)
    BY <1>1, <1>5 DEF GraphRaises, InvokeRaises, At
<1>6. CASE CommitFails(k)
    BY <1>1, <1>6 DEF CommitFails, At
<1>7. CASE ClockExpires(k)
    <2> DEFINE w == [workers[k] EXCEPT !.late = TRUE]
    <2>1. workers' = [workers EXCEPT ![k] = w] /\ At(k, "graph")
        BY <1>7 DEF ClockExpires
    <2>2. w \in WorkerState /\ w.pc = workers[k].pc /\ w.job = workers[k].job
          /\ w.run = workers[k].run /\ w.transient = workers[k].transient
        BY <1>0 DEF WorkerState
    <2> HIDE DEF w
    <2> QED
        BY <1>7, <2>1, <2>2 DEF ClockExpires, Moves, tables, JobOf, At
<1>8. CASE Crash(k)
    <2>1. IdleWorker \in WorkerState
        BY JobAssumption DEF IdleWorker, WorkerState, NewThread, Thread, None
    <2> QED
        BY <1>8, <2>1 DEF Crash, Moves, tables, IdleWorker
<1> QED
    BY <1>3, <1>4, <1>5, <1>6, <1>7, <1>8

\* graph.invoke has returned, and its end is stored.
LEMMA ReturnsShape ==
    ASSUME IInv, NEW k \in Worker, ~At(k, "idle"), Returned(k),
           UNCHANGED <<jobs, job_count, exec_count, threads>>
    PROVE  Reports(k)
<1> DEFINE w == [workers[k] EXCEPT !.pc = IF workers[k].late THEN "failing" ELSE "finalize"]
<1>0. workers[k] \in WorkerState
    BY DEF IInv, TypeOK
<1>1. workers' = [workers EXCEPT ![k] = w]
    BY DEF Returned
<1>2. /\ w \in WorkerState /\ w.pc \in {"failing", "finalize"}
      /\ w.job = workers[k].job /\ w.run = workers[k].run /\ w.transient = workers[k].transient
    BY <1>0 DEF WorkerState
<1> HIDE DEF w
<1> QED
    BY <1>1, <1>2 DEF Reports, JobOf

\* graph.invoke has raised.
LEMMA RaisesShape ==
    ASSUME IInv, NEW k \in Worker, ~At(k, "idle"), InvokeRaises(k),
           UNCHANGED <<jobs, job_count, executions, exec_count, workflow, threads>>
    PROVE  Moves(k)
<1>0. workers[k] \in WorkerState /\ faults \in Nat
    BY JobAssumption DEF IInv, TypeOK
<1>1. PICK p \in {"raised", "failing"}, tr \in BOOLEAN :
         workers' = [workers EXCEPT ![k].pc = p, ![k].transient = tr]
    BY DEF InvokeRaises
<1> DEFINE w == [workers[k] EXCEPT !.pc = p, !.transient = tr]
<1>2. workers' = [workers EXCEPT ![k] = w]
    BY <1>1, Zenon
<1>3. w \in WorkerState
    BY <1>0, MovedWorker
<1>4. w.pc = p /\ w.job = workers[k].job
    BY <1>0 DEF WorkerState
<1>5. faults' # faults
    BY <1>0 DEF InvokeRaises, Fault
<1> HIDE DEF w
<1> QED
    BY <1>2, <1>3, <1>4, <1>5 DEF Moves, JobOf

\* The thread goes on.
LEMMA TakesShape ==
    ASSUME IInv, NEW k \in Worker, InvokeResume(k) \/ GraphStep(k)
    PROVE  \E t \in Thread : Takes(k, t)
<1>0. workers[k] \in WorkerState /\ workers[k].run \in Thread
    BY DEF IInv, TypeOK, WorkerState
<1>1. ASSUME NEW t \in Thread, NEW w0 \in WorkerState, w0 = workers[k]
      PROVE  LET w == [w0 EXCEPT !.pc = "graph", !.run = t]
             IN  /\ w \in WorkerState /\ w.pc = "graph" /\ w.job = w0.job /\ w.run = t
                 /\ w.transient = w0.transient
    BY DEF WorkerState
<1>2. CASE InvokeResume(k)
    <2> DEFINE t == Resumed(threads[ExecutionOf(k)], TypeOf(k))
               w == [workers[k] EXCEPT !.pc = "graph", !.run = t]
    <2>1. JobOf(k) \in JobId /\ JobOf(k) <= job_count /\ job_count > 0
        BY <1>2, Holder DEF InvokeResume, At
    <2>2. ExecutionOf(k) \in ExecutionId
        BY <1>2, <2>1 DEF IInv, QueueInv, InvokeResume, TypeOf, ExecutionOf, JobId
    <2>3. threads[ExecutionOf(k)] \in Thread /\ RoundsLeft(threads[ExecutionOf(k)])
        BY <2>2 DEF IInv, TypeOK, RoundsInv
    <2>4. t \in Thread
        BY <1>2, <2>3, ThreadTypes DEF InvokeResume
    <2>5. /\ workers' = [workers EXCEPT ![k].pc = "graph", ![k].run = t]
          /\ threads' = [threads EXCEPT ![ExecutionOf(k)] = t]
          /\ At(k, "claimed") /\ TypeOf(k) \in {"approve", "revise"}
          /\ UNCHANGED <<jobs, job_count, executions, exec_count, workflow>>
        BY <1>2 DEF InvokeResume, tables
    <2>6. t = Resumed(threads[ExecutionOf(k)], TypeOf(k))
        OBVIOUS
    <2> HIDE DEF t
    <2>7. workers' = [workers EXCEPT ![k] = w]
        BY <2>5, Zenon
    <2>8. w \in WorkerState /\ w.pc = "graph" /\ w.job = workers[k].job /\ w.run = t
          /\ w.transient = workers[k].transient
        BY <1>0, <1>1, <2>4
    <2> HIDE DEF w
    <2> QED
        BY <2>4, <2>5, <2>6, <2>7, <2>8 DEF Takes, JobOf
<1>3. CASE GraphStep(k)
    <2>1. PICK t \in Successors(workers[k].run, Hitl(k)) :
             /\ threads' = [threads EXCEPT ![ExecutionOf(k)] = t]
             /\ workers' = [workers EXCEPT ![k].run = t]
        BY <1>3 DEF GraphStep
    <2>2. t \in Thread
        BY <1>0, <2>1 DEF Successors, Thread
    <2> DEFINE w == [workers[k] EXCEPT !.run = t]
    <2>3. workers' = [workers EXCEPT ![k] = w] /\ At(k, "graph")
        BY <1>3, <2>1 DEF GraphStep
    <2>4. w \in WorkerState /\ w.pc = workers[k].pc /\ w.job = workers[k].job /\ w.run = t
          /\ w.transient = workers[k].transient
        BY <1>0, <2>2 DEF WorkerState
    <2> HIDE DEF w
    <2> QED
        BY <1>3, <2>1, <2>2, <2>3, <2>4 DEF GraphStep, Takes, JobOf, At, tables
<1> QED
    BY <1>2, <1>3

\* The job is let go.
LEMMA SettlesShape ==
    ASSUME IInv, NEW k \in Worker, FinalizeJob(k) \/ FailJob(k) \/ HandleFailure(k)
    PROVE  \E s \in Left : SettlesAs(k, s)
<1> USE DEF Settle, Settles, SettlesAs, Left, At, bounds
<1>1. CASE FinalizeJob(k)
    BY <1>1 DEF FinalizeJob
<1>2. CASE FailJob(k)
    BY <1>2 DEF FailJob
<1>3. CASE HandleFailure(k)
    <2>1. CASE workers[k].transient /\ AttemptsLeft(jobs[JobOf(k)])
        BY <1>3, <2>1 DEF HandleFailure, AttemptsLeft
    <2>2. CASE ~(workers[k].transient /\ AttemptsLeft(jobs[JobOf(k)]))
        BY <1>3, <2>2 DEF HandleFailure
    <2> QED
        BY <2>1, <2>2
<1> QED
    BY <1>1, <1>2, <1>3

\* Every action of a worker is one of these.
LEMMA OwnEffects ==
    ASSUME IInv, NEW k \in Worker, Own(k)
    PROVE  OwnShape(k)
<1>1. CASE \/ InvalidDecision(k) \/ PolicyBlocks(k) \/ ClockExpires(k) \/ GraphRaises(k)
           \/ CommitFails(k) \/ Crash(k)
    BY <1>1, MovesShape DEF OwnShape
<1>2. CASE InvokeResume(k) \/ GraphStep(k)
    BY <1>2, TakesShape DEF OwnShape
<1>3. CASE FinalizeJob(k) \/ FailJob(k) \/ HandleFailure(k)
    BY <1>3, SettlesShape DEF OwnShape
<1>4. CASE Checkpoint(k)
    <2>1. Reports(k)
        BY <1>4, ReturnsShape DEF Checkpoint, At
    <2> QED
        BY <1>4, <2>1 DEF Checkpoint, Fault, Pauses, OwnShape
<1>5. CASE PersistFinal(k)
    <2>1. At(k, "graph") /\ ~At(k, "idle") /\ workers[k].run.phase \in {"released", "failed"}
          /\ UNCHANGED <<jobs, job_count, exec_count, threads>>
        BY <1>5 DEF PersistFinal, At
    <2>2. CASE PersistFails(k) /\ UNCHANGED <<executions, workflow>>
        BY <2>1, <2>2, RaisesShape DEF PersistFails, OwnShape
    <2>3. CASE /\ Returned(k)
               /\ workflow' = FinalStatus(workers[k].run)
               /\ executions' = [executions EXCEPT ![ExecutionOf(k)] = Stored(workers[k].run)]
        BY <2>1, <2>3, ReturnsShape DEF Ends, OwnShape
    <2> QED
        BY <1>5, <2>2, <2>3 DEF PersistFinal, Stored
<1>6. CASE Claim(k) \/ StartExecution(k)
    BY <1>6 DEF OwnShape
<1> QED
    BY <1>1, <1>2, <1>3, <1>4, <1>5, <1>6 DEF Own, Work

-----------------------------------------------------------------------------
(***************************************************************************)
(* The invariant of one worker is kept by every step.                      *)
(***************************************************************************)

\* A result is released and stored.
Real(e) == threads[e].phase = "released" /\ executions[e].final = "COMPLETED"

\* A request writes one fresh row, or nothing happens at all.
Asks(job) ==
    /\ Enqueue(job)
    /\ job \in Job /\ job.status = "queued" /\ job.attempts = 0 /\ job.execution <= exec_count
    /\ job_count > 0 => exec_count > 0 /\ executions[exec_count].checkpoint = "AWAITING_HUMAN"
    /\ UNCHANGED <<executions, exec_count, threads, workers, faults>>

\* With one worker at work a step is a request or one of its actions.
LEMMA SoleCases ==
    ASSUME NEW k \in Worker, IInv, Alone(k), Alone(k)', [Next]_vars
    PROVE  (\E job \in Job : Asks(job)) \/ OwnShape(k) \/ UNCHANGED vars
<1>0. exec_count \in Nat /\ executions \in [ExecutionId -> Execution]
      /\ exec_count \in 0..MaxAttempts
    BY JobAssumption DEF IInv, TypeOK
<1>n. /\ NewJob.type = "run" /\ NewJob.attempts = 0 /\ NewJob.execution = 0
      /\ NewJob = [type |-> "run", status |-> "none", attempts |-> 0, execution |-> None,
                   hitl |-> FALSE, seen |-> 0]
    BY DEF NewJob, None
<1>1. ASSUME NEW hitl \in BOOLEAN, EnqueueShort(hitl)
      PROVE  \E job \in Job : Asks(job)
    <2> DEFINE job == [NewJob EXCEPT !.status = "queued", !.hitl = hitl]
    <2>1. job \in Job
        <3>1. \E e \in ExecutionId : e = 1
            BY JobAssumption DEF ExecutionId
        <3>2. "run" \in JobType /\ 0 \in 0..(MaxHumanRounds + 1)
            BY JobAssumption DEF JobType
        <3> QED
            BY <3>1, <3>2, QueuedJob
    <2>2. job.status = "queued" /\ job.attempts = 0 /\ job.execution = 0
        BY <1>n
    <2>3. Enqueue(job) /\ job_count = 0
          /\ UNCHANGED <<executions, exec_count, threads, workers, faults>>
        BY <1>1 DEF EnqueueShort, bounds
    <2> HIDE DEF job
    <2> QED
        BY <1>0, <2>1, <2>2, <2>3 DEF Asks
<1>2. ASSUME NEW type \in JobType \ {"run"}, EnqueueResume(type)
      PROVE  \E job \in Job : Asks(job)
    <2> DEFINE job == [NewJob EXCEPT !.status = "queued", !.type = type,
                           !.execution = exec_count, !.seen = executions[exec_count].round]
    <2>0. exec_count > 0 /\ executions[exec_count].checkpoint = "AWAITING_HUMAN"
        BY <1>2 DEF EnqueueResume
    <2>1. exec_count \in ExecutionId /\ executions[exec_count].round \in 0..(MaxHumanRounds + 1)
        BY <1>0, <2>0, JobAssumption DEF ExecutionId, Execution
    <2>2. job \in Job
        BY <2>1, QueuedJob
    <2>3. job.status = "queued" /\ job.attempts = 0 /\ job.execution = exec_count
        BY <1>n
    <2>4. Enqueue(job) /\ UNCHANGED <<executions, exec_count, threads, workers, faults>>
        BY <1>2 DEF EnqueueResume, bounds
    <2> HIDE DEF job
    <2> QED
        BY <1>0, <2>0, <2>2, <2>3, <2>4 DEF Asks
<1> QED
    BY <1>1, <1>2, AloneStep, OwnEffects DEF IInv

\* Worker k, when it has a thread in hand.
LEMMA InHand ==
    ASSUME NEW k \in Worker, IInv, SoleInv(k), NEW t, Takes(k, t)
    PROVE  /\ ExecutionOf(k) \in ExecutionId
           /\ t # threads[ExecutionOf(k)] => threads[ExecutionOf(k)].phase # "released"
<1>1. CASE At(k, "claimed") /\ TypeOf(k) \in {"approve", "revise"}
           /\ t = Resumed(threads[ExecutionOf(k)], TypeOf(k))
    <2>1. ExecutionOf(k) \in ExecutionId
        BY <1>1, Holder DEF At
    <2> QED
        BY <1>1, <2>1 DEF Resumed
<1>2. CASE At(k, "graph") /\ t \in Successors(workers[k].run, Hitl(k))
    <2>1. ExecutionOf(k) \in ExecutionId /\ workers[k].run = threads[ExecutionOf(k)]
        BY <1>2 DEF SoleInv, HandsInv
    <2>2. workers[k].run.phase # "released"
        BY <1>2 DEF Successors
    <2> QED
        BY <2>1, <2>2
<1> QED
    BY <1>1, <1>2 DEF Takes

\* With one worker, a stored release is for good.
LEMMA RealStays ==
    ASSUME NEW k \in Worker, IInv, SoleInv(k), Alone(k), Alone(k)', [Next]_vars,
           NEW e \in ExecutionId, Real(e)
    PROVE  Real(e)'
<1>0. /\ executions \in [ExecutionId -> Execution] /\ threads \in [ExecutionId -> Thread]
      /\ exec_count \in Nat
    BY JobAssumption DEF IInv, TypeOK
<1>1. ASSUME NEW t, Takes(k, t)
      PROVE  Real(e)'
    <2>1. threads' = [threads EXCEPT ![ExecutionOf(k)] = t] /\ executions' = executions
        BY <1>1 DEF Takes
    <2>2. threads'[e] = threads[e]
        BY <1>0, <1>1, <2>1, InHand DEF Real
    <2> QED
        BY <2>1, <2>2 DEF Real
<1>2. CASE Pauses(k)
    <2>1. \A x \in Execution : Paused(x, workers[k].run).final = x.final
        BY DEF Paused, Execution
    <2> QED
        BY <1>0, <1>2, <2>1 DEF Pauses, Reports, Real
<1>3. CASE Ends(k)
    <2>1. ExecutionOf(k) \in ExecutionId /\ workers[k].run = threads[ExecutionOf(k)]
        BY <1>3 DEF Ends, SoleInv, HandsInv
    <2>2. executions' = [executions EXCEPT ![ExecutionOf(k)] = Stored(workers[k].run)]
          /\ threads' = threads
        BY <1>3 DEF Ends, Reports
    <2>3. Stored(threads[e]).final = "COMPLETED"
        BY DEF Real, Stored, FinalStatus
    <2> QED
        BY <1>0, <2>1, <2>2, <2>3 DEF Real
<1>4. CASE UNCHANGED <<threads, executions>>
    BY <1>4 DEF Real
<1> QED
    BY <1>1, <1>2, <1>3, <1>4, SoleCases DEF OwnShape, Asks, Claim, StartExecution, Moves,
       SettlesAs, Settles, vars, tables

\* What a row names as its execution has been started.
LEMMA StartedStep ==
    ASSUME NEW k \in Worker, IInv, IInv', SoleInv(k), Alone(k), Alone(k)', [Next]_vars
    PROVE  StartedInv'
<1>0. /\ executions \in [ExecutionId -> Execution] /\ threads \in [ExecutionId -> Thread]
      /\ exec_count \in Nat /\ jobs \in [JobId -> Job] /\ job_count \in Nat
      /\ \A e \in ExecutionId : e \in Nat
    BY JobAssumption DEF IInv, TypeOK, ExecutionId
<1>i. /\ \A e \in ExecutionId : e > exec_count => threads[e] = NewThread /\ executions[e] = NewExecution
      /\ \A j \in JobId : jobs[j].execution <= exec_count
    BY DEF SoleInv, StartedInv
<1> SUFFICES
      /\ \A e \in ExecutionId : e > exec_count' =>
            threads'[e] = NewThread /\ executions'[e] = NewExecution
      /\ \A j \in JobId : jobs'[j].execution <= exec_count'
    BY DEF StartedInv
\* Who has a thread in hand has a started one.
<1>h. ASSUME ~At(k, "idle")
      PROVE  JobOf(k) \in JobId /\ ExecutionOf(k) <= exec_count
    BY <1>i, <1>h, Holder DEF ExecutionOf
<1>1. ASSUME NEW job \in Job, Asks(job)
      PROVE  \A j \in JobId : jobs'[j].execution <= exec_count'
    BY <1>0, <1>i, <1>1 DEF Asks, Enqueue
<1>2. CASE Claim(k)
    <2>1. \A x \in Job : Claimed(x).execution = x.execution
        BY DEF Claimed, Job
    <2> QED
        BY <1>0, <1>i, <1>2, <2>1 DEF Claim, Claimable
<1>3. CASE StartExecution(k)
    <2>1. ~At(k, "idle") /\ exec_count' = exec_count + 1
          /\ jobs' = [jobs EXCEPT ![JobOf(k)].execution = exec_count + 1]
          /\ UNCHANGED <<threads, executions>>
        BY <1>3 DEF StartExecution, At
    <2>2. \A j \in JobId : jobs[j].execution \in Nat
        BY <1>0, JobAssumption DEF Job, ExecutionId, None
    <2>3. \A j \in JobId : jobs'[j].execution <= exec_count + 1
        BY <1>0, <1>i, <1>h, <2>1, <2>2 DEF Job
    <2> QED
        BY <1>0, <1>i, <2>1, <2>3
<1>4. CASE Pauses(k) \/ Ends(k) \/ \E t \in Thread : Takes(k, t)
    <2>1. ~At(k, "idle") /\ UNCHANGED <<jobs, exec_count>>
        BY <1>4 DEF Pauses, Ends, Takes, Reports, At
    <2>2. ExecutionOf(k) <= exec_count
        BY <1>h, <2>1
    <2>3. ASSUME NEW e \in ExecutionId, e > exec_count
          PROVE  threads'[e] = threads[e] /\ executions'[e] = executions[e]
        <3>1. e # ExecutionOf(k)
            BY <1>0, <2>2, <2>3
        <3>2. threads' = threads \/ \E t : threads' = [threads EXCEPT ![ExecutionOf(k)] = t]
            BY <1>4 DEF Pauses, Ends, Takes, Reports
        <3>3. executions' = executions
              \/ \E x : executions' = [executions EXCEPT ![ExecutionOf(k)] = x]
            BY <1>4 DEF Pauses, Ends, Takes
        <3> QED
            BY <1>0, <2>3, <3>1, <3>2, <3>3
    <2> QED
        BY <1>i, <2>1, <2>3
<1>5. ASSUME NEW s \in Left, SettlesAs(k, s)
      PROVE  \A j \in JobId : jobs'[j].execution = jobs[j].execution
    BY <1>0, <1>5 DEF SettlesAs, Settles, Job
<1>6. CASE UNCHANGED <<threads, executions, exec_count, jobs>>
    BY <1>i, <1>6
<1>7. ASSUME NEW s \in Left, SettlesAs(k, s)
      PROVE  UNCHANGED <<threads, executions, exec_count>>
    BY <1>7 DEF SettlesAs, Settles
<1>8. ASSUME NEW job \in Job, Asks(job)
      PROVE  UNCHANGED <<threads, executions, exec_count>>
    BY <1>8 DEF Asks
<1>9. CASE Moves(k) \/ UNCHANGED vars
    BY <1>6, <1>9 DEF Moves, vars, tables
<1> QED
    BY <1>i, <1>1, <1>2, <1>3, <1>4, <1>5, <1>7, <1>8, <1>9, SoleCases DEF OwnShape

\* Worker k holds its thread as it is, and reports an end that is stored.
LEMMA HandsStep ==
    ASSUME NEW k \in Worker, IInv, IInv', SoleInv(k), Alone(k), Alone(k)', [Next]_vars
    PROVE  HandsInv(k)'
<1> DEFINE e == ExecutionOf(k)
           After(w, rows, ts, exes) ==
             /\ w.pc \in {"graph", "finalize"} =>
                  rows[w.job].execution \in ExecutionId /\ w.run = ts[rows[w.job].execution]
             /\ w.pc = "finalize" /\ w.run.phase # "review" =>
                  exes[rows[w.job].execution].final = FinalStatus(w.run)
<1>0. /\ executions \in [ExecutionId -> Execution] /\ threads \in [ExecutionId -> Thread]
      /\ exec_count \in Nat /\ jobs \in [JobId -> Job] /\ job_count \in Nat
      /\ workers \in [Worker -> WorkerState] /\ workers[k] \in WorkerState
    BY JobAssumption DEF IInv, TypeOK, ExecutionId
<1>i. After(workers[k], jobs, threads, executions)
    BY DEF SoleInv, HandsInv, At, JobOf, ExecutionOf
<1> SUFFICES After(workers'[k], jobs', threads', executions')
    BY DEF HandsInv, At, JobOf, ExecutionOf
<1>g. At(k, "graph") => e \in ExecutionId /\ workers[k].run = threads[e]
    BY DEF SoleInv, HandsInv
<1>1. ASSUME NEW job \in Job, Asks(job)
      PROVE  After(workers'[k], jobs', threads', executions')
    <2>1. ~At(k, "idle") => jobs'[JobOf(k)] = jobs[JobOf(k)]
        BY <1>0, <1>1, Holder, JobAssumption DEF Asks, Enqueue, JobId
    <2> QED
        BY <1>1, <1>i, <2>1 DEF Asks, At, JobOf
<1>2. CASE Claim(k) \/ \E s \in Left : SettlesAs(k, s)
    <2>1. workers'[k].pc \in {"claimed", "idle"}
        <3>1. \A j : [IdleWorker EXCEPT !.pc = "claimed", !.job = j].pc = "claimed"
            BY DEF IdleWorker
        <3>2. IdleWorker.pc = "idle"
            BY DEF IdleWorker
        <3>3. CASE Claim(k)
            <4>1. PICK j : workers' = [workers EXCEPT ![k] = [IdleWorker EXCEPT !.pc = "claimed", !.job = j]]
                BY <3>3 DEF Claim
            <4>2. workers'[k] = [IdleWorker EXCEPT !.pc = "claimed", !.job = j]
                BY <1>0, <4>1
            <4> QED
                BY <3>1, <4>2
        <3> QED
            BY <1>0, <1>2, <3>2, <3>3 DEF SettlesAs, Settles
    <2> QED
        BY <2>1
<1>3. CASE StartExecution(k)
    <2>1. /\ JobOf(k) \in JobId /\ workers[k].run = NewThread
          /\ jobs' = [jobs EXCEPT ![JobOf(k)].execution = exec_count + 1]
          /\ workers' = [workers EXCEPT ![k].pc = "graph"]
          /\ exec_count' = exec_count + 1 /\ threads' = threads
        BY <1>3, Holder DEF StartExecution, At, IInv, HolderInv
    <2>2. exec_count + 1 \in ExecutionId
        BY <1>0, <2>1, JobAssumption DEF IInv, TypeOK, ExecutionId
    <2>3. threads[exec_count + 1] = NewThread
        BY <1>0, <2>2 DEF SoleInv, StartedInv
    <2>4. workers'[k].pc = "graph" /\ workers'[k].job = JobOf(k) /\ workers'[k].run = NewThread
        BY <1>0, <2>1 DEF WorkerState, JobOf
    <2>5. jobs'[JobOf(k)].execution = exec_count + 1
        BY <1>0, <2>1 DEF Job
    <2> QED
        BY <2>1, <2>2, <2>3, <2>4, <2>5
<1>4. CASE Moves(k)
    <2>1. PICK w \in WorkerState :
            /\ workers' = [workers EXCEPT ![k] = w]
            /\ \/ w.pc \in {"raised", "failing"}
               \/ w.pc = "idle"
               \/ w.pc = "graph" /\ At(k, "graph") /\ w.job = JobOf(k) /\ w.run = workers[k].run
        BY <1>4 DEF Moves
    <2>2. workers'[k] = w
        BY <1>0, <2>1
    <2> QED
        BY <1>4, <1>i, <2>1, <2>2 DEF Moves, JobOf, At
<1>5. CASE Pauses(k)
    <2>1. PICK w \in WorkerState :
            /\ workers' = [workers EXCEPT ![k] = w]
            /\ w.pc \in {"failing", "finalize"} /\ w.job = JobOf(k) /\ w.run = workers[k].run
        BY <1>5 DEF Pauses, Reports
    <2>2. workers'[k] = w
        BY <1>0, <2>1
    <2> QED
        BY <1>5, <1>g, <2>1, <2>2 DEF Pauses, Reports, ExecutionOf
<1>6. CASE Ends(k)
    <2>1. PICK w \in WorkerState :
            /\ workers' = [workers EXCEPT ![k] = w]
            /\ w.pc \in {"failing", "finalize"} /\ w.job = JobOf(k) /\ w.run = workers[k].run
        BY <1>6 DEF Ends, Reports
    <2>2. workers'[k] = w
        BY <1>0, <2>1
    <2>3. executions'[e] = Stored(workers[k].run)
        BY <1>0, <1>6, <1>g DEF Ends
    <2>4. Stored(workers[k].run).final = FinalStatus(workers[k].run)
        BY DEF Stored
    <2>5. jobs' = jobs /\ threads' = threads /\ At(k, "graph")
        BY <1>6 DEF Ends, Reports
    <2> QED
        BY <1>g, <2>1, <2>2, <2>3, <2>4, <2>5 DEF ExecutionOf
<1>7. ASSUME NEW t \in Thread, Takes(k, t)
      PROVE  After(workers'[k], jobs', threads', executions')
    <2>1. PICK w \in WorkerState :
            /\ workers' = [workers EXCEPT ![k] = w]
            /\ w.pc = "graph" /\ w.job = JobOf(k) /\ w.run = t
        BY <1>7 DEF Takes
    <2>2. workers'[k] = w
        BY <1>0, <2>1
    <2>3. e \in ExecutionId
        BY <1>7, InHand
    <2>4. threads'[e] = t /\ jobs' = jobs
        BY <1>0, <1>7, <2>3 DEF Takes
    <2> QED
        BY <2>1, <2>2, <2>3, <2>4 DEF ExecutionOf
<1>8. CASE UNCHANGED vars
    BY <1>8, <1>i DEF vars, tables
<1> QED
    BY <1>1, <1>2, <1>3, <1>4, <1>5, <1>6, <1>7, <1>8, SoleCases DEF OwnShape

\* What is stored as completed has been released, and is what a job that
\* succeeds reports.
LEMMA StoredStep ==
    ASSUME NEW k \in Worker, IInv, IInv', SoleInv(k), Alone(k), Alone(k)', [Next]_vars
    PROVE  StoredInv' /\ DeliveredIsReal'
<1> DEFINE RealAfter(e) == threads'[e].phase = "released" /\ executions'[e].final = "COMPLETED"
<1>0. /\ executions \in [ExecutionId -> Execution] /\ threads \in [ExecutionId -> Thread]
      /\ jobs \in [JobId -> Job] /\ job_count \in Nat
    BY JobAssumption DEF IInv, TypeOK
<1>c. (\E job \in Job : Asks(job)) \/ OwnShape(k) \/ UNCHANGED vars
    BY SoleCases
<1>i. /\ \A e \in ExecutionId : executions[e].final = "COMPLETED" => Real(e)
      /\ \A j \in JobId : jobs[j].status = "succeeded" =>
            jobs[j].execution \in ExecutionId /\ Real(jobs[j].execution)
      /\ workflow = "COMPLETED" => \E e \in ExecutionId : Real(e)
    BY DEF SoleInv, StoredInv, DeliveredIsReal, Real
<1>1. ASSUME NEW e \in ExecutionId, executions'[e].final = "COMPLETED"
      PROVE  RealAfter(e)
    <2>1. CASE Real(e)
        BY <2>1, RealStays DEF Real
    <2>2. CASE ~Real(e)
        <3>1. executions[e].final # "COMPLETED"
            BY <1>i, <2>2
        <3>2. \A x \in Execution : Paused(x, workers[k].run).final = x.final
            BY DEF Paused, Execution
        <3>3. ~Pauses(k)
            BY <1>0, <1>1, <3>1, <3>2 DEF Pauses
        <3>4. executions' # executions
            BY <1>1, <3>1
        <3>5. Ends(k)
            BY <1>c, <3>3, <3>4 DEF OwnShape, Asks, Claim, StartExecution, Moves, Takes,
               SettlesAs, vars, tables
        <3>6. ExecutionOf(k) = e /\ Stored(workers[k].run).final = "COMPLETED"
            BY <1>0, <1>1, <3>1, <3>5 DEF Ends
        <3>7. workers[k].run.phase = "released"
            BY <3>6 DEF Stored, FinalStatus
        <3>8. workers[k].run = threads[e] /\ threads' = threads
            BY <3>5, <3>6 DEF Ends, Reports, SoleInv, HandsInv
        <3> QED
            BY <1>1, <3>7, <3>8 DEF Real
    <2> QED
        BY <2>1, <2>2
<1>2. ASSUME NEW s \in Left, SettlesAs(k, s), s = "succeeded"
      PROVE  ExecutionOf(k) \in ExecutionId /\ Real(ExecutionOf(k))
    <2>1. At(k, "finalize") /\ workers[k].run.phase = "released"
        BY <1>2 DEF SettlesAs
    <2>2. /\ ExecutionOf(k) \in ExecutionId /\ workers[k].run = threads[ExecutionOf(k)]
          /\ executions[ExecutionOf(k)].final = FinalStatus(workers[k].run)
        BY <2>1 DEF SoleInv, HandsInv
    <2> QED
        BY <2>1, <2>2 DEF Real, FinalStatus
<1>3. ASSUME NEW j \in JobId, jobs'[j].status = "succeeded"
      PROVE  jobs'[j].execution \in ExecutionId /\ RealAfter(jobs'[j].execution)
    <2>1. CASE jobs[j].status = "succeeded"
        <3>1. jobs'[j] = jobs[j]
            BY <2>1, SettledRow
        <3>2. jobs[j].execution \in ExecutionId /\ Real(jobs[j].execution)
            BY <1>i, <2>1
        <3>3. \A e \in ExecutionId : Real(e) => RealAfter(e)
            BY RealStays DEF Real
        <3> QED
            BY <3>1, <3>2, <3>3 DEF Real
    <2>2. CASE jobs[j].status # "succeeded"
        <3>1. ASSUME NEW job \in Job, Asks(job)
              PROVE  FALSE
            BY <1>0, <1>3, <2>2, <3>1 DEF Asks, Enqueue
        <3>2. ~Claim(k)
            <4>1. ASSUME NEW i \in JobId, jobs' = [jobs EXCEPT ![i] = Claimed(@)]
                  PROVE  jobs'[j].status \in {"running", jobs[j].status}
                <5>1. \A x \in Job : Claimed(x).status = "running"
                    BY DEF Claimed, Job
                <5>2. jobs'[j] = jobs[j] \/ jobs'[j] = Claimed(jobs[j])
                    BY <1>0, <4>1
                <5> QED
                    BY <1>0, <5>1, <5>2
            <4> QED
                BY <1>3, <2>2, <4>1 DEF Claim, Claimable
        <3>3. ~StartExecution(k)
            BY <1>0, <1>3, <2>2 DEF StartExecution, Job
        <3>4. jobs' # jobs
            BY <1>3, <2>2
        <3>5. PICK s \in Left : SettlesAs(k, s)
            BY <1>c, <3>1, <3>2, <3>3, <3>4 DEF OwnShape, Moves, Pauses, Ends, Reports, Takes,
               vars, tables
        <3>6. j = JobOf(k) /\ s = "succeeded" /\ jobs'[j].execution = jobs[j].execution
            BY <1>0, <1>3, <2>2, <3>5 DEF SettlesAs, Settles, Job
        <3>7. ExecutionOf(k) \in ExecutionId /\ Real(ExecutionOf(k))
            BY <1>2, <3>5, <3>6
        <3> QED
            BY <3>5, <3>6, <3>7 DEF Real, ExecutionOf, SettlesAs, Settles
    <2> QED
        BY <2>1, <2>2
<1>4. ASSUME workflow' = "COMPLETED"
      PROVE  \E e \in ExecutionId : RealAfter(e)
    <2>1. CASE workflow = "COMPLETED"
        BY <1>i, <2>1, RealStays DEF Real
    <2>2. ASSUME NEW s \in Left, SettlesAs(k, s)
          PROVE  \E e \in ExecutionId : RealAfter(e)
        BY <1>2, <1>4, <2>2, RealStays DEF Real, SettlesAs
    <2>3. CASE Ends(k)
        <3>1. /\ ExecutionOf(k) \in ExecutionId
              /\ FinalStatus(workers[k].run) = "COMPLETED"
              /\ executions' = [executions EXCEPT ![ExecutionOf(k)] = Stored(workers[k].run)]
            BY <1>4, <2>3 DEF Ends, SoleInv, HandsInv
        <3>2. executions'[ExecutionOf(k)].final = "COMPLETED"
            BY <1>0, <3>1 DEF Stored
        <3> QED
            BY <1>1, <3>1, <3>2
    <2>4. ASSUME NEW job \in Job, Asks(job)
          PROVE  FALSE
        BY <1>4, <2>4 DEF Asks, Enqueue
    <2>5. ~StartExecution(k)
        BY <1>4 DEF StartExecution
    <2>6. CASE Claim(k) \/ Moves(k) \/ Pauses(k) \/ (\E t \in Thread : Takes(k, t))
               \/ UNCHANGED vars
        BY <1>4, <2>1, <2>6 DEF Claim, Moves, Pauses, Takes, vars, tables
    <2> QED
        BY <1>c, <2>2, <2>3, <2>4, <2>5, <2>6 DEF OwnShape
<1>5. StoredInv'
    BY <1>1, <1>3 DEF StoredInv, Real
<1>6. DeliveredIsReal'
    BY <1>3, <1>4 DEF DeliveredIsReal, Real
<1> QED
    BY <1>5, <1>6

-----------------------------------------------------------------------------
(***************************************************************************)
(* Nothing is tried twice while no database call fails.                    *)
(***************************************************************************)

\* It starts with nothing stored and nothing in hand.
LEMMA SoleInit ==
    ASSUME NEW k \in Worker, Init
    PROVE  SoleInv(k) /\ CalmInv(k)
<1>1. StartedInv
    BY JobAssumption DEF Init, StartedInv, NewJob, None, JobId
<1>2. HandsInv(k)
    BY DEF Init, HandsInv, At, IdleWorker
<1>3. StoredInv /\ DeliveredIsReal
    BY DEF Init, StoredInv, DeliveredIsReal, NewExecution, NewJob
<1>4. CalmInv(k)
    BY DEF Init, CalmInv, FirstTryInv, OfferInv, IdleWorker
<1> QED
    BY <1>1, <1>2, <1>3, <1>4 DEF SoleInv

\* While no database call fails, nothing is put back: no job has a second try.
LEMMA FirstTryStep ==
    ASSUME NEW k \in Worker, IInv, IInv', SoleInv(k), FirstTryInv(k), Alone(k), Alone(k)', [Next]_vars,
           faults = 0, faults' = 0
    PROVE  FirstTryInv(k)'
<1>0. /\ jobs \in [JobId -> Job] /\ job_count \in 0..MaxJobs /\ job_count \in Nat
      /\ workers \in [Worker -> WorkerState] /\ workers[k] \in WorkerState
    BY JobAssumption DEF IInv, TypeOK
<1>i. /\ ~workers[k].transient
      /\ job_count > 0 => jobs[1].attempts <= (IF jobs[1].status = "queued" THEN 0 ELSE 1)
    BY DEF FirstTryInv
<1>j. job_count > 0 => 1 \in JobId
    BY <1>0, JobAssumption DEF JobId
<1> SUFFICES
      /\ ~workers'[k].transient
      /\ job_count' > 0 => jobs'[1].attempts <= (IF jobs'[1].status = "queued" THEN 0 ELSE 1)
    BY DEF FirstTryInv
<1>n. IdleWorker.transient = FALSE
    BY DEF IdleWorker
<1>1. ASSUME NEW job \in Job, Asks(job)
      PROVE  /\ workers' = workers
             /\ jobs'[1].attempts <= (IF jobs'[1].status = "queued" THEN 0 ELSE 1)
    <2>1. /\ workers' = workers /\ jobs' = [jobs EXCEPT ![job_count + 1] = job]
          /\ job.status = "queued" /\ job.attempts = 0 /\ job_count < MaxJobs
        BY <1>1 DEF Asks, Enqueue
    <2>2. CASE job_count = 0
        <3>1. jobs'[1] = job
            BY <1>0, <2>1, <2>2, JobAssumption DEF JobId
        <3> QED
            BY <2>1, <3>1
    <2>3. CASE job_count > 0
        BY <1>0, <1>i, <2>1, <2>3
    <2> QED
        BY <1>0, <2>2, <2>3
<1>2. CASE Claim(k)
    <2>1. PICK j \in Claimable :
            /\ jobs' = [jobs EXCEPT ![j] = Claimed(@)]
            /\ workers' = [workers EXCEPT ![k] = [IdleWorker EXCEPT !.pc = "claimed", !.job = j]]
        BY <1>2 DEF Claim
    <2>2. workers'[k] = [IdleWorker EXCEPT !.pc = "claimed", !.job = j] /\ job_count' = job_count
        BY <1>0, <1>2, <2>1 DEF Claim
    <2>3. \A i : [IdleWorker EXCEPT !.pc = "claimed", !.job = i].transient = FALSE
        BY DEF IdleWorker
    <2>4. j \in JobId /\ jobs[j].status = "queued"
        BY DEF Claimable
    <2>5. CASE j = 1 /\ job_count > 0
        <3>1. jobs[1].attempts <= 0 /\ jobs[1].attempts \in Nat
            BY <1>0, <1>i, <1>j, <2>4, <2>5, JobAssumption DEF Job
        <3>2. jobs'[1] = Claimed(jobs[1])
            BY <1>0, <2>1, <2>4, <2>5
        <3>3. Claimed(jobs[1]).attempts = jobs[1].attempts + 1 /\ Claimed(jobs[1]).status = "running"
            BY <1>0, <1>j, <2>5 DEF Claimed, Job
        <3> QED
            BY <2>2, <2>3, <3>1, <3>2, <3>3
    <2>6. CASE j # 1
        BY <1>0, <1>i, <2>1, <2>2, <2>3, <2>4, <2>6
    <2> QED
        BY <1>0, <2>2, <2>3, <2>5, <2>6
<1>3. CASE StartExecution(k)
    <2>1. /\ jobs' = [jobs EXCEPT ![JobOf(k)].execution = exec_count + 1]
          /\ workers' = [workers EXCEPT ![k].pc = "graph"] /\ job_count' = job_count
        BY <1>3 DEF StartExecution
    <2>2. workers'[k].transient = workers[k].transient
        BY <1>0, <2>1 DEF WorkerState
    <2>3. job_count > 0 => jobs'[1].attempts = jobs[1].attempts /\ jobs'[1].status = jobs[1].status
        BY <1>0, <1>j, <2>1 DEF Job
    <2> QED
        BY <1>i, <2>1, <2>2, <2>3
<1>4. ASSUME NEW s \in Left, SettlesAs(k, s)
      PROVE  ~workers'[k].transient
              /\ (job_count' > 0 => jobs'[1].attempts <= (IF jobs'[1].status = "queued" THEN 0 ELSE 1))
    <2>1. s # "queued" /\ workers'[k] = IdleWorker /\ job_count' = job_count
          /\ jobs' = [jobs EXCEPT ![JobOf(k)].status = s]
        BY <1>0, <1>i, <1>4 DEF SettlesAs, Settles
    <2>2. ASSUME job_count > 0
          PROVE  /\ jobs'[1].attempts = jobs[1].attempts
                 /\ jobs'[1].status = jobs[1].status \/ jobs'[1].status = s
        BY <1>0, <1>j, <2>1, <2>2 DEF Job
    <2>3. job_count > 0 => jobs[1].attempts <= 1 /\ jobs[1].attempts \in Nat
        BY <1>0, <1>i, <1>j, JobAssumption DEF Job
    <2> QED
        BY <1>n, <1>i, <2>1, <2>2, <2>3
<1>5. ASSUME UNCHANGED <<jobs, job_count>>,
             \E w \in WorkerState : /\ workers' = [workers EXCEPT ![k] = w]
                                    /\ ~w.transient
      PROVE  ~workers'[k].transient
              /\ (job_count' > 0 => jobs'[1].attempts <= (IF jobs'[1].status = "queued" THEN 0 ELSE 1))
    BY <1>0, <1>i, <1>5
<1>6. CASE Moves(k)
    BY <1>5, <1>6, <1>i DEF Moves
<1>7. CASE Pauses(k) \/ Ends(k)
    BY <1>5, <1>7, <1>i DEF Pauses, Ends, Reports
<1>8. ASSUME NEW t \in Thread, Takes(k, t)
      PROVE  ~workers'[k].transient
              /\ (job_count' > 0 => jobs'[1].attempts <= (IF jobs'[1].status = "queued" THEN 0 ELSE 1))
    BY <1>5, <1>8, <1>i DEF Takes
<1>9. CASE UNCHANGED vars
    BY <1>9, <1>i DEF vars, tables
<1> QED
    BY <1>i, <1>1, <1>2, <1>3, <1>4, <1>6, <1>7, <1>8, <1>9, SoleCases DEF OwnShape

\* Then the workflow has one execution at most.
LEMMA OneExecution ==
    ASSUME NEW k \in Worker, IInv, FirstTryInv(k)
    PROVE  exec_count <= 1
<1>1. exec_count \in Nat /\ job_count \in Nat /\ (job_count > 0 => jobs[1] \in Job)
    BY JobAssumption DEF IInv, TypeOK, JobId
<1>2. job_count > 0 => jobs[1].attempts \in Nat /\ exec_count <= jobs[1].attempts
    BY <1>1, JobAssumption DEF IInv, ExecutionInv, Job
<1>3. job_count > 0 => jobs[1].attempts <= 1
    BY <1>2 DEF FirstTryInv
<1>4. job_count = 0 => exec_count = 0
    BY DEF IInv, ExecutionInv
<1> QED
    BY <1>1, <1>2, <1>3, <1>4

\* An offer is taken back, or a job that is under way has taken the thread on.
LEMMA OfferStep ==
    ASSUME NEW k \in Worker, IInv, IInv', SoleInv(k), CalmInv(k), Alone(k), Alone(k)', [Next]_vars,
           faults = 0, faults' = 0
    PROVE  OfferInv(k)'
<1> DEFINE Offered == exec_count > 0 /\ executions[exec_count].checkpoint = "AWAITING_HUMAN"
           Waits == /\ threads[exec_count].phase = "review"
                    /\ threads[exec_count].rounds = executions[exec_count].round
           Open(j, row, w) ==
              /\ row.status = "running" /\ row.execution = exec_count
              /\ w.pc \in {"idle", "graph"} \/ w.job # j
           On(j) == Open(j, jobs[j], workers[k])
           On1(j) == Open(j, jobs'[j], workers'[k])
           Goal ==
              exec_count' > 0 /\ executions'[exec_count'].checkpoint = "AWAITING_HUMAN" =>
                \/ /\ threads'[exec_count'].phase = "review"
                   /\ threads'[exec_count'].rounds = executions'[exec_count'].round
                \/ \E j \in JobId : /\ jobs'[j].status = "running"
                                    /\ jobs'[j].execution = exec_count'
                                    /\ workers'[k].pc \in {"idle", "graph"} \/ workers'[k].job # j
<1>0. /\ jobs \in [JobId -> Job] /\ job_count \in Nat /\ exec_count \in 0..MaxAttempts
      /\ exec_count \in Nat /\ executions \in [ExecutionId -> Execution]
      /\ threads \in [ExecutionId -> Thread]
      /\ workers \in [Worker -> WorkerState] /\ workers[k] \in WorkerState
    BY JobAssumption DEF IInv, TypeOK
<1>x. exec_count <= 1
    BY OneExecution DEF CalmInv
<1>e. exec_count > 0 => exec_count \in ExecutionId
    BY <1>0 DEF ExecutionId
<1>i. Offered => Waits \/ \E j \in JobId : On(j)
    BY DEF CalmInv, OfferInv, Advances, At, JobOf
<1>h. ASSUME ~At(k, "idle"), ExecutionOf(k) \in ExecutionId
      PROVE  /\ exec_count = ExecutionOf(k) /\ JobOf(k) \in JobId
             /\ jobs[JobOf(k)].status = "running"
             /\ jobs[JobOf(k)].execution = exec_count
    BY <1>0, <1>x, <1>h, Holder DEF SoleInv, StartedInv, ExecutionId, ExecutionOf
<1> SUFFICES Goal
    BY DEF OfferInv, Advances, At, JobOf
<1>1. ASSUME UNCHANGED <<executions, exec_count, threads>>,
             \A j \in JobId : On(j) => On1(j)
      PROVE  Goal
    BY <1>1, <1>i
<1>2. ASSUME NEW job \in Job, Asks(job)
      PROVE  Goal
    <2>1. /\ UNCHANGED <<executions, exec_count, threads, workers>>
          /\ jobs' = [jobs EXCEPT ![job_count + 1] = job]
        BY <1>2 DEF Asks, Enqueue
    <2>2. ASSUME NEW j \in JobId, jobs[j].status = "running"
          PROVE  jobs'[j] = jobs[j]
        <3>1. j \in Nat /\ j <= job_count
            BY <1>0, <2>2, JobAssumption DEF JobId, IInv, QueueInv, NewJob
        <3> QED
            BY <1>0, <2>1, <3>1
    <2> QED
        BY <1>1, <2>1, <2>2
<1>3. CASE Claim(k)
    <2>1. PICK i \in Claimable :
            /\ jobs' = [jobs EXCEPT ![i] = Claimed(@)]
            /\ workers' = [workers EXCEPT ![k] = [IdleWorker EXCEPT !.pc = "claimed", !.job = i]]
        BY <1>3 DEF Claim
    <2>2. \A j : [IdleWorker EXCEPT !.pc = "claimed", !.job = j].job = j
        BY DEF IdleWorker
    <2>3. workers'[k].job = i
        BY <1>0, <2>1, <2>2
    <2>4. \A j \in JobId : jobs[j].status = "running" => j # i /\ jobs'[j] = jobs[j]
        BY <1>0, <2>1 DEF Claimable
    <2> QED
        BY <1>1, <1>3, <2>3, <2>4 DEF Claim
<1>4. CASE StartExecution(k)
    <2>1. exec_count' = exec_count + 1 /\ executions' = executions
        BY <1>4 DEF StartExecution
    <2>2. exec_count + 1 \in ExecutionId
        BY <1>0, <2>1, JobAssumption DEF IInv, TypeOK, ExecutionId
    <2>3. executions[exec_count + 1] = NewExecution
        BY <1>0, <2>2 DEF SoleInv, StartedInv
    <2>4. executions'[exec_count'].checkpoint = "none"
        BY <2>1, <2>3 DEF NewExecution
    <2> QED
        BY <2>4
<1>5. CASE Moves(k)
    <2>1. PICK w \in WorkerState :
            /\ workers' = [workers EXCEPT ![k] = w]
            /\ \/ w.pc \in {"raised", "failing"} /\ w.job = JobOf(k)
               \/ w.pc = "idle"
               \/ w.pc = "graph"
            /\ w.pc \in {"idle", "graph"} \/ ~At(k, "graph")
        BY <1>5 DEF Moves
    <2>2. workers'[k] = w
        BY <1>0, <2>1
    <2>3. UNCHANGED <<jobs, executions, exec_count, threads>> /\ ~At(k, "idle")
        BY <1>5 DEF Moves
    <2> QED
        BY <1>1, <2>1, <2>2, <2>3 DEF At, JobOf
<1>6. CASE Pauses(k)
    <2>1. /\ At(k, "graph") /\ workers[k].run.phase = "review"
          /\ executions' = [executions EXCEPT ![ExecutionOf(k)] = Paused(@, workers[k].run)]
          /\ UNCHANGED <<exec_count, threads>>
        BY <1>6 DEF Pauses, Reports
    <2>2. ExecutionOf(k) \in ExecutionId /\ workers[k].run = threads[ExecutionOf(k)]
        BY <2>1 DEF SoleInv, HandsInv
    <2>3. exec_count = ExecutionOf(k)
        BY <1>h, <2>1, <2>2 DEF At
    <2>4. executions'[exec_count] = Paused(executions[exec_count], workers[k].run)
        BY <1>0, <2>1, <2>2, <2>3
    <2>5. executions'[exec_count].round = workers[k].run.rounds
        BY <1>0, <2>2, <2>3, <2>4 DEF Paused, Execution
    <2> QED
        BY <2>1, <2>2, <2>3, <2>5
<1>7. CASE Ends(k)
    <2>1. /\ At(k, "graph") /\ exec_count' = exec_count
          /\ executions' = [executions EXCEPT ![ExecutionOf(k)] = Stored(workers[k].run)]
        BY <1>7 DEF Ends, Reports
    <2>2. ExecutionOf(k) \in ExecutionId
        BY <2>1 DEF SoleInv, HandsInv
    <2>3. exec_count = ExecutionOf(k)
        BY <1>h, <2>1, <2>2 DEF At
    <2>4. executions'[exec_count].checkpoint = FinalStatus(workers[k].run)
        BY <1>0, <2>1, <2>2, <2>3 DEF Stored
    <2> QED
        BY <2>1, <2>4 DEF FinalStatus
<1>8. ASSUME NEW t \in Thread, Takes(k, t)
      PROVE  Goal
    <2>1. PICK w \in WorkerState :
            /\ workers' = [workers EXCEPT ![k] = w] /\ w.pc = "graph"
        BY <1>8 DEF Takes
    <2>2. workers'[k].pc = "graph" /\ ~At(k, "idle") /\ UNCHANGED <<jobs, exec_count>>
        BY <1>0, <1>8, <2>1 DEF Takes, At
    <2>3. /\ exec_count = ExecutionOf(k) /\ JobOf(k) \in JobId
          /\ jobs[JobOf(k)].status = "running" /\ jobs[JobOf(k)].execution = exec_count
        BY <1>8, <1>h, <2>2, InHand
    <2> QED
        BY <2>2, <2>3
<1>9. ASSUME NEW s \in Left, SettlesAs(k, s)
      PROVE  Goal
    <2>1. /\ UNCHANGED <<executions, exec_count, threads>> /\ ~At(k, "idle") /\ ~At(k, "graph")
          /\ jobs' = [jobs EXCEPT ![JobOf(k)].status = s]
          /\ workers'[k] = IdleWorker
        BY <1>0, <1>9 DEF SettlesAs, Settles
    <2>2. IdleWorker.pc = "idle"
        BY DEF IdleWorker
    <2>3. \A j \in JobId : On(j) => j # JobOf(k) /\ jobs'[j] = jobs[j]
        BY <1>0, <2>1 DEF At, JobOf
    <2> QED
        BY <1>1, <2>1, <2>2, <2>3
<1>10. CASE UNCHANGED vars
    BY <1>1, <1>10 DEF vars, tables
<1> QED
    BY <1>2, <1>3, <1>4, <1>5, <1>6, <1>7, <1>8, <1>9, <1>10, SoleCases DEF OwnShape

\* What a worker does to its thread is a step of the promise.
LEMMA ThreadPromise ==
    ASSUME NEW k \in Worker, IInv, IInv', SoleInv(k), Alone(k), Alone(k)', [Next]_vars,
           NEW e \in ExecutionId
    PROVE  Run(e)!Next \/ UNCHANGED Run(e)!vars
<1> DEFINE Shown(t) == IF t.phase \in {"review", "approved", "released"} THEN t.rounds + 1 ELSE None
           Freed(t) == IF t.phase = "released" THEN t.rounds + 1 ELSE None
           old == threads[e]
           new == threads'[e]
<1>0. threads \in [ExecutionId -> Thread] /\ old \in Thread /\ RoundsLeft(old)
      /\ MaxHumanRounds \in Nat /\ old.rounds \in Nat
    BY JobAssumption DEF IInv, TypeOK, RoundsInv, Thread
<1>1. CASE new = old
    BY <1>1 DEF Run!vars
<1>2. ASSUME NEW p \in {"review", "approved", "released", "failed"},
             old.phase \in {"working", "approved"}, new = [old EXCEPT !.phase = p],
             old.phase = "working" => p # "released",
             old.phase = "approved" => p \in {"released", "failed"}
      PROVE  Run(e)!Next
    <2>1. new.phase = p /\ new.rounds = old.rounds
        BY <1>0, <1>2 DEF Thread
    <2>2. old.phase = "working" => old.rounds + 1 \in 1..(MaxHumanRounds + 1)
        BY <1>0 DEF RoundsLeft
    <2> HIDE DEF new
    <2>3. CASE old.phase = "working" /\ p \in {"review", "approved"}
        <3>1. Run(e)!Present(old.rounds + 1) \/ Run(e)!AutoApprove(old.rounds + 1)
            BY <2>1, <2>3 DEF Run!Present, Run!AutoApprove, None, new
        <3> QED
            BY <2>2, <2>3, <3>1 DEF Run!Next
    <2>4. CASE p = "failed"
        <3>1. Run(e)!Fail
            BY <1>2, <2>1, <2>4 DEF Run!Fail, None, new
        <3> QED
            BY <3>1 DEF Run!Next
    <2>5. CASE old.phase = "approved" /\ p = "released"
        <3>1. Run(e)!Release
            BY <2>1, <2>5 DEF Run!Release, None, new
        <3> QED
            BY <3>1 DEF Run!Next
    <2> QED
        BY <1>2, <2>3, <2>4, <2>5
<1>3. ASSUME NEW type \in {"approve", "revise"}, new = Resumed(old, type), old.phase = "review"
      PROVE  Run(e)!Next
    <2>1. CASE type = "approve" \/ ~EnvHitl
        <3>1. new = [old EXCEPT !.phase = "approved"]
            BY <1>3, <2>1 DEF Resumed, Answered
        <3>2. new.phase = "approved" /\ new.rounds = old.rounds
            BY <1>0, <3>1 DEF Thread
        <3>3. Run(e)!Approve
            BY <1>3, <3>2 DEF Run!Approve
        <3> QED
            BY <3>3 DEF Run!Next
    <2>2. CASE ~(type = "approve" \/ ~EnvHitl)
        <3>1. new = [phase |-> IF old.rounds + 1 > MaxHumanRounds THEN "failed" ELSE "working",
                     rounds |-> old.rounds + 1]
            BY <1>3, <2>2 DEF Resumed, Answered
        <3>2. new.rounds = old.rounds + 1
              /\ new.phase = IF old.rounds + 1 > MaxHumanRounds THEN "failed" ELSE "working"
            BY <3>1
        <3>3. old.rounds <= MaxHumanRounds
            BY <1>0, <1>3 DEF RoundsLeft
        <3> HIDE DEF old, new
        <3>4. CASE old.rounds < MaxHumanRounds
            <4>1. new.phase = "working"
                BY <1>0, <3>2, <3>4
            <4>2. Run(e)!SendBack
                BY <1>3, <3>2, <3>4, <4>1 DEF Run!SendBack, None, old, new
            <4> QED
                BY <4>2 DEF Run!Next
        <3>5. CASE old.rounds = MaxHumanRounds
            <4>1. new.phase = "failed"
                BY <1>0, <3>2, <3>5
            <4>2. Run(e)!GiveUp
                BY <1>3, <3>2, <3>5, <4>1 DEF Run!GiveUp, None, old, new
            <4> QED
                BY <4>2 DEF Run!Next
        <3> QED
            BY <1>0, <3>3, <3>4, <3>5
    <2> QED
        BY <2>1, <2>2
<1>4. ASSUME NEW t \in Thread, Takes(k, t)
      PROVE  Run(e)!Next \/ UNCHANGED Run(e)!vars
    <2>1. ExecutionOf(k) \in ExecutionId /\ threads' = [threads EXCEPT ![ExecutionOf(k)] = t]
        BY <1>4, InHand DEF Takes
    <2>2. CASE e # ExecutionOf(k)
        BY <1>0, <1>1, <2>1, <2>2
    <2>3. CASE e = ExecutionOf(k)
        <3>1. new = t
            BY <1>0, <2>1, <2>3
        <3>2. CASE TypeOf(k) \in {"approve", "revise"} /\ t = Resumed(old, TypeOf(k))
            BY <1>1, <1>3, <3>1, <3>2 DEF Resumed
        <3>3. CASE At(k, "graph") /\ t \in Successors(workers[k].run, Hitl(k))
            <4>1. workers[k].run = old
                BY <2>3, <3>3 DEF SoleInv, HandsInv
            <4>2. PICK p \in {"review", "approved", "released", "failed"} :
                    /\ t = [old EXCEPT !.phase = p]
                    /\ old.phase \in {"working", "approved"}
                    /\ old.phase = "working" => p # "released"
                    /\ old.phase = "approved" => p \in {"released", "failed"}
                BY <3>3, <4>1 DEF Successors
            <4> QED
                BY <1>2, <3>1, <4>2
        <3> QED
            BY <1>4, <2>3, <3>2, <3>3 DEF Takes
    <2> QED
        BY <2>2, <2>3
<1>5. CASE threads' = threads
    BY <1>1, <1>5
<1> QED
    BY <1>4, <1>5, SoleCases DEF OwnShape, Asks, Claim, StartExecution, Moves, Pauses, Ends,
       Reports, SettlesAs, Settles, vars

\* The invariant of one worker, in every run in which no other works.
LEMMA SoleStep ==
    ASSUME NEW k \in Worker, IInv, IInv', SoleInv(k), Alone(k), Alone(k)', [Next]_vars
    PROVE  SoleInv(k)'
<1>1. StartedInv' /\ HandsInv(k)' /\ StoredInv' /\ DeliveredIsReal'
    BY StartedStep, HandsStep, StoredStep
<1> QED
    BY <1>1 DEF SoleInv

-----------------------------------------------------------------------------
(***************************************************************************)
(* The theorems.                                                           *)
(***************************************************************************)

\* The invariant of one worker holds in every run in which no other works,
\* whatever crashes, times out or fails.
THEOREM SoleInvariance == ASSUME NEW k \in Worker PROVE SoleSpec(k) => [](IInv /\ SoleInv(k))
<1>1. Init => SoleInv(k)
    BY SoleInit
<1>2. IInv /\ IInv' /\ SoleInv(k) /\ Alone(k) /\ Alone(k)' /\ [Next]_vars => SoleInv(k)'
    BY SoleStep
<1> QED
    BY Invariance, <1>1, <1>2, PTL DEF SoleSpec, Spec

\* With one worker, no crash, retry or failing write leaves a job or a workflow
\* that succeeded without a released and stored result.
THEOREM SuccessIsReal == ASSUME NEW k \in Worker PROVE SoleSpec(k) => []DeliveredIsReal
<1>1. SoleInv(k) => DeliveredIsReal
    BY DEF SoleInv
<1> QED
    BY SoleInvariance, <1>1, PTL

\* With one worker, every checkpointed thread moves only as ReviewedRun allows:
\* it starts afresh, and each save of the checkpointer is a step of the promise.
THEOREM PromiseKept == ASSUME NEW k \in Worker PROVE SoleSpec(k) => ThreadsKeepPromise
<1>1. Init => \A e \in ExecutionId : Run(e)!Init
    BY DEF Init, Run!Init, NewThread, None
<1>2. IInv /\ IInv' /\ SoleInv(k) /\ Alone(k) /\ Alone(k)' /\ [Next]_vars
        => [\A e \in ExecutionId : Run(e)!Next \/ UNCHANGED Run(e)!vars]_threads
    BY ThreadPromise
<1> QED
    BY SoleInvariance, <1>1, <1>2, PTL DEF SoleSpec, Spec, ThreadsKeepPromise

\* Besides, while no database call fails, nothing is put back, and an offer is
\* current or a job that is under way has taken its thread on.
THEOREM CalmInvariance == ASSUME NEW k \in Worker PROVE CalmSpec(k) => []CalmInv(k)
<1>1. Init => CalmInv(k)
    BY SoleInit
<1>2. /\ IInv /\ IInv' /\ SoleInv(k) /\ CalmInv(k) /\ Alone(k) /\ Alone(k)' /\ [Next]_vars
      /\ faults = 0 /\ (faults = 0)'
      => CalmInv(k)'
    BY FirstTryStep, OfferStep DEF CalmInv
<1> QED
    BY SoleInvariance, <1>1, <1>2, PTL DEF CalmSpec, SoleSpec, Spec

\* What the API offers for review is what the thread waits on, as soon as no
\* job is under way (one worker, no failing database call).
THEOREM OfferIsCurrent == ASSUME NEW k \in Worker PROVE CalmSpec(k) => []PreviewIsCurrent
<1>1. IInv /\ CalmInv(k) => PreviewIsCurrent
    BY DEF CalmInv, OfferInv, Advances, PreviewIsCurrent
<1> QED
    BY SoleInvariance, CalmInvariance, <1>1, PTL DEF CalmSpec

\* What the API calls a success is stored.
LEMMA SeenSuccess ==
    ASSUME NEW k \in Worker, IInv, SoleInv(k), CalmInv(k), job_count > 0, ApiStatus = "succeeded"
    PROVE  exec_count = 1 /\ 1 \in ExecutionId /\ Real(1)
<1>0. /\ jobs \in [JobId -> Job] /\ job_count \in JobId
      /\ exec_count \in Nat /\ exec_count <= 1
    BY OneExecution, JobAssumption DEF IInv, TypeOK, CalmInv, JobId
<1> DEFINE job == jobs[job_count]
           exe == IF exec_count = 0 THEN NewExecution ELSE executions[exec_count]
<1>1. \/ exe.final = "COMPLETED"
      \/ exe.final = "none" /\ job.status = "succeeded"
    <2>1. CASE exe.final = "FAILED"
        BY <2>1 DEF ApiStatus
    <2>2. CASE exe.final \notin {"FAILED", "COMPLETED"} /\ ~(exe.final = "none" /\ job.status = "succeeded")
        <3>1. exe.final = "none"
            <4>1. 1 \in ExecutionId
                BY JobAssumption DEF ExecutionId
            <4>2. exe.final \in {"none", "COMPLETED", "FAILED"}
                BY <1>0, <4>1 DEF NewExecution, IInv, TypeOK, Execution
            <4> QED
                BY <2>2, <4>2
        <3>2. job.status # "succeeded"
            BY <2>2, <3>1
        <3> HIDE DEF exe, job
        <3> QED
            BY <3>1, <3>2 DEF ApiStatus, exe, job
    <2> QED
        BY <2>1, <2>2
<1>2. ASSUME NEW e \in ExecutionId, e <= exec_count, Real(e)
      PROVE  exec_count = 1 /\ 1 \in ExecutionId /\ Real(1)
    BY <1>0, <1>2 DEF ExecutionId
<1>3. CASE exe.final = "COMPLETED"
    <2>1. exec_count = 1 /\ 1 \in ExecutionId
        BY <1>0, <1>3, JobAssumption DEF NewExecution, ExecutionId
    <2> QED
        BY <1>3, <2>1 DEF SoleInv, StoredInv, Real
<1>4. CASE job.status = "succeeded"
    <2>1. /\ job.execution \in ExecutionId /\ job.execution <= exec_count
          /\ Real(job.execution)
        BY <1>0, <1>4 DEF SoleInv, StoredInv, StartedInv, DeliveredIsReal, Real
    <2> QED
        BY <1>2, <2>1
<1> QED
    BY <1>1, <1>3, <1>4

\* Nor will it have a second one.
LEMMA OneMore ==
    ASSUME NEW k \in Worker
    PROVE  IInv' /\ CalmInv(k)' => (exec_count <= 1)'
<1>1. IInv /\ CalmInv(k) => exec_count <= 1
    BY OneExecution DEF CalmInv
<1> QED
    BY <1>1, PTL

\* A success that a client saw stays.
LEMMA SuccessStep ==
    ASSUME NEW k \in Worker, IInv, IInv', SoleInv(k), CalmInv(k), CalmInv(k)', Alone(k), Alone(k)',
           [Next]_vars, job_count > 0, ApiStatus = "succeeded"
    PROVE  ApiStatus' = "succeeded"
<1>1. exec_count = 1 /\ 1 \in ExecutionId /\ Real(1)
    BY SeenSuccess
<1>2. Real(1)'
    BY <1>1, RealStays
<1>3. exec_count' <= 1
    BY OneMore
<1>4. exec_count' >= exec_count
    <2>1. CASE StartExecution(k)
        BY <1>1, <2>1 DEF StartExecution
    <2>2. CASE exec_count' = exec_count
        BY <1>1, <2>2
    <2> QED
        BY <2>1, <2>2, SoleCases DEF OwnShape, Asks, Claim, Moves, Pauses, Ends,
           Reports, Takes, SettlesAs, Settles, vars, tables
<1>5. exec_count' = 1
    BY <1>1, <1>3, <1>4, JobAssumption DEF IInv, TypeOK
<1>6. executions'[exec_count'].final = "COMPLETED"
    BY <1>2, <1>5 DEF Real
<1> QED
    BY <1>5, <1>6 DEF ApiStatus

\* A client that saw "succeeded" never sees anything else (one worker, no failing
\* database call).
THEOREM SuccessStays == ASSUME NEW k \in Worker PROVE CalmSpec(k) => SucceededStays
<1>1. /\ IInv /\ IInv' /\ SoleInv(k) /\ CalmInv(k) /\ CalmInv(k)'
      /\ Alone(k) /\ Alone(k)' /\ [Next]_vars
      => [job_count > 0 /\ ApiStatus = "succeeded" => ApiStatus' = "succeeded"]_vars
    BY SuccessStep
<1> QED
    BY SoleInvariance, CalmInvariance, <1>1, PTL DEF CalmSpec, SoleSpec, Spec, SucceededStays

-----------------------------------------------------------------------------
(***************************************************************************)
(* The scenarios: each is a run of JobSystem, bounded.                     *)
(***************************************************************************)

\* What the scenarios bound: one worker in two of them, no failing call in one.
Bounded ==
    /\ scenario \in {"pair", "single", "calm"}
    /\ OneWorker => Alone(w1)
    /\ Calm => faults = 0

ScenarioInv ==
    /\ IInv /\ Bounded
    /\ OneWorker => SoleInv(w1)
    /\ Calm => CalmInv(w1)

\* The bounds of a scenario are those of its workers.
LEMMA WithinBounds ==
    ASSUME scenario \in {"pair", "single", "calm"}, TypeOK, Within(Scenarios[scenario])
    PROVE  Bounded
<1>1. ASSUME scenario = "single" \/ scenario = "calm"
      PROVE  Scenarios[scenario].workers = {w1}
    BY <1>1 DEF Scenarios
<1>2. scenario = "calm" => Scenarios[scenario].faults = 0
    BY DEF Scenarios
<1>3. faults \in Nat
    BY JobAssumption DEF TypeOK
<1> HIDE DEF Scenarios
<1> QED
    BY <1>1, <1>2, <1>3 DEF Bounded, OneWorker, Calm, Alone, Within

LEMMA ScenarioInvariance == MCSpec => []ScenarioInv
<1>1. MCInit => ScenarioInv
    <2> SUFFICES ASSUME MCInit PROVE ScenarioInv
        OBVIOUS
    <2>1. IInv
        BY InitIInv DEF MCInit
    <2>2. SoleInv(w1) /\ CalmInv(w1)
        BY SoleInit, ScenarioAssumption DEF MCInit
    <2>3. Bounded
        BY DEF MCInit, Init, Bounded, Scenarios, Alone, At, IdleWorker
    <2> QED
        BY <2>1, <2>2, <2>3 DEF ScenarioInv
<1>0. IInv /\ [Next]_vars => IInv'
    BY TypeStep, QueueStep, ClaimStep, ExecutionStep, RoundsStep, ReviewerStep DEF IInv
<1>w. TypeOK /\ scenario \in {"pair", "single", "calm"} /\ Within(Scenarios[scenario]) => Bounded
    BY WithinBounds
<1>v. (TypeOK /\ scenario \in {"pair", "single", "calm"} /\ Within(Scenarios[scenario]))' => Bounded'
    BY <1>w, PTL
<1>2. ScenarioInv /\ [MCNext]_<<vars, scenario>> => ScenarioInv'
    <2> SUFFICES ASSUME ScenarioInv, [MCNext]_<<vars, scenario>> PROVE ScenarioInv'
        OBVIOUS
    <2>1. [Next]_vars /\ scenario' = scenario /\ IInv'
        BY <1>0 DEF MCNext, ScenarioInv
    <2>2. Bounded'
        <3>1. CASE MCNext
            <4>1. Within(Scenarios[scenario])' /\ TypeOK'
                BY <2>1, <3>1 DEF MCNext, IInv
            <4> QED
                BY <1>v, <2>1, <4>1 DEF ScenarioInv, Bounded
        <3>2. CASE UNCHANGED <<vars, scenario>>
            BY <3>2 DEF ScenarioInv, Bounded, OneWorker, Calm, Alone, At, vars, bounds
        <3> QED
            BY <3>1, <3>2
    <2>3. OneWorker' = OneWorker /\ Calm' = Calm /\ (Calm => OneWorker)
        BY <2>1 DEF OneWorker, Calm
    <2>4. OneWorker => SoleInv(w1)'
        BY <2>1, <2>2, <2>3, SoleStep, ScenarioAssumption DEF ScenarioInv, Bounded
    <2>5. Calm => CalmInv(w1)'
        BY <2>1, <2>2, <2>3, FirstTryStep, OfferStep, ScenarioAssumption
           DEF ScenarioInv, Bounded, CalmInv
    <2> QED
        BY <2>1, <2>2, <2>3, <2>4, <2>5 DEF ScenarioInv
<1> QED
    BY <1>1, <1>2, PTL DEF MCSpec

\* TablesAreTrue holds of the scenarios, for every number of jobs and attempts
\* and every limit on the rounds that their constants may set.
THEOREM ScenarioTables == MCSpec => []TablesAreTrue
<1>1. ScenarioInv => TablesAreTrue
    BY DEF ScenarioInv, TablesAreTrue, SoleInv, CalmInv, OfferInv, Advances, PreviewIsCurrent
<1> QED
    BY ScenarioInvariance, <1>1, PTL

\* In the scenarios with one worker the threads keep their promise.
THEOREM ScenarioPromise == MCSpec => OneWorkerKeepsPromise
<1>1. ScenarioInv /\ ScenarioInv' /\ [MCNext]_<<vars, scenario>>
        => [OneWorker => \A e \in ExecutionId : Run(e)!Next \/ UNCHANGED Run(e)!vars]_threads
    <2> SUFFICES ASSUME ScenarioInv, ScenarioInv', [MCNext]_<<vars, scenario>>, OneWorker,
                        NEW e \in ExecutionId
                 PROVE  Run(e)!Next \/ UNCHANGED Run(e)!vars
        OBVIOUS
    <2>1. [Next]_vars /\ OneWorker'
        BY DEF MCNext, OneWorker
    <2> QED
        BY <2>1, ThreadPromise, ScenarioAssumption DEF ScenarioInv, Bounded
<1> QED
    BY ScenarioInvariance, <1>1, PTL DEF MCSpec, OneWorkerKeepsPromise

\* In the calm scenario a success that a client saw stays.
THEOREM ScenarioSuccess == MCSpec => CalmSucceededStays
<1>1. ScenarioInv /\ ScenarioInv' /\ [MCNext]_<<vars, scenario>>
        => [Calm /\ job_count > 0 /\ ApiStatus = "succeeded" => ApiStatus' = "succeeded"]_vars
    <2> SUFFICES ASSUME ScenarioInv, ScenarioInv', [MCNext]_<<vars, scenario>>, Calm,
                        job_count > 0, ApiStatus = "succeeded"
                 PROVE  ApiStatus' = "succeeded"
        OBVIOUS
    <2>1. [Next]_vars /\ Calm' /\ OneWorker /\ OneWorker'
        BY DEF MCNext, OneWorker, Calm
    <2> QED
        BY <2>1, SuccessStep, ScenarioAssumption DEF ScenarioInv, Bounded
<1> QED
    BY ScenarioInvariance, <1>1, PTL DEF MCSpec, CalmSucceededStays
=============================================================================
