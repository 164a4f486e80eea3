----------------------------- MODULE JobSystem -----------------------------
(***************************************************************************)
(* The asynchronous side of the Shorts assistant, for one workflow: the    *)
(* API handlers that enqueue jobs (api/service.py), the job table          *)
(* (persistence/jobs.py), the workers that claim jobs and drive LangGraph  *)
(* (worker/bridge.py, run.py) and the rows they leave behind.              *)
(*                                                                         *)
(* A worker is a process: it may crash between any two of its commits, its *)
(* job clock may run out while the graph works on, and a database call may *)
(* fail.  A thread is the LangGraph checkpoint of one execution, reduced   *)
(* to the state of ReviewedRun: a script is named by the review round for  *)
(* which it was written.  Jobs and executions are numbered in the order of *)
(* their created_at and started_at.                                        *)
(***************************************************************************)
EXTENDS Naturals, FiniteSets

CONSTANTS
    Worker,          \* the worker processes
    MaxJobs,         \* bound: jobs enqueued for the workflow
    MaxAttempts,     \* settings.job_max_attempts
    MaxHumanRounds,  \* settings.max_human_rounds
    EnvHitl,         \* settings.hitl_required of the worker processes
    MaxCrashes,      \* bound: worker crashes
    MaxFaults,       \* bound: failing database calls
    MaxTimeouts      \* bound: jobs that outlive JOB_TIMEOUT_SEC

ASSUME JobAssumption ==
    /\ MaxJobs \in Nat /\ MaxAttempts \in Nat \ {0} /\ MaxHumanRounds \in Nat
    /\ EnvHitl \in BOOLEAN
    /\ MaxCrashes \in Nat /\ MaxFaults \in Nat /\ MaxTimeouts \in Nat

VARIABLES
    jobs,        \* the rows of the table jobs
    job_count,
    executions,  \* the rows of the table executions
    exec_count,
    workflow,    \* workflows.status
    threads,     \* per execution: the LangGraph checkpoint
    workers,     \* per process: where process_one_job is
    crashes, faults, timeouts   \* how much of each bound is used up

tables == <<jobs, job_count, executions, exec_count, workflow>>
bounds == <<crashes, faults, timeouts>>
vars == <<tables, threads, workers, bounds>>

JobId == 1..MaxJobs
ExecutionId == 1..MaxAttempts
None == 0

\* "run" is run_pipeline, "approve" resume_approve, "revise" resume_revise;
\* "blank" is a resume_revise whose request_changes has only white space as
\* its feedback.
JobType == {"run", "approve", "revise", "blank"}
JobStatus == {"queued", "running", "awaiting_human", "succeeded", "failed"}

Job ==
    [type : JobType, status : JobStatus \cup {"none"}, attempts : 0..MaxAttempts,
     execution : ExecutionId \cup {None},
     hitl : BOOLEAN,                  \* payload.hitl_required
     seen : 0..(MaxHumanRounds + 1)]  \* history: the round the reviewer looked at

Thread ==
    [phase : {"working", "review", "approved", "released", "failed"},
     rounds : 0..(MaxHumanRounds + 1)]

\* state_checkpoint (status and round) and final_status
Execution ==
    [checkpoint : {"none", "AWAITING_HUMAN", "COMPLETED", "FAILED"},
     round : 0..(MaxHumanRounds + 1),
     final : {"none", "COMPLETED", "FAILED"}]

WorkerState ==
    [pc : {"idle", "claimed", "graph", "finalize", "failing", "raised"},
     job : JobId \cup {None},
     run : Thread,           \* the graph state the process holds
     late : BOOLEAN,         \* JOB_TIMEOUT_SEC has passed
     transient : BOOLEAN]    \* how classify_exception sees what was raised

NewJob == [type |-> "run", status |-> "none", attempts |-> 0,
           execution |-> None, hitl |-> FALSE, seen |-> 0]
NewThread == [phase |-> "working", rounds |-> 0]
NewExecution == [checkpoint |-> "none", round |-> 0, final |-> "none"]
IdleWorker == [pc |-> "idle", job |-> None, run |-> NewThread,
               late |-> FALSE, transient |-> FALSE]

TypeOK ==
    /\ jobs \in [JobId -> Job]
    /\ job_count \in 0..MaxJobs
    /\ executions \in [ExecutionId -> Execution]
    /\ exec_count \in 0..MaxAttempts
    /\ workflow \in {"none", "QUEUED", "RUNNING", "AWAITING_HUMAN", "COMPLETED", "FAILED"}
    /\ threads \in [ExecutionId -> Thread]
    /\ workers \in [Worker -> WorkerState]
    /\ crashes \in 0..MaxCrashes
    /\ faults \in 0..MaxFaults
    /\ timeouts \in 0..MaxTimeouts

Init ==
    /\ jobs = [j \in JobId |-> NewJob]
    /\ job_count = 0
    /\ executions = [e \in ExecutionId |-> NewExecution]
    /\ exec_count = 0
    /\ workflow = "none"
    /\ threads = [e \in ExecutionId |-> NewThread]
    /\ workers = [k \in Worker |-> IdleWorker]
    /\ crashes = 0 /\ faults = 0 /\ timeouts = 0

-----------------------------------------------------------------------------
(***************************************************************************)
(* The API handlers.                                                       *)
(***************************************************************************)

Enqueue(job) ==
    /\ job_count < MaxJobs
    /\ job_count' = job_count + 1
    /\ jobs' = [jobs EXCEPT ![job_count + 1] = job]
    /\ workflow' = "QUEUED"

\* POST /shorts
EnqueueShort(hitl) ==
    /\ job_count = 0
    /\ Enqueue([NewJob EXCEPT !.status = "queued", !.hitl = hitl])
    /\ UNCHANGED <<executions, exec_count, threads, workers, bounds>>

\* POST /shorts/{id}/approve and /revise: accepted when the latest execution's
\* checkpoint awaits a human, whatever the jobs are doing.
EnqueueResume(type) ==
    /\ exec_count > 0
    /\ executions[exec_count].checkpoint = "AWAITING_HUMAN"
    /\ Enqueue([NewJob EXCEPT !.status = "queued", !.type = type,
                    !.execution = exec_count, !.seen = executions[exec_count].round])
    /\ UNCHANGED <<executions, exec_count, threads, workers, bounds>>

\* GET /shorts/{id}: what the tables look like from outside.
ApiStatus ==
    LET job == jobs[job_count]
        exe == IF exec_count = 0 THEN NewExecution ELSE executions[exec_count]
    IN  CASE exe.final = "COMPLETED" -> "succeeded"
          [] exe.final = "FAILED" -> "failed"
          [] exe.final = "none" /\ job.status \in {"succeeded", "failed"} -> job.status
          [] OTHER -> IF exe.checkpoint = "AWAITING_HUMAN" THEN "awaiting_human"
                                                          ELSE job.status

-----------------------------------------------------------------------------
(***************************************************************************)
(* process_one_job, commit by commit.                                      *)
(***************************************************************************)

At(k, pc) == workers[k].pc = pc
JobOf(k) == workers[k].job
TypeOf(k) == jobs[JobOf(k)].type
ExecutionOf(k) == jobs[JobOf(k)].execution

\* One database call of worker k fails.
Fault ==
    /\ faults < MaxFaults
    /\ faults' = faults + 1
    /\ UNCHANGED <<crashes, timeouts>>

\* Mutant: a job that was tried before is not found again.
Claimable_FreshOnly == {j \in JobId : jobs[j].status = "queued" /\ jobs[j].attempts = 0}

\* Mutant: whatever has attempts left is taken.
Claimable_Unsettled ==
    {j \in JobId : jobs[j].status \in {"queued", "failed"} /\ jobs[j].attempts < MaxAttempts}

\* The oldest due job; a job that was put back may still be waiting for its
\* next_run_at, and a younger one then goes first.
Claimable ==
    {j \in JobId :
        /\ jobs[j].status = "queued"
        /\ \A i \in 1..(j - 1) : jobs[i].status = "queued" => jobs[i].attempts > 0}

\* Mutant: the claim does not mark the row.
Claimed_Unmarked(job) == [job EXCEPT !.attempts = IF @ < MaxAttempts THEN @ + 1 ELSE @]

Claimed(job) == [job EXCEPT !.status = "running", !.attempts = @ + 1]

Claim(k) ==
    /\ At(k, "idle")
    /\ \E j \in Claimable :
        /\ jobs' = [jobs EXCEPT ![j] = Claimed(@)]
        /\ workers' = [workers EXCEPT ![k] = [IdleWorker EXCEPT !.pc = "claimed", !.job = j]]
    /\ UNCHANGED <<job_count, executions, exec_count, workflow, threads, bounds>>

\* run_pipeline: a new execution, on every attempt.
StartExecution(k) ==
    /\ At(k, "claimed")
    /\ TypeOf(k) = "run"
    /\ exec_count' = exec_count + 1
    /\ jobs' = [jobs EXCEPT ![JobOf(k)].execution = exec_count + 1]
    /\ workflow' = "RUNNING"
    /\ workers' = [workers EXCEPT ![k].pc = "graph"]
    /\ UNCHANGED <<job_count, executions, threads, bounds>>

\* What human_review makes of a decision (ShortsGraph!Resume, as ReviewedRun
\* sees it).  The resuming process has its own HITL setting, not the job's.
Answered(t, type) ==
    CASE type = "approve" \/ ~EnvHitl -> [t EXCEPT !.phase = "approved"]
      [] type = "revise" /\ EnvHitl ->
            [phase |-> IF t.rounds + 1 > MaxHumanRounds THEN "failed" ELSE "working",
             rounds |-> t.rounds + 1]

\* Mutant: the decision is applied to any thread.
Resumed_Always(t, type) ==
    IF t.rounds <= MaxHumanRounds THEN Answered(t, type) ELSE t

\* Command(resume=...): a thread that is not at its interrupt ignores the
\* decision and goes on, or returns its final values.
Resumed(t, type) == IF t.phase = "review" THEN Answered(t, type) ELSE t

InvokeResume(k) ==
    /\ At(k, "claimed")
    /\ TypeOf(k) \in {"approve", "revise"}
    /\ LET t == Resumed(threads[ExecutionOf(k)], TypeOf(k))
       IN  /\ threads' = [threads EXCEPT ![ExecutionOf(k)] = t]
           /\ workers' = [workers EXCEPT ![k].pc = "graph", ![k].run = t]
    /\ UNCHANGED <<tables, bounds>>

\* validate_decision_payload raises: a ValueError is not worth retrying.
InvalidDecision(k) ==
    /\ At(k, "claimed")
    /\ TypeOf(k) = "blank"
    /\ workers' = [workers EXCEPT ![k].pc = "raised"]
    /\ UNCHANGED <<tables, threads, bounds>>

\* Mutant: the flag of the request does not reach the job.
Hitl_Lost(k) == TypeOf(k) # "run" /\ EnvHitl

\* _hitl_override puts the job's own flag in force, for run_pipeline only.
Hitl(k) == IF TypeOf(k) = "run" THEN jobs[JobOf(k)].hitl ELSE EnvHitl

\* What the graph may do next with thread t.
Successors(t, hitl) ==
    {[t EXCEPT !.phase = p] : p \in
        CASE t.phase = "working" -> {IF hitl THEN "review" ELSE "approved", "failed"}
          [] t.phase = "approved" -> {"released", "failed"}
          [] OTHER -> {}}

\* The checkpointer saves the state the process holds, over whatever is there.
GraphStep(k) ==
    /\ At(k, "graph")
    /\ \E t \in Successors(workers[k].run, Hitl(k)) :
        /\ threads' = [threads EXCEPT ![ExecutionOf(k)] = t]
        /\ workers' = [workers EXCEPT ![k].run = t]
    /\ UNCHANGED <<tables, bounds>>

\* The pool's `with` block waits for the graph: the clock ends nothing, it
\* only decides what becomes of the result.
ClockExpires(k) ==
    /\ At(k, "graph")
    /\ ~workers[k].late
    /\ timeouts < MaxTimeouts
    /\ timeouts' = timeouts + 1
    /\ workers' = [workers EXCEPT ![k].late = TRUE]
    /\ UNCHANGED <<tables, threads, crashes, faults>>

\* An exception inside the timed call: lost when the clock has run out, and
\* a TimeoutError of its own is taken for the clock's.
InvokeRaises(k) ==
    /\ Fault
    /\ \E p \in {"raised", "failing"}, tr \in BOOLEAN :
        /\ workers[k].late => p = "failing"
        /\ workers' = [workers EXCEPT ![k].pc = p, ![k].transient = tr]

GraphRaises(k) ==
    /\ \/ At(k, "graph") /\ workers[k].run.phase \in {"working", "approved"}
       \/ At(k, "claimed") /\ TypeOf(k) \in {"approve", "revise"}
    /\ InvokeRaises(k)
    /\ UNCHANGED <<tables, threads>>

\* The timed call returns.
Returned(k) ==
    workers' = [workers EXCEPT ![k].pc = IF workers[k].late THEN "failing" ELSE "finalize"]

\* Mutant: a checkpoint that awaits a human is left as it is.
Paused_Kept(exe, t) ==
    IF exe.checkpoint = "AWAITING_HUMAN" THEN exe
    ELSE [exe EXCEPT !.checkpoint = "AWAITING_HUMAN", !.round = t.rounds]

Paused(exe, t) == [exe EXCEPT !.checkpoint = "AWAITING_HUMAN", !.round = t.rounds]

\* _checkpoint_only: fail-open.
Checkpoint(k) ==
    /\ At(k, "graph")
    /\ workers[k].run.phase = "review"
    /\ \/ /\ executions' = [executions EXCEPT ![ExecutionOf(k)] = Paused(@, workers[k].run)]
          /\ UNCHANGED bounds
       \/ Fault /\ UNCHANGED executions
    /\ Returned(k)
    /\ UNCHANGED <<jobs, job_count, exec_count, workflow, threads>>

FinalStatus(t) == IF t.phase = "released" THEN "COMPLETED" ELSE "FAILED"

\* Mutant: a failing write is swallowed, as in _checkpoint_only.
PersistFails_Swallowed(k) == Fault /\ Returned(k)

PersistFails(k) == InvokeRaises(k)

\* _persist_final: one transaction, and it may raise.
PersistFinal(k) ==
    /\ At(k, "graph")
    /\ workers[k].run.phase \in {"released", "failed"}
    /\ \/ /\ executions' = [executions EXCEPT ![ExecutionOf(k)] =
                [checkpoint |-> FinalStatus(workers[k].run),
                 round |-> workers[k].run.rounds,
                 final |-> FinalStatus(workers[k].run)]]
          /\ workflow' = FinalStatus(workers[k].run)
          /\ Returned(k)
          /\ UNCHANGED bounds
       \/ PersistFails(k) /\ UNCHANGED <<executions, workflow>>
    /\ UNCHANGED <<jobs, job_count, exec_count, threads>>

\* The last transaction of a job: its row, the workflow row, and back to poll.
Settle(k, job_status, workflow_status) ==
    /\ jobs' = [jobs EXCEPT ![JobOf(k)].status = job_status]
    /\ workflow' = workflow_status
    /\ workers' = [workers EXCEPT ![k] = IdleWorker]
    /\ UNCHANGED <<job_count, executions, exec_count, threads, bounds>>

\* _finalize_job; the output policy may refuse a completed script.
FinalizeJob(k) ==
    /\ At(k, "finalize")
    /\ \/ workers[k].run.phase = "review" /\ Settle(k, "awaiting_human", "AWAITING_HUMAN")
       \/ workers[k].run.phase = "released" /\ Settle(k, "succeeded", "COMPLETED")
       \/ workers[k].run.phase = "failed" /\ Settle(k, "failed", "FAILED")

PolicyBlocks(k) ==
    /\ At(k, "finalize")
    /\ workers[k].run.phase = "released"
    /\ workers' = [workers EXCEPT ![k].pc = "failing"]
    /\ UNCHANGED <<tables, threads, bounds>>

\* _fail
FailJob(k) == At(k, "failing") /\ Settle(k, "failed", "FAILED")

\* Mutant: an attempt too many.
AttemptsLeft_OffByOne(job) == job.attempts <= MaxAttempts

AttemptsLeft(job) == job.attempts < MaxAttempts

\* _handle_failure and retry_later
HandleFailure(k) ==
    /\ At(k, "raised")
    /\ IF workers[k].transient /\ AttemptsLeft(jobs[JobOf(k)])
          THEN Settle(k, "queued", "QUEUED")
          ELSE Settle(k, "failed", "FAILED")

\* start_execution, _finalize_job or _fail cannot reach the database.
CommitFails(k) ==
    /\ At(k, "finalize") \/ At(k, "failing") \/ (At(k, "claimed") /\ TypeOf(k) = "run")
    /\ Fault
    /\ \E tr \in BOOLEAN : workers' = [workers EXCEPT ![k].pc = "raised", ![k].transient = tr]
    /\ UNCHANGED <<tables, threads>>

\* The process dies, or an exception escapes _handle_failure; a new process
\* takes its place and polls.
Crash(k) ==
    /\ ~At(k, "idle")
    /\ crashes < MaxCrashes
    /\ crashes' = crashes + 1
    /\ workers' = [workers EXCEPT ![k] = IdleWorker]
    /\ UNCHANGED <<tables, threads, faults, timeouts>>

-----------------------------------------------------------------------------

\* What a worker does when it is let run and nothing fails.
Work(k) ==
    \/ Claim(k) \/ StartExecution(k) \/ InvokeResume(k) \/ InvalidDecision(k)
    \/ GraphStep(k) \/ Checkpoint(k) \/ PersistFinal(k)
    \/ FinalizeJob(k) \/ FailJob(k) \/ HandleFailure(k)

Next ==
    \/ \E hitl \in BOOLEAN : EnqueueShort(hitl)
    \/ \E type \in JobType \ {"run"} : EnqueueResume(type)
    \/ \E k \in Worker :
          Work(k) \/ PolicyBlocks(k) \/ ClockExpires(k) \/ GraphRaises(k)
            \/ CommitFails(k) \/ Crash(k)

Spec == Init /\ [][Next]_vars

\* run_forever: a living worker polls and works on.  Nobody has to answer.
FairSpec == Spec /\ \A k \in Worker : WF_vars(Work(k))

-----------------------------------------------------------------------------
(***************************************************************************)
(* Properties.                                                             *)
(***************************************************************************)

\* claim_next hands a job to one worker only, and it stays marked for as long
\* as somebody works on it.
ClaimedOnce ==
    \A k \in Worker : ~At(k, "idle") =>
        /\ jobs[JobOf(k)].status = "running"
        /\ \A l \in Worker \ {k} : ~At(l, "idle") => JobOf(l) # JobOf(k)

\* A job that awaits its human, succeeded or failed is never taken up again,
\* whatever crashes, retries and late results come after it.
SettledJobsStay ==
    [][\A j \in JobId : jobs[j].status \in {"awaiting_human", "succeeded", "failed"}
                            => jobs'[j] = jobs[j]]_vars

\* A run that was created with hitl_required is finished only after a worker
\* took up an approval of it (docs/runbooks/api.md:114: "When `true`, run
\* pauses for human review").
HumanDecided ==
    jobs[1].hitl => \A e \in ExecutionId : threads[e].phase = "released" =>
        \E j \in JobId : jobs[j].type = "approve" /\ jobs[j].execution = e
                             /\ jobs[j].attempts > 0

\* What the tables call a success has been released and stored: with one
\* worker, no crash, retry or failing write leaves a success without a result.
DeliveredIsReal ==
    /\ \A j \in JobId : jobs[j].status = "succeeded" =>
          /\ threads[jobs[j].execution].phase = "released"
          /\ executions[jobs[j].execution].final = "COMPLETED"
    /\ workflow = "COMPLETED" =>
          \E e \in ExecutionId : /\ threads[e].phase = "released"
                                 /\ executions[e].final = "COMPLETED"

\* A client that saw "succeeded" never sees anything else: late and duplicate
\* decisions on a finished run change nothing (one worker, no failing writes).
SucceededStays ==
    [][job_count > 0 /\ ApiStatus = "succeeded" => ApiStatus' = "succeeded"]_vars

\* What the API offers for review is what the thread waits on, as soon as no
\* job of the workflow is under way (one worker, no failing writes).
PreviewIsCurrent ==
    exec_count > 0 =>
        (/\ executions[exec_count].checkpoint = "AWAITING_HUMAN"
         /\ \A j \in JobId : jobs[j].status \notin {"queued", "running"}
         => /\ threads[exec_count].phase = "review"
            /\ threads[exec_count].rounds = executions[exec_count].round)

\* Behind one worker every thread keeps the promise of ReviewedRun, through
\* crashes, retries, duplicate decisions and lost results.
Run(e) == INSTANCE ReviewedRun WITH
    Script <- 1..(MaxHumanRounds + 1),
    NoScript <- None,
    phase <- threads[e].phase,
    rounds <- threads[e].rounds,
    presented <- IF threads[e].phase \in {"review", "approved", "released"}
                   THEN threads[e].rounds + 1 ELSE None,
    released <- IF threads[e].phase = "released" THEN threads[e].rounds + 1 ELSE None

ThreadsKeepPromise ==
    /\ \A e \in ExecutionId : Run(e)!Init
    /\ [][\A e \in ExecutionId : Run(e)!Next \/ UNCHANGED Run(e)!vars]_threads

\* Every job is eventually worked off (docs/runbooks/deploy.md:101: "Worker
\* crash | Current job fails/retries per `JOB_MAX_ATTEMPTS`").
EveryJobSettles ==
    \A j \in JobId : jobs[j].status \in {"queued", "running"}
                         ~> jobs[j].status \notin {"queued", "running"}

\* JOB_TIMEOUT_SEC ends a runaway job: once the clock has run out, the graph
\* does no more (docs/plans/17_phase_security_guardrails_d1e7b8a8.plan.md:281:
\* "hard wall-clock job timeout in worker").
ClockStopsGraph ==
    [][\A k \in Worker : workers[k].late => workers'[k].run = workers[k].run
                                             \/ workers'[k].pc = "idle"]_vars

\* A decision is accepted only while the API reports awaiting_human
\* (docs/runbooks/api.md:183: "Only after status is `awaiting_human`").
ResumeOnlyAwaiting ==
    [][\A j \in JobId : jobs[j].status = "none" /\ jobs'[j].status = "queued" /\ j > 1
           => ApiStatus = "awaiting_human"]_vars

\* A decision answers the script its reviewer looked at
\* (docs/plans/13_phase_human_in_loop_d6d12396.plan.md:98: "Accountability |
\* Audit who approved what").
SeenIsDecided ==
    [][\A k \in Worker :
          At(k, "claimed") /\ workers'[k].pc = "graph" /\ TypeOf(k) # "run"
            /\ threads[ExecutionOf(k)].phase = "review"
          => jobs[JobOf(k)].seen = threads[ExecutionOf(k)].rounds]_vars
-----------------------------------------------------------------------------
(***************************************************************************)
(* The inductive invariant behind TypeOK, ClaimedOnce, SettledJobsStay and *)
(* HumanDecided, part by part.                                             *)
(***************************************************************************)

\* The rows of the job table: the first job is the run, the others name the
\* execution they answer, and a job waits only while it has attempts left.
QueueInv ==
    \A j \in JobId :
        /\ j > job_count => jobs[j] = NewJob
        /\ j <= job_count =>
              /\ jobs[j].status # "none"
              /\ jobs[j].type = "run" <=> j = 1
              /\ j > 1 => jobs[j].execution \in ExecutionId
        /\ jobs[j].status = "queued" => jobs[j].attempts < MaxAttempts
        /\ jobs[j].status = "running" => jobs[j].attempts > 0

\* An execution per attempt of the run job, at most.
ExecutionInv ==
    /\ job_count = 0 => exec_count = 0
    /\ job_count > 0 => exec_count <= jobs[1].attempts
    /\ \A k \in Worker : At(k, "claimed") /\ JobOf(k) = 1 => exec_count < jobs[1].attempts

\* Who is not idle holds a job, and starts it from scratch.
HolderInv ==
    \A k \in Worker :
        /\ ~At(k, "idle") => JobOf(k) \in JobId
        /\ At(k, "claimed") => workers[k].run = NewThread

\* A thread that can still be sent back has rounds left to count.
RoundsLeft(t) == t.phase # "failed" => t.rounds <= MaxHumanRounds

RoundsInv ==
    /\ \A e \in ExecutionId : RoundsLeft(threads[e])
    /\ \A k \in Worker : RoundsLeft(workers[k].run)

\* A worker took up an approval of execution e.
ApprovalTaken(e) ==
    \E j \in JobId : jobs[j].type = "approve" /\ jobs[j].execution = e /\ jobs[j].attempts > 0

\* Beyond the review, in the checkpoints and in the hands of the workers.
ReviewerInv ==
    EnvHitl /\ (job_count > 0 => jobs[1].hitl) =>
        /\ \A e \in ExecutionId :
              threads[e].phase \in {"approved", "released"} => ApprovalTaken(e)
        /\ \A k \in Worker :
              ~At(k, "idle") /\ workers[k].run.phase \in {"approved", "released"}
                  => ApprovalTaken(ExecutionOf(k))

IInv == TypeOK /\ QueueInv /\ ClaimedOnce /\ HolderInv /\ ExecutionInv /\ RoundsInv /\ ReviewerInv

-----------------------------------------------------------------------------
(***************************************************************************)
(* One worker at work, and a database that works besides: what they add to *)
(* the invariant, for DeliveredIsReal and ThreadsKeepPromise, and for      *)
(* PreviewIsCurrent and SucceededStays.                                    *)
(***************************************************************************)

\* No worker but k is ever at work.
Alone(k) == \A l \in Worker \ {k} : At(l, "idle")
SoleSpec(k) == Spec /\ []Alone(k)

\* Besides, no database call fails.
CalmSpec(k) == SoleSpec(k) /\ [](faults = 0)

\* Executions are numbered as they start, and nothing is written ahead.
StartedInv ==
    /\ \A e \in ExecutionId : e > exec_count =>
          threads[e] = NewThread /\ executions[e] = NewExecution
    /\ \A j \in JobId : jobs[j].execution <= exec_count

\* Worker k holds its thread as it is, and reports only an end that is stored.
HandsInv(k) ==
    /\ At(k, "graph") \/ At(k, "finalize") =>
          /\ ExecutionOf(k) \in ExecutionId
          /\ workers[k].run = threads[ExecutionOf(k)]
    /\ At(k, "finalize") /\ workers[k].run.phase # "review" =>
          executions[ExecutionOf(k)].final = FinalStatus(workers[k].run)

\* A release that is stored has happened, and a success has an execution.
StoredInv ==
    /\ \A e \in ExecutionId :
          executions[e].final = "COMPLETED" => threads[e].phase = "released"
    /\ \A j \in JobId : jobs[j].status = "succeeded" => jobs[j].execution \in ExecutionId

SoleInv(k) == StartedInv /\ HandsInv(k) /\ StoredInv /\ DeliveredIsReal

\* Nothing is tried a second time: the run job has one attempt, and so the
\* workflow one execution.
FirstTryInv(k) ==
    /\ ~workers[k].transient
    /\ job_count > 0 => jobs[1].attempts <= (IF jobs[1].status = "queued" THEN 0 ELSE 1)

\* Job j is under way, and worker k is neither still to begin it nor through
\* with its thread.
Advances(j, k) ==
    /\ jobs[j].status = "running" /\ jobs[j].execution = exec_count
    /\ At(k, "idle") \/ At(k, "graph") \/ JobOf(k) # j

\* What a reviewer is offered is what the thread waits on, or else a job that
\* is under way has taken the thread further.
OfferInv(k) ==
    exec_count > 0 /\ executions[exec_count].checkpoint = "AWAITING_HUMAN" =>
        \/ /\ threads[exec_count].phase = "review"
           /\ threads[exec_count].rounds = executions[exec_count].round
        \/ \E j \in JobId : Advances(j, k)

CalmInv(k) == FirstTryInv(k) /\ OfferInv(k)
=============================================================================
