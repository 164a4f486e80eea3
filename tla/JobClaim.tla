------------------------------ MODULE JobClaim ------------------------------
(***************************************************************************)
(* persistence/jobs.py, claim_next: how a worker takes a job, statement by *)
(* statement.  On PostgreSQL the SELECT locks the row it returns and skips *)
(* locked ones; on SQLite it is a plain SELECT, and the row is written by  *)
(* primary key from what the session loaded.                               *)
(*                                                                         *)
(* Jobs are numbered in the order of created_at.                           *)
(***************************************************************************)
EXTENDS Integers, FiniteSets

CONSTANTS
    Worker,       \* the worker processes
    NJobs,        \* the rows of the jobs table
    MaxAttempts,  \* settings.job_max_attempts
    Outcome,      \* the statuses a job can be completed with
    Backend,      \* the dialect of the session's engine
    MaxCrashes,   \* bound: the workers that die
    Nobody        \* no worker

Job == 1..NJobs

ASSUME ClaimAssumption ==
    /\ NJobs \in Nat
    /\ MaxAttempts \in Nat \ {0}
    /\ MaxCrashes \in Nat
    /\ Backend \in {"postgresql", "sqlite"}
    /\ "queued" \notin Outcome /\ "running" \notin Outcome
    /\ Nobody \notin Worker

NoJob == 0

VARIABLES
    row,      \* the committed rows: status, attempts, next_run_at
    lock,     \* who holds the lock of a row
    pc,       \* "idle", "selected" (the claim is open) or "working"
    loaded,   \* what a worker's session has read: the row's id and attempts
    claims,   \* history: the committed claims of each job
    crashes

vars == <<row, lock, pc, loaded, claims, crashes>>

Row == [status : Outcome \cup {"queued", "running"}, attempts : Nat, due : {"now", "later"}]

TypeOK ==
    /\ row \in [Job -> Row]
    /\ lock \in [Job -> Worker \cup {Nobody}]
    /\ pc \in [Worker -> {"idle", "selected", "working"}]
    /\ loaded \in [Worker -> [job : Job \cup {NoJob}, attempts : Nat]]
    /\ claims \in [Job -> Nat]
    /\ crashes \in 0..MaxCrashes

NothingLoaded == [job |-> NoJob, attempts |-> 0]

Init ==
    /\ row = [j \in Job |-> [status |-> "queued", attempts |-> 0, due |-> "now"]]
    /\ lock = [j \in Job |-> Nobody]
    /\ pc = [w \in Worker |-> "idle"]
    /\ loaded = [w \in Worker |-> NothingLoaded]
    /\ claims = [j \in Job |-> 0]
    /\ crashes = 0

-----------------------------------------------------------------------------

\* Mutant: FOR UPDATE without effect.
Locks_None(w, j) == lock' = lock

\* FOR UPDATE
Locks(w, j) ==
    IF Backend = "postgresql" THEN lock' = [lock EXCEPT ![j] = w] ELSE lock' = lock

\* Mutant: the last attempt is never taken.
Claimable_SpareLast(j) ==
    row[j].status = "queued" /\ row[j].due = "now" /\ row[j].attempts < MaxAttempts - 1

Claimable(j) == row[j].status = "queued" /\ row[j].due = "now"

\* Mutant: a locked row is not skipped (and not waited for).
Selectable_Locked == {j \in Job : Claimable(j)}

\* WHERE status = 'queued' AND next_run_at <= now ... SKIP LOCKED
Selectable == {j \in Job : Claimable(j) /\ lock[j] = Nobody}

\* ORDER BY created_at LIMIT 1
Select(w) ==
    /\ pc[w] = "idle"
    /\ \E j \in Selectable :
          /\ \A i \in Selectable : j <= i
          /\ Locks(w, j)
          /\ loaded' = [loaded EXCEPT ![w] = [job |-> j, attempts |-> row[j].attempts]]
    /\ pc' = [pc EXCEPT ![w] = "selected"]
    /\ UNCHANGED <<row, claims, crashes>>

\* The flush writes the row by its primary key, the commit frees its lock.
Commit(w) ==
    LET j == loaded[w].job
    IN  /\ pc[w] = "selected"
        /\ row' = [row EXCEPT ![j] =
              [@ EXCEPT !.status = "running", !.attempts = loaded[w].attempts + 1]]
        /\ lock' = [lock EXCEPT ![j] = Nobody]
        /\ claims' = [claims EXCEPT ![j] = @ + 1]
        /\ pc' = [pc EXCEPT ![w] = "working"]
        /\ UNCHANGED <<loaded, crashes>>

\* The worker is done with its job.
Done(w) ==
    /\ pc' = [pc EXCEPT ![w] = "idle"]
    /\ loaded' = [loaded EXCEPT ![w] = NothingLoaded]
    /\ UNCHANGED <<lock, claims, crashes>>

Complete(w) ==
    /\ pc[w] = "working"
    /\ \E s \in Outcome : row' = [row EXCEPT ![loaded[w].job].status = s]
    /\ Done(w)

\* Mutant: one attempt too many.
Again_OffByOne(j) == row[j].attempts <= MaxAttempts

Again(j) == row[j].attempts < MaxAttempts

RetryLater(w) ==
    LET j == loaded[w].job
    IN  /\ pc[w] = "working"
        /\ \/ /\ Again(j)
              /\ row' = [row EXCEPT ![j] = [@ EXCEPT !.status = "queued", !.due = "later"]]
           \/ /\ ~Again(j)
              /\ "failed" \in Outcome
              /\ row' = [row EXCEPT ![j].status = "failed"]
        /\ Done(w)

\* The delay of a retry passes.
BecomesDue(j) ==
    /\ row[j].status = "queued"
    /\ row[j].due = "later"
    /\ row' = [row EXCEPT ![j].due = "now"]
    /\ UNCHANGED <<lock, pc, loaded, claims, crashes>>

\* A worker dies and starts anew: an open claim is rolled back and its lock
\* freed, a committed one stays.
Crash(w) ==
    /\ pc[w] # "idle"
    /\ crashes < MaxCrashes
    /\ crashes' = crashes + 1
    /\ lock' = [j \in Job |-> IF lock[j] = w THEN Nobody ELSE lock[j]]
    /\ pc' = [pc EXCEPT ![w] = "idle"]
    /\ loaded' = [loaded EXCEPT ![w] = NothingLoaded]
    /\ UNCHANGED <<row, claims>>

Work(w) == Select(w) \/ Commit(w) \/ Complete(w) \/ RetryLater(w)

Next ==
    \/ \E w \in Worker : Select(w) \/ Commit(w) \/ Complete(w) \/ RetryLater(w) \/ Crash(w)
    \/ \E j \in Job : BecomesDue(j)

Spec == Init /\ [][Next]_vars

\* Every worker goes on polling and working, and delays pass.
FairSpec ==
    /\ Spec
    /\ \A w \in Worker : WF_vars(Work(w))
    /\ \A j \in Job : WF_vars(BecomesDue(j))

-----------------------------------------------------------------------------
(***************************************************************************)
(* Properties.                                                             *)
(***************************************************************************)

\* The workers that work on j.
Holders(j) == {w \in Worker : pc[w] = "working" /\ loaded[w].job = j}

State == [j \in Job |-> row[j].status]

Hands == [j \in Job |-> IF Holders(j) = {} THEN Nobody ELSE CHOOSE w \in Holders(j) : TRUE]

Board == INSTANCE JobBoard WITH state <- State, hands <- Hands, tries <- claims

\* The claim in several statements, with sessions that keep what they read and
\* workers that die between two of them, is the one step the board promises.
ImplementsBoard == Board!Spec

\* jobs.attempts is the number of claims: none is lost between two sessions
\* that read the row at once, so no job is tried more often than allowed.
AttemptsAreClaims ==
    \A j \in Job : row[j].attempts = claims[j] /\ claims[j] <= MaxAttempts

\* Whatever order the workers poll, retry and die in, a queued job is taken.
QueuedIsServed == \A j \in Job : row[j].status = "queued" ~> row[j].status # "queued"

\* "SQLite/tests -> atomic `UPDATE ... WHERE status='queued' LIMIT 1`"
\* (docs/plans/16_phase_async_api_dad62339.plan.md:99): a claim finds the job
\* still queued when it is written.
ClaimIsAtomic ==
    [][\A w \in Worker : Commit(w) => row[loaded[w].job].status = "queued"]_vars

\* The inductive invariant on PostgreSQL: an open claim holds the lock of its
\* row, which is still what the session read.
ClaimInv ==
    /\ TypeOK
    /\ \A w \in Worker : pc[w] = "idle" <=> loaded[w].job = NoJob
    /\ \A w \in Worker : pc[w] = "selected" =>
          /\ lock[loaded[w].job] = w
          /\ row[loaded[w].job].status = "queued"
          /\ row[loaded[w].job].attempts = loaded[w].attempts
    /\ \A w \in Worker : pc[w] = "working" => row[loaded[w].job].status = "running"
    /\ \A j \in Job : lock[j] # Nobody => pc[lock[j]] = "selected" /\ loaded[lock[j]].job = j
    /\ \A w, v \in Worker :
          pc[w] = "working" /\ pc[v] = "working" /\ loaded[w].job = loaded[v].job => w = v
    /\ \A j \in Job :
          /\ row[j].attempts = claims[j]
          /\ claims[j] <= MaxAttempts
          /\ row[j].status = "queued" => claims[j] < MaxAttempts
=============================================================================
