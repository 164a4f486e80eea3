------------------------------ MODULE JobBoard ------------------------------
(***************************************************************************)
(* What the jobs table promises its workers: a job is on offer, in one     *)
(* pair of hands, or settled.  Who takes it off the board uses up one of   *)
(* its attempts; a job that was settled never comes back.                  *)
(*                                                                         *)
(* JobSystem builds on this claim; JobClaim looks inside it.               *)
(***************************************************************************)
EXTENDS Naturals

CONSTANTS
    Worker,       \* the worker processes
    Job,          \* the rows of the table
    Outcome,      \* what a worker settles a job with
    MaxAttempts,  \* jobs.max_attempts
    Nobody        \* no worker

VARIABLES
    state,  \* "queued", "running" or an outcome
    hands,  \* the workers that work on a job
    tries   \* how often a job was taken

vars == <<state, hands, tries>>

Init ==
    /\ state = [j \in Job |-> "queued"]
    /\ hands = [j \in Job |-> Nobody]
    /\ tries = [j \in Job |-> 0]

Take(w, j) ==
    /\ state[j] = "queued"
    /\ hands[j] = Nobody
    /\ tries[j] < MaxAttempts
    /\ state' = [state EXCEPT ![j] = "running"]
    /\ hands' = [hands EXCEPT ![j] = w]
    /\ tries' = [tries EXCEPT ![j] = @ + 1]

\* The worker settles the job, or puts it back for another attempt.
PutDown(w, j, s) ==
    /\ hands[j] = w
    /\ s = "queued" => tries[j] < MaxAttempts
    /\ state' = [state EXCEPT ![j] = s]
    /\ hands' = [hands EXCEPT ![j] = Nobody]
    /\ UNCHANGED tries

\* The worker dies: nobody else will find the job.
Drop(w, j) ==
    /\ hands[j] = w
    /\ hands' = [hands EXCEPT ![j] = Nobody]
    /\ UNCHANGED <<state, tries>>

Next ==
    \E w \in Worker, j \in Job :
        \/ Take(w, j)
        \/ \E s \in Outcome \cup {"queued"} : PutDown(w, j, s)
        \/ Drop(w, j)

Spec == Init /\ [][Next]_vars
=============================================================================
