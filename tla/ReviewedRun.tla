---------------------------- MODULE ReviewedRun ----------------------------
(***************************************************************************)
(* What one Shorts run promises its reviewer, whatever the graph inside    *)
(* does: it works, puts one script in front of the reviewer, and releases  *)
(* that script and no other, and only after an approval.  A script sent    *)
(* back costs a round, and the rounds are limited.                         *)
(*                                                                         *)
(* ShortsGraph implements this module (ShortsGraphProofs proves it), and   *)
(* the job system reasons about its threads in these terms.                *)
(***************************************************************************)
EXTENDS Naturals

CONSTANTS
    MaxHumanRounds,  \* settings.max_human_rounds
    Script,          \* the scripts a run can write
    NoScript         \* no script: not a member of Script

VARIABLES
    phase,      \* "working", "review", "approved", "released" or "failed"
    presented,  \* the script in front of the reviewer, or the approved one
    rounds,     \* how often the reviewer sent a script back
    released    \* the script of the final concept

vars == <<phase, presented, rounds, released>>

Init ==
    /\ phase = "working"
    /\ presented = NoScript
    /\ rounds = 0
    /\ released = NoScript

-----------------------------------------------------------------------------

\* The run stops and waits for a reviewer.
Present(s) ==
    /\ phase = "working"
    /\ phase' = "review"
    /\ presented' = s
    /\ UNCHANGED <<rounds, released>>

\* Human review is off: the run approves its own script.
AutoApprove(s) ==
    /\ phase = "working"
    /\ phase' = "approved"
    /\ presented' = s
    /\ UNCHANGED <<rounds, released>>

\* By the reviewer, or by the run itself when it is resumed in a process
\* where human review is off.
Approve ==
    /\ phase = "review"
    /\ phase' = "approved"
    /\ UNCHANGED <<presented, rounds, released>>

SendBack ==
    /\ phase = "review"
    /\ rounds < MaxHumanRounds
    /\ phase' = "working"
    /\ presented' = NoScript
    /\ rounds' = rounds + 1
    /\ UNCHANGED released

\* One send-back too many ends the run.
GiveUp ==
    /\ phase = "review"
    /\ rounds = MaxHumanRounds
    /\ phase' = "failed"
    /\ presented' = NoScript
    /\ rounds' = rounds + 1
    /\ UNCHANGED released

Release ==
    /\ phase = "approved"
    /\ phase' = "released"
    /\ released' = presented
    /\ UNCHANGED <<presented, rounds>>

Fail ==
    /\ phase \in {"working", "approved"}
    /\ phase' = "failed"
    /\ presented' = NoScript
    /\ UNCHANGED <<rounds, released>>

Next ==
    \/ \E s \in Script : Present(s) \/ AutoApprove(s)
    \/ Approve
    \/ SendBack
    \/ GiveUp
    \/ Release
    \/ Fail

Spec == Init /\ [][Next]_vars
=============================================================================
