---------------------------- MODULE MCJobSystem ----------------------------
(***************************************************************************)
(* JobSystem for TLC: one or two workers, up to two decisions after the    *)
(* run job, two attempts, one review round (so that a second send-back     *)
(* gives up), and the crashes, faults and timeouts each .cfg allows.       *)
(***************************************************************************)
EXTENDS JobSystem

CONSTANTS w1, w2

\* Workers that go on working, and do not die.
SteadySpec ==
    /\ Init /\ [][Next /\ UNCHANGED crashes]_vars
    /\ \A k \in Worker : WF_vars(Work(k))
=============================================================================
