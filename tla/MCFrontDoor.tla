----------------------------- MODULE MCFrontDoor -----------------------------
(***************************************************************************)
(* The two ways into the program, for TLC.  Over HTTP a request meets the  *)
(* rate limiter and the intake of POST /shorts; from the command line a    *)
(* sales brief is run and resumed by its own process.  They share no state *)
(* (a request that is refused only shows in Intake as Refuse), so a        *)
(* behaviour is about one of the three and the others stand still.         *)
(*                                                                         *)
(* Rate limiter: two threads, two requests per window of four ticks, two   *)
(* ticks a second.  Intake: three requests by two clients, with one key,   *)
(* an empty one or none, and one restart of the process.  Brief: one       *)
(* feedback text, two attempts, two rounds and two mishaps.                *)
(***************************************************************************)
EXTENDS Intake, RateLimiter, BriefRun

CONSTANTS c1, c2, k1, empty, none, r1, r2, r3, nothing, t1, t2

VARIABLE part

MCFeedback == {"shorter"}

\* Requests and clients only differ by name: the first requests are those of
\* c1, and among the requests of a client the first ones have the key.  All that
\* have one have the same, since requests of different keys do not meet.
UpToNames ==
    /\ \E k \in Key : \A r \in Request : key[r] \in {k, NoKey}
    /\ client[r1] = c1 /\ client[r2] = c1
    /\ key[r2] # NoKey => key[r1] # NoKey
    /\ client[r3] = c1 /\ key[r3] # NoKey => key[r2] # NoKey

MCInit ==
    /\ part \in {"intake", "limiter", "brief"}
    /\ Init /\ RateInit /\ BriefInit
    /\ UpToNames
    /\ part # "intake" => client[r3] = c1 /\ key[r1] = NoKey /\ key[r3] = NoKey
    /\ part # "brief" => request = "none" /\ hitl_required

MCNext ==
    /\ UNCHANGED part
    /\ \/ part = "intake" /\ Next /\ UNCHANGED <<rateVars, briefVars>>
       \/ part = "limiter" /\ RateNext /\ UNCHANGED <<vars, briefVars>>
       \/ part = "brief" /\ BriefNext /\ UNCHANGED <<vars, rateVars>>

\* The request threads of the API serve what has arrived.
MCSpec ==
    /\ MCInit /\ [][MCNext]_<<part, vars, rateVars, briefVars>>
    /\ \A r \in Request : WF_vars(Serve(r) /\ part = "intake")
=============================================================================
