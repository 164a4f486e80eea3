---------------------------- MODULE KeyedIntake ----------------------------
(***************************************************************************)
(* What POST /shorts promises whoever sends an Idempotency-Key: the key    *)
(* stands for one workflow, and only its owner is ever told of it.         *)
(***************************************************************************)
CONSTANTS
    Client,    \* the callers: the ids of the API keys
    Key,       \* the idempotency keys
    NoKey,     \* a request without one
    Workflow   \* the workflow ids

VARIABLES
    made,  \* the workflows there are, with their key and owner
    told   \* who was told of which workflow, under which key

vars == <<made, told>>

Init ==
    /\ made = {}
    /\ told = {}

Make(w, k, c) ==
    /\ \A m \in made : m.workflow # w
    /\ k # NoKey => \A m \in made : m.key # k
    /\ made' = made \cup {[workflow |-> w, key |-> k, owner |-> c]}
    /\ UNCHANGED told

\* A workflow without a key is told of to the request that made it.
Tell(w, k, c) ==
    /\ [workflow |-> w, key |-> k, owner |-> c] \in made
    /\ told' = told \cup {[workflow |-> w, key |-> k, owner |-> c]}
    /\ UNCHANGED made

Next ==
    \E w \in Workflow, k \in Key \cup {NoKey}, c \in Client :
        Make(w, k, c) \/ Tell(w, k, c)

Spec == Init /\ [][Next]_vars
=============================================================================
