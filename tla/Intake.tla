------------------------------- MODULE Intake -------------------------------
(***************************************************************************)
(* POST /shorts, from the request to its answer: api/app.py,               *)
(* api/service.py (enqueue_short) and the database session under them.     *)
(*                                                                         *)
(* Every request has a thread and a transaction of its own.  A client that *)
(* loses patience sends another request with the same key, while the first *)
(* one goes on in the server.  A request that creates a workflow gives its *)
(* own name to it.  When the rate limiter refuses is RateLimiter's matter. *)
(***************************************************************************)
EXTENDS Naturals

CONSTANTS
    Client,     \* the callers: the ids of the API keys
    Key,        \* the idempotency keys
    NoKey,      \* a request without one: not a member of Key
    EmptyKey,   \* the key of a header without a value
    Request,    \* bound: the requests
    Nothing,    \* no workflow: not a request
    MaxCrashes  \* bound: the crashes and restarts of the API process

ASSUME IntakeAssumption ==
    /\ NoKey \notin Key /\ EmptyKey \in Key
    /\ Nothing \notin Request
    /\ MaxCrashes \in Nat

VARIABLES
    draining,   \* runtime_lifecycle: shutdown was requested
    crashes,
    pc,         \* how far the server is with a request
    client,     \* who sent it
    key,        \* its Idempotency-Key
    workflows,  \* the committed rows of workflows, by the request that made them
    jobs,       \* the committed rows of jobs, by the request that made them
    answer      \* what the server answered: code and workflow

vars == <<draining, crashes, pc, client, key, workflows, jobs, answer>>

\* "missed" (no row has the key), "created" (the workflow row is flushed),
\* "inserted" (the job row too), "committed"
InServer == {"arrived", "missed", "created", "inserted", "committed"}

Code == {"none", "accepted", "unavailable", "refused", "forbidden", "conflict", "error"}

NoAnswer == [code |-> "none", workflow |-> Nothing]

TypeOK ==
    /\ draining \in BOOLEAN
    /\ crashes \in 0..MaxCrashes
    /\ pc \in [Request -> InServer \cup {"unsent", "answered", "gone"}]
    /\ client \in [Request -> Client]
    /\ key \in [Request -> Key \cup {NoKey}]
    /\ workflows \subseteq Request
    /\ jobs \subseteq Request
    /\ answer \in [Request -> [code : Code, workflow : Request \cup {Nothing}]]

\* Who will send what is chosen at the start, when they do is not.
Init ==
    /\ draining = FALSE
    /\ crashes = 0
    /\ pc = [r \in Request |-> "unsent"]
    /\ client \in [Request -> Client]
    /\ key \in [Request -> Key \cup {NoKey}]
    /\ workflows = {}
    /\ jobs = {}
    /\ answer = [r \in Request |-> NoAnswer]

-----------------------------------------------------------------------------

Goes(r, to) == pc' = [pc EXCEPT ![r] = to]

Answers(r, code, w) ==
    /\ Goes(r, "answered")
    /\ answer' = [answer EXCEPT ![r] = [code |-> code, workflow |-> w]]
    /\ UNCHANGED <<draining, crashes, client, key>>

Send(r) ==
    /\ pc[r] = "unsent"
    /\ Goes(r, "arrived")
    /\ UNCHANGED <<draining, crashes, client, key, workflows, jobs, answer>>

\* _reject_if_draining
RejectDraining(r) ==
    /\ pc[r] = "arrived"
    /\ draining
    /\ Answers(r, "unavailable", Nothing)
    /\ UNCHANGED <<workflows, jobs>>

\* By the rate limiter (429) or for the topic (400).
Refuse(r) ==
    /\ pc[r] = "arrived"
    /\ ~draining
    /\ Answers(r, "refused", Nothing)
    /\ UNCHANGED <<workflows, jobs>>

SameKey(q, r) == key[r] # NoKey /\ key[q] = key[r]

\* Mutant: the owner is not looked at.
Owns_Anyone(r, q) == TRUE

\* _require_owner
Owns(r, q) == client[q] = client[r]

\* An empty key is stored like any other, but no row is looked for.
LooksUp(r) == key[r] \notin {NoKey, EmptyKey}

\* get_by_idempotency finds a row.
Replay(r) ==
    /\ pc[r] = "arrived"
    /\ ~draining
    /\ LooksUp(r)
    /\ \E q \in jobs :
          /\ SameKey(q, r)
          /\ \/ Owns(r, q) /\ Answers(r, "accepted", q)
             \/ ~Owns(r, q) /\ Answers(r, "forbidden", Nothing)
    /\ UNCHANGED <<workflows, jobs>>

Miss(r) ==
    /\ pc[r] = "arrived"
    /\ ~draining
    /\ LooksUp(r) => \A q \in jobs : ~SameKey(q, r)
    /\ Goes(r, "missed")
    /\ UNCHANGED <<draining, crashes, client, key, workflows, jobs, answer>>

\* Mutant: create_workflow commits.
CreateWorkflow_Commits(r) ==
    /\ pc[r] = "missed"
    /\ Goes(r, "created")
    /\ workflows' = workflows \cup {r}
    /\ UNCHANGED <<draining, crashes, client, key, jobs, answer>>

CreateWorkflow(r) ==
    /\ pc[r] = "missed"
    /\ Goes(r, "created")
    /\ UNCHANGED <<draining, crashes, client, key, workflows, jobs, answer>>

\* Mutant: idempotency_key is not unique.
Taken_Never(r) == FALSE

\* A committed row has the key.
Taken(r) == \E q \in jobs : SameKey(q, r)

\* Mutant: a transaction that has ended holds up the next one.
Waits_Ended(r) == \E q \in Request \ {r} : SameKey(q, r) /\ pc[q] \in {"inserted", "gone"}

\* The unique index makes an insert wait for an open transaction with its key.
Waits(r) == \E q \in Request \ {r} : SameKey(q, r) /\ pc[q] = "inserted"

InsertJob(r) ==
    /\ pc[r] = "created"
    /\ ~Waits(r)
    /\ ~Taken(r)
    /\ Goes(r, "inserted")
    /\ UNCHANGED <<draining, crashes, client, key, workflows, jobs, answer>>

\* The IntegrityError of the insert is nobody's to handle: rollback, and 500.
Conflict(r) ==
    /\ pc[r] = "created"
    /\ ~Waits(r)
    /\ Taken(r)
    /\ Answers(r, "conflict", Nothing)
    /\ UNCHANGED <<workflows, jobs>>

Commit(r) ==
    /\ pc[r] = "inserted"
    /\ Goes(r, "committed")
    /\ workflows' = workflows \cup {r}
    /\ jobs' = jobs \cup {r}
    /\ UNCHANGED <<draining, crashes, client, key, answer>>

Accept(r) ==
    /\ pc[r] = "committed"
    /\ Answers(r, "accepted", r)
    /\ UNCHANGED <<workflows, jobs>>

\* A statement fails, and the session rolls back.
StatementFails(r) ==
    /\ pc[r] \in {"arrived", "missed", "created", "inserted"}
    /\ pc[r] = "arrived" => ~draining
    /\ Answers(r, "error", Nothing)
    /\ UNCHANGED <<workflows, jobs>>

\* The connection breaks on the way back from a commit that took effect.
CommitFails(r) ==
    /\ pc[r] = "inserted"
    /\ workflows' = workflows \cup {r}
    /\ jobs' = jobs \cup {r}
    /\ Answers(r, "error", Nothing)

\* The lifespan of the application ends.
Drain ==
    /\ ~draining
    /\ draining' = TRUE
    /\ UNCHANGED <<crashes, pc, client, key, workflows, jobs, answer>>

\* The process ends, whatever it is at, and starts anew.
Restart ==
    /\ crashes < MaxCrashes
    /\ crashes' = crashes + 1
    /\ draining' = FALSE
    /\ pc' = [r \in Request |-> IF pc[r] \in InServer THEN "gone" ELSE pc[r]]
    /\ UNCHANGED <<client, key, workflows, jobs, answer>>

Serve(r) ==
    \/ RejectDraining(r) \/ Refuse(r) \/ Replay(r) \/ Miss(r)
    \/ CreateWorkflow(r) \/ InsertJob(r) \/ Conflict(r)
    \/ Commit(r) \/ Accept(r)

Next ==
    \/ \E r \in Request : Send(r) \/ Serve(r) \/ StatementFails(r) \/ CommitFails(r)
    \/ Drain
    \/ Restart

Spec == Init /\ [][Next]_vars

\* The threads of the API process run; nothing has to fail.
FairSpec == Spec /\ \A r \in Request : WF_vars(Serve(r))

-----------------------------------------------------------------------------
(***************************************************************************)
(* Properties.                                                             *)
(***************************************************************************)

Submission(r, w) == [workflow |-> w, key |-> key[r], owner |-> client[r]]

Made == {Submission(q, q) : q \in jobs}

Told == {Submission(r, answer[r].workflow) : r \in {r \in Request : answer[r].code = "accepted"}}

Promise == INSTANCE KeyedIntake WITH
    Workflow <- Request, made <- Made, told <- Told

\* Whatever requests with one key overlap, fail, or are sent again after a
\* lost answer, one workflow is made for it; an answer names the workflow of
\* its key, to its owner only, and names it only when it is there to stay.
KeepsPromise == Promise!Spec

\* A submission that fails halfway leaves nothing: no workflow without the job
\* that would run it, no job without its workflow.
AcceptedWhole == workflows = jobs

\* Every request is answered, or its process ends: inserts that wait for each
\* other's transaction do not wait forever.
RequestsAreAnswered ==
    \A r \in Request : pc[r] = "arrived" ~> pc[r] \in {"answered", "gone"}

\* "If you send the same `Idempotency-Key` again, the API returns the
\* **original** `workflow_id`" (docs/runbooks/api.md:126).
SameKeyIsReplayed ==
    [][\A r, q \in Request : Conflict(r) /\ q \in jobs /\ SameKey(q, r) => ~Owns(r, q)]_vars

\* The inductive invariant: an open insert has its key to itself, and what was
\* accepted is committed.
IntakeInv ==
    /\ TypeOK
    /\ AcceptedWhole
    /\ \A r \in Request :
          /\ pc[r] = "committed" => r \in jobs
          /\ pc[r] \in InServer \ {"committed"} => r \notin jobs
          /\ pc[r] = "unsent" => r \notin jobs
          /\ pc[r] = "inserted" => ~Taken(r) /\ ~Waits(r)
          /\ pc[r] # "answered" => answer[r] = NoAnswer
    /\ \A q, r \in jobs : SameKey(q, r) => q = r
=============================================================================
