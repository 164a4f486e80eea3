------------------------- MODULE WorkerCallsProofs -------------------------
(***************************************************************************)
(* Proofs about what a worker waits for.  ResearchNotes: for every timeout *)
(* and latency, late hits are dropped and only a required agent fails the  *)
(* run.  JobClaim: for any set of workers, any number of jobs and of       *)
(* attempts, claim_next with the row locks of PostgreSQL is the atomic     *)
(* claim of JobBoard.                                                      *)
(***************************************************************************)
EXTENDS JobClaim, ResearchNotes, TLAPS

-----------------------------------------------------------------------------
(***************************************************************************)
(* The research.                                                           *)
(***************************************************************************)

\* The node starts in the invariant.
LEMMA ResearchInitIInv == ResearchInit => ResearchIInv
<1> SUFFICES ASSUME ResearchInit PROVE ResearchIInv
    OBVIOUS
<1> USE ResearchAssumption DEF ResearchInit, Idle
<1>1. ResearchTypeOK
    BY DEF ResearchTypeOK, Settings
<1>2. OnlyRequiredFails
    BY DEF OnlyRequiredFails
<1>3. CallsInv
    BY DEF CallsInv
<1>4. NodeInv
    BY DEF NodeInv
<1>5. WaitInv
    BY <1>1 DEF WaitInv, WaitedSoFar, ResearchTypeOK
<1> QED
    BY <1>1, <1>2, <1>3, <1>4, <1>5 DEF ResearchIInv

\* The fields of a state that is well-typed.
LEMMA FieldsOf ==
    ASSUME ResearchTypeOK
    PROVE  /\ tools.at \in Tool \cup {"idle", "over"} /\ tools.age \in 0..MaxLatency
           /\ tools.late \in BOOLEAN
           /\ tools = [at |-> tools.at, age |-> tools.age, late |-> tools.late]
           /\ settings.a2a \in BOOLEAN /\ settings.allowed \subseteq Tool
           /\ settings.required \in BOOLEAN /\ settings.catalog \in BOOLEAN
           /\ waited \in Nat /\ {Timeout, MaxLatency, A2ATimeout} \subseteq Nat
BY ResearchAssumption DEF ResearchTypeOK, Settings

Calls == [at : Tool \cup {"idle", "over"}, age : 0..MaxLatency, late : BOOLEAN]

\* What the next call of the catalog is.
LEMMA CallsToMake ==
    /\ FirstCall \in Calls
    /\ FirstCall.at \in {"search_shorts", "over"} /\ FirstCall.age = 0 /\ FirstCall.late = FALSE
    /\ NextCall \in Calls
    /\ NextCall.at = IF tools.at = "search_shorts" THEN "list_recent_shorts" ELSE "over"
    /\ NextCall.age = 0 /\ NextCall.late = FALSE
<1>1. 0 \in 0..MaxLatency
    BY ResearchAssumption
<1> QED
    BY <1>1 DEF FirstCall, NextCall, Idle, Calls, Tool

\* A call that is refused, and one that ends: the next one begins.
LEMMA NextCallKeeps ==
    ASSUME ResearchIInv, tools.at \in Tool, tools.at \in settings.allowed \/ notes' = notes,
           tools' = NextCall, UNCHANGED <<settings, node, peer, waited, result, overdue>>,
           notes' \in {notes, IF Usable THEN notes \cup {tools.at} ELSE notes}
    PROVE  ResearchIInv'
<1> DEFINE n == NextCall
<1>1. tools' = n /\ UNCHANGED <<settings, node, peer, waited, result, overdue>>
    OBVIOUS
<1>2. /\ n \in Calls
      /\ n.at = IF tools.at = "search_shorts" THEN "list_recent_shorts" ELSE "over"
      /\ n.age = 0 /\ n.late = FALSE
    BY CallsToMake
<1> HIDE DEF n
<1>3. /\ notes' = notes \/ (~tools.late /\ notes' = notes \cup {tools.at})
      /\ notes \subseteq notes' /\ notes' \subseteq Tool
    BY DEF Usable, ResearchIInv, ResearchTypeOK
<1>4. ResearchTypeOK'
    BY <1>1, <1>2, <1>3 DEF ResearchIInv, ResearchTypeOK, Calls
<1>5. OnlyRequiredFails'
    BY <1>1 DEF ResearchIInv, OnlyRequiredFails
<1>6. CallsInv'
    BY <1>1, <1>2, <1>3 DEF ResearchIInv, CallsInv, Unfinished, Tool
<1>7. NodeInv'
    BY <1>1, <1>2, <1>3 DEF ResearchIInv, NodeInv, Tool
<1>8. WaitInv'
    BY <1>1, <1>2, FieldsOf DEF ResearchIInv, WaitInv, WaitedSoFar, Tool
<1> QED
    BY <1>4, <1>5, <1>6, <1>7, <1>8 DEF ResearchIInv

\* A call that times out, and the passing of time, change how old a call is.
LEMMA CallAges ==
    ASSUME ResearchIInv, UNCHANGED <<settings, node, peer, notes, result>>,
           NEW w \in Calls, tools' = w, w.at = tools.at,
           ResearchTypeOK', WaitInv', waited' = waited \/ node # "begin",
           \/ w = tools /\ overdue' = overdue
           \/ tools.at \in Tool /\ w.late = tools.late /\ overdue' = overdue
           \/ tools.at \in Tool /\ ~tools.late /\ w.late /\ overdue' = overdue \cup {tools.at}
    PROVE  ResearchIInv'
<1>1. OnlyRequiredFails'
    BY DEF ResearchIInv, OnlyRequiredFails
<1>2. CallsInv'
    BY DEF ResearchIInv, CallsInv, Unfinished, Tool
<1>3. NodeInv'
    BY DEF ResearchIInv, NodeInv
<1> QED
    BY <1>1, <1>2, <1>3 DEF ResearchIInv

\* The caller gives up a call, and only marks it.
LEMMA CallTimesOutKeeps == ResearchIInv /\ CallTimesOut => ResearchIInv'
<1> SUFFICES ASSUME ResearchIInv, CallTimesOut PROVE ResearchIInv'
    OBVIOUS
<1>1. /\ UNCHANGED <<settings, node, peer, waited, notes, result>>
      /\ tools.at \in Tool /\ ~tools.late
      /\ overdue' = overdue \cup {tools.at}
      /\ tools' = [tools EXCEPT !.late = TRUE]
    BY DEF CallTimesOut, Calling
<1> DEFINE w == [tools EXCEPT !.late = TRUE]
<1>2. w \in Calls /\ w.at = tools.at /\ w.age = tools.age /\ w.late = TRUE /\ tools' = w
    BY <1>1 DEF ResearchIInv, ResearchTypeOK, Calls
<1> HIDE DEF w
<1>3. ResearchTypeOK'
    BY <1>1, <1>2 DEF ResearchIInv, ResearchTypeOK, Calls
<1>4. WaitInv'
    BY <1>1, <1>2 DEF ResearchIInv, WaitInv, WaitedSoFar
<1> QED
    BY <1>1, <1>2, <1>3, <1>4, CallAges

\* Time passes: the bound on the wait grows with the age of the call.
LEMMA TickKeeps == ResearchIInv /\ Tick => ResearchIInv'
<1> SUFFICES ASSUME ResearchIInv, Tick PROVE ResearchIInv'
    OBVIOUS
<1>1. /\ UNCHANGED <<settings, node, peer, notes, result, overdue>>
      /\ node \in {"catalog", "asking"} /\ waited' = waited + 1
      /\ node = "asking" => waited < A2ATimeout
      /\ Calling => tools.age < MaxLatency
      /\ Calling \/ node = "asking"
      /\ tools' = IF Calling THEN [tools EXCEPT !.age = @ + 1] ELSE tools
    BY DEF Tick
<1> DEFINE w == IF Calling THEN [tools EXCEPT !.age = @ + 1] ELSE tools
<1>2. /\ w \in Calls /\ w.at = tools.at /\ w.late = tools.late /\ tools' = w
      /\ w.age = IF Calling THEN tools.age + 1 ELSE tools.age
    <2>1. CASE Calling
        <3>1. tools.age + 1 \in 0..MaxLatency
            BY <1>1, <2>1, FieldsOf DEF ResearchIInv
        <3> QED
            BY <1>1, <2>1, <3>1 DEF ResearchIInv, ResearchTypeOK, Calls
    <2>2. CASE ~Calling
        BY <1>1, <2>2 DEF ResearchIInv, ResearchTypeOK, Calls
    <2> QED
        BY <2>1, <2>2
<1>3. w = tools \/ (tools.at \in Tool /\ w.late = tools.late)
    BY <1>2 DEF Calling
<1> HIDE DEF w
<1>4. WaitInv'
    <2>1. CASE settings.a2a
        BY <1>1, <2>1, FieldsOf DEF ResearchIInv, WaitInv, NodeInv
    <2>2. CASE ~settings.a2a
        BY <1>1, <1>2, <2>2, FieldsOf DEF ResearchIInv, WaitInv, NodeInv, WaitedSoFar, Calling, Tool
    <2> QED
        BY <2>1, <2>2
<1>5. waited' \in 0..(2 * MaxLatency + A2ATimeout)
    <2>1. /\ w.at \in {"idle", "search_shorts", "list_recent_shorts", "over"}
          /\ w.age \in Nat /\ w.age <= MaxLatency /\ MaxLatency \in Nat
        BY <1>2, FieldsOf DEF Calls, Tool, ResearchIInv
    <2>2. WaitedSoFar' \in Nat /\ WaitedSoFar' <= 2 * MaxLatency
        BY <1>2, <2>1 DEF WaitedSoFar
    <2> QED
        BY <1>1, <1>4, <2>2, FieldsOf DEF ResearchIInv, WaitInv
<1>6. ResearchTypeOK'
    BY <1>1, <1>2, <1>5 DEF ResearchIInv, ResearchTypeOK, Calls
<1> QED
    BY <1>1, <1>2, <1>3, <1>4, <1>6, CallAges

\* A call ends, in time or late.
LEMMA CallEndsKeeps == ResearchIInv /\ CallEnds => ResearchIInv'
BY NextCallKeeps DEF CallEnds, Calling

\* A tool that is not allowed is passed over.
LEMMA CallRefusedKeeps == ResearchIInv /\ CallRefused => ResearchIInv'
BY NextCallKeeps DEF CallRefused, Calling

\* The node returns, whatever it has, once.
LEMMA ReturnKeeps ==
    ASSUME ResearchIInv, UNCHANGED <<settings, calls, waited>>,
           NEW s \in {"RESEARCHING", "FAILED"}, NEW research \in {"demo", "a2a", "empty", "none"},
           NEW hits \in {notes, {}}, Return(s, research, hits),
           s = "FAILED" => settings.a2a /\ settings.required,
           research = "empty" => settings.a2a,
           ~settings.a2a => tools.at = "over",
           peer' = peer \/ (peer' = "done" /\ peer = "working")
    PROVE  ResearchIInv'
<1>1. /\ node' = "done" /\ result' = [status |-> s, research |-> research, hits |-> hits]
      /\ UNCHANGED <<settings, tools, notes, overdue, waited>>
    BY DEF Return, calls
<1>2. /\ result'.status = s /\ result'.research = research /\ result'.hits = hits
      /\ hits \subseteq notes /\ hits \subseteq Tool
    BY <1>1 DEF ResearchIInv, ResearchTypeOK
<1>3. ResearchTypeOK'
    BY <1>1, <1>2 DEF ResearchIInv, ResearchTypeOK
<1>4. OnlyRequiredFails'
    BY <1>1, <1>2 DEF OnlyRequiredFails
<1>5. CallsInv'
    BY <1>1 DEF ResearchIInv, CallsInv, Unfinished
<1>6. NodeInv'
    BY <1>1, <1>2 DEF ResearchIInv, NodeInv
<1>7. WaitInv'
    BY <1>1 DEF ResearchIInv, WaitInv, WaitedSoFar
<1> QED
    BY <1>3, <1>4, <1>5, <1>6, <1>7 DEF ResearchIInv

\* The first call, of the node or of the agent.
LEMMA FirstCallKeeps ==
    ASSUME ResearchIInv, tools' = FirstCall, tools.at = "idle",
           UNCHANGED <<settings, waited, notes, result, overdue>>,
           \/ node = "begin" /\ ~settings.a2a /\ node' = "catalog" /\ peer' = peer
           \/ node = "asking" /\ node' = node /\ peer' = "working"
    PROVE  ResearchIInv'
<1> DEFINE n == FirstCall
<1>1. tools' = n /\ UNCHANGED <<settings, waited, notes, result, overdue>>
    OBVIOUS
<1>2. /\ n \in Calls /\ n.at \in {"search_shorts", "over"}
      /\ n.age = 0 /\ n.late = FALSE
    BY CallsToMake
<1> HIDE DEF n
<1>3. ResearchTypeOK'
    BY <1>1, <1>2 DEF ResearchIInv, ResearchTypeOK, Calls
<1>4. OnlyRequiredFails'
    BY <1>1 DEF ResearchIInv, OnlyRequiredFails
<1>5. CallsInv'
    BY <1>1, <1>2 DEF ResearchIInv, CallsInv, Unfinished
<1>6. NodeInv'
    BY <1>1, <1>2 DEF ResearchIInv, NodeInv
<1>7. WaitInv'
    BY <1>1, <1>2, FieldsOf DEF ResearchIInv, WaitInv, WaitedSoFar, NodeInv
<1> QED
    BY <1>3, <1>4, <1>5, <1>6, <1>7 DEF ResearchIInv

\* The agent answers a client that has gone.
LEMMA UnreadKeeps ==
    ASSUME ResearchIInv, UNCHANGED <<settings, calls, waited, node, result>>,
           peer = "working", peer' = "done"
    PROVE  ResearchIInv'
BY DEF ResearchIInv, calls, ResearchTypeOK, OnlyRequiredFails, CallsInv, Unfinished, NodeInv,
       WaitInv, WaitedSoFar

\* Every step of the node, the agent and the clock keeps the invariant.
LEMMA ResearchStep == ResearchIInv /\ [ResearchNext]_researchVars => ResearchIInv'
<1> SUFFICES ASSUME ResearchIInv, [ResearchNext]_researchVars PROVE ResearchIInv'
    OBVIOUS
<1>1. CASE Begin
    <2>1. tools.at = "idle" /\ node = "begin"
        BY <1>1 DEF Begin, NodeInv, ResearchIInv
    <2>2. CASE settings.a2a
        BY <1>1, <2>1, <2>2 DEF Begin, ResearchTypeOK, OnlyRequiredFails, CallsInv, Unfinished,
                                NodeInv, WaitInv, WaitedSoFar, ResearchIInv
    <2>3. CASE ~settings.a2a
        BY <1>1, <2>1, <2>3, FirstCallKeeps DEF Begin
    <2> QED
        BY <2>2, <2>3
<1>2. CASE CatalogNotes
    BY <1>2, ReturnKeeps DEF CatalogNotes, calls
<1>3. CASE PeerBegins
    BY <1>3, FirstCallKeeps DEF PeerBegins, NodeInv, ResearchIInv
<1>4. CASE PeerAnswers
    <2>1. CASE node = "asking"
        BY <1>4, <2>1, ReturnKeeps DEF PeerAnswers, NodeInv, ResearchIInv
    <2>2. CASE node # "asking"
        BY <1>4, <2>2, UnreadKeeps DEF PeerAnswers
    <2> QED
        BY <2>1, <2>2
<1>5. ASSUME node = "asking", Degrade, UNCHANGED <<settings, calls, waited>>,
             peer' = peer \/ (peer' = "done" /\ peer = "working")
      PROVE  ResearchIInv'
    <2>1. settings.a2a
        BY <1>5 DEF NodeInv, ResearchIInv
    <2>2. CASE settings.required
        BY <1>5, <2>1, <2>2, ReturnKeeps DEF Degrade
    <2>3. CASE ~settings.required
        BY <1>5, <2>1, <2>3, ReturnKeeps DEF Degrade
    <2> QED
        BY <2>2, <2>3
<1>6. CASE AskFails
    BY <1>5, <1>6 DEF AskFails
<1>7. CASE AskTimesOut
    BY <1>5, <1>7 DEF AskTimesOut
<1>8. CASE UNCHANGED researchVars
    <2>1. UNCHANGED <<settings, node, tools, notes, overdue, peer, waited, result>>
        BY <1>8 DEF researchVars, calls
    <2>2. ResearchTypeOK' /\ OnlyRequiredFails'
        BY <2>1 DEF ResearchIInv, ResearchTypeOK, OnlyRequiredFails
    <2>3. CallsInv' /\ NodeInv'
        BY <2>1 DEF ResearchIInv, CallsInv, Unfinished, NodeInv
    <2>4. WaitInv'
        BY <2>1 DEF ResearchIInv, WaitInv, WaitedSoFar
    <2> QED
        BY <2>2, <2>3, <2>4 DEF ResearchIInv
<1> QED
    BY <1>1, <1>2, <1>3, <1>4, <1>6, <1>7, <1>8, CallRefusedKeeps, CallTimesOutKeeps,
       CallEndsKeeps, TickKeeps DEF ResearchNext, Progress

\* What the inductive invariant says in the terms of the properties.
LEMMA ResearchIsBounded == ResearchIInv => ResearchInv
<1> SUFFICES ASSUME ResearchIInv PROVE ResearchInv
    OBVIOUS
<1>1. LateHitsAreDropped
    BY DEF ResearchIInv, CallsInv, NodeInv, LateHitsAreDropped, ResearchTypeOK
<1>2. BoundedByCalls
    <2>1. WaitedSoFar <= 2 * MaxLatency /\ WaitedSoFar \in Nat
        BY FieldsOf DEF ResearchIInv, WaitedSoFar, Tool
    <2> QED
        BY <2>1, FieldsOf DEF ResearchIInv, WaitInv, BoundedByCalls
<1> QED
    BY <1>1, <1>2 DEF ResearchIInv, ResearchInv

\* Late hits are dropped, only a required agent fails the run, and its research
\* takes no longer than its calls: for every timeout and latency.
THEOREM ResearchInvariance == ResearchSpec => []ResearchInv
BY ResearchInitIInv, ResearchStep, ResearchIsBounded, PTL DEF ResearchSpec

-----------------------------------------------------------------------------
(***************************************************************************)
(* The claim.                                                              *)
(***************************************************************************)

USE ClaimAssumption

Postgres == Backend = "postgresql"

LEMMA ClaimInit == Init => ClaimInv
BY SMT DEF Init, ClaimInv, TypeOK, Row, Job, NothingLoaded, NoJob

\* Writing one field of a row.
LEMMA RowFields ==
    ASSUME NEW x \in Row
    PROVE  /\ \A s \in Outcome \cup {"queued", "running"} :
                 LET y == [x EXCEPT !.status = s]
                 IN  y \in Row /\ y.status = s /\ y.attempts = x.attempts
           /\ \A a \in Nat :
                 LET y == [x EXCEPT !.attempts = a]
                 IN  y \in Row /\ y.status = x.status /\ y.attempts = a
           /\ \A d \in {"now", "later"} :
                 LET y == [x EXCEPT !.due = d]
                 IN  y \in Row /\ y.status = x.status /\ y.attempts = x.attempts
<1>1. \A s \in Outcome \cup {"queued", "running"} :
         LET y == [x EXCEPT !.status = s]
         IN  y \in Row /\ y.status = s /\ y.attempts = x.attempts
      BY SMT DEF Row
<1>2. \A a \in Nat :
         LET y == [x EXCEPT !.attempts = a]
         IN  y \in Row /\ y.status = x.status /\ y.attempts = a
      BY SMT DEF Row
<1>3. \A d \in {"now", "later"} :
         LET y == [x EXCEPT !.due = d]
         IN  y \in Row /\ y.status = x.status /\ y.attempts = x.attempts
      BY SMT DEF Row
<1>4. QED
      BY <1>1, <1>2, <1>3

-----------------------------------------------------------------------------
(***************************************************************************)
(* Every step keeps ClaimInv, one lemma per action.                        *)
(***************************************************************************)

LEMMA SelectKeeps ==
    ASSUME Postgres, ClaimInv, NEW w \in Worker, Select(w)
    PROVE  ClaimInv'
<1>1. PICK j \in Selectable :
          /\ lock' = [lock EXCEPT ![j] = w]
          /\ loaded' = [loaded EXCEPT ![w] = [job |-> j, attempts |-> row[j].attempts]]
      BY DEF Select, Locks, Postgres
<1>2. /\ j \in Job /\ lock[j] = Nobody /\ row[j].status = "queued"
      /\ pc[w] = "idle"
      /\ pc' = [pc EXCEPT ![w] = "selected"]
      /\ UNCHANGED <<row, claims, crashes>>
      BY DEF Selectable, Claimable, Select
<1>3. j # NoJob /\ row[j].attempts \in Nat
      BY <1>2, SMT DEF Job, NoJob, ClaimInv, TypeOK, Row
<1>4. TypeOK'
      BY <1>1, <1>2, <1>3 DEF ClaimInv, TypeOK
<1>5. QED
      BY <1>1, <1>2, <1>3, <1>4, SMT DEF ClaimInv, TypeOK

LEMMA CommitKeeps ==
    ASSUME Postgres, ClaimInv, NEW w \in Worker, Commit(w)
    PROVE  ClaimInv'
<1> DEFINE j == loaded[w].job
           r == [row[j] EXCEPT !.status = "running", !.attempts = loaded[w].attempts + 1]
<1>1. /\ pc[w] = "selected"
      /\ row' = [row EXCEPT ![j] = r]
      /\ lock' = [lock EXCEPT ![j] = Nobody]
      /\ claims' = [claims EXCEPT ![j] = @ + 1]
      /\ pc' = [pc EXCEPT ![w] = "working"]
      /\ UNCHANGED <<loaded, crashes>>
      BY DEF Commit
<1>2. /\ j \in Job /\ lock[j] = w
      /\ row[j].status = "queued" /\ row[j].attempts = loaded[w].attempts
      BY <1>1, SMT DEF ClaimInv, TypeOK
<1>3. /\ claims[j] \in Nat /\ loaded[w].attempts = claims[j] /\ claims[j] < MaxAttempts
      BY <1>2 DEF ClaimInv, TypeOK
<1>4. r \in Row /\ r.status = "running" /\ r.attempts = claims[j] + 1
      <2>1. row[j] \in Row
            BY <1>2 DEF ClaimInv, TypeOK
      <2>2. loaded[w].attempts + 1 \in Nat /\ loaded[w].attempts + 1 = claims[j] + 1
            BY <1>3
      <2> DEFINE x == [row[j] EXCEPT !.status = "running"]
      <2>3. x \in Row /\ x.status = "running"
            BY <2>1, RowFields
      <2>4. r = [x EXCEPT !.attempts = loaded[w].attempts + 1]
            OBVIOUS
      <2> HIDE DEF x, r
      <2>5. QED
            BY <2>2, <2>3, <2>4, RowFields
<1> HIDE DEF r
<1>5. TypeOK'
      BY <1>1, <1>2, <1>3, <1>4, SMT DEF ClaimInv, TypeOK
<1>6. /\ row'[j] = r /\ claims'[j] = claims[j] + 1 /\ lock'[j] = Nobody
      /\ \A i \in Job : i # j => row'[i] = row[i] /\ claims'[i] = claims[i] /\ lock'[i] = lock[i]
      /\ pc'[w] = "working"
      /\ \A v \in Worker : v # w => pc'[v] = pc[v]
      BY <1>1, <1>2, SMT DEF ClaimInv, TypeOK
<1>7. \A v \in Worker : pc[v] = "selected" /\ v # w => loaded[v].job # j
      BY <1>2 DEF ClaimInv
<1>8. \A v \in Worker : pc[v] = "working" => loaded[v].job # j
      BY <1>2 DEF ClaimInv
<1>9. \A v \in Worker : pc'[v] = "selected" =>
          /\ lock'[loaded'[v].job] = v
          /\ row'[loaded'[v].job].status = "queued"
          /\ row'[loaded'[v].job].attempts = loaded'[v].attempts
      BY <1>1, <1>6, <1>7, SMT DEF ClaimInv, TypeOK
<1>10. \A v \in Worker : pc'[v] = "working" => row'[loaded'[v].job].status = "running"
       BY <1>1, <1>4, <1>6, <1>8, SMT DEF ClaimInv, TypeOK
<1>11. \A i \in Job : lock'[i] # Nobody => pc'[lock'[i]] = "selected" /\ loaded'[lock'[i]].job = i
       <2>1. SUFFICES ASSUME NEW i \in Job, lock'[i] # Nobody
                      PROVE  pc'[lock'[i]] = "selected" /\ loaded'[lock'[i]].job = i
             OBVIOUS
       <2>2. i # j /\ lock'[i] = lock[i] /\ lock[i] \in Worker
             BY <2>1, <1>6 DEF ClaimInv, TypeOK
       <2>3. pc[lock[i]] = "selected" /\ loaded[lock[i]].job = i
             BY <2>1, <2>2 DEF ClaimInv
       <2>4. lock[i] # w
             BY <2>2, <2>3
       <2>5. QED
             BY <2>2, <2>3, <2>4, <1>1, <1>6
<1>12. \A u, v \in Worker :
           pc'[u] = "working" /\ pc'[v] = "working" /\ loaded'[u].job = loaded'[v].job => u = v
       BY <1>1, <1>6, <1>8 DEF ClaimInv
<1>13. \A i \in Job :
           /\ row'[i].attempts = claims'[i]
           /\ claims'[i] <= MaxAttempts
           /\ row'[i].status = "queued" => claims'[i] < MaxAttempts
       BY <1>3, <1>4, <1>6, SMT DEF ClaimInv, TypeOK
<1>14. \A v \in Worker : pc'[v] = "idle" <=> loaded'[v].job = NoJob
       BY <1>1, <1>6 DEF ClaimInv
<1>15. QED
       BY <1>5, <1>9, <1>10, <1>11, <1>12, <1>13, <1>14 DEF ClaimInv

\* The worker writes the row of its job and lets go of it.
LEMMA PutDownKeeps ==
    ASSUME ClaimInv, NEW w \in Worker, pc[w] = "working", Done(w),
           NEW r \in Row, row' = [row EXCEPT ![loaded[w].job] = r],
           r.attempts = row[loaded[w].job].attempts,
           r.status = "queued" => r.attempts < MaxAttempts
    PROVE  ClaimInv'
<1> DEFINE j == loaded[w].job
<1>1. j \in Job /\ row[j].status = "running"
      BY SMT DEF ClaimInv, TypeOK
<1>2. /\ loaded' = [loaded EXCEPT ![w] = NothingLoaded]
      /\ pc' = [pc EXCEPT ![w] = "idle"]
      /\ UNCHANGED <<lock, claims, crashes>>
      BY DEF Done
<1>3. /\ row'[j] = r
      /\ \A i \in Job : i # j => row'[i] = row[i]
      /\ pc'[w] = "idle" /\ loaded'[w] = NothingLoaded
      /\ \A v \in Worker : v # w => pc'[v] = pc[v] /\ loaded'[v] = loaded[v]
      BY <1>1, <1>2, SMT DEF ClaimInv, TypeOK
<1>4. TypeOK'
      BY <1>1, <1>2, SMT DEF ClaimInv, TypeOK, NothingLoaded
<1>5. \A v \in Worker : pc[v] = "selected" => loaded[v].job # j
      BY <1>1, SMT DEF ClaimInv
<1>6. \A v \in Worker : pc[v] = "working" /\ v # w => loaded[v].job # j
      BY DEF ClaimInv
<1>7. NothingLoaded.job = NoJob
      BY DEF NothingLoaded
<1>8. \A v \in Worker : pc'[v] = "idle" <=> loaded'[v].job = NoJob
      BY <1>3, <1>7 DEF ClaimInv
<1>9. \A v \in Worker : pc'[v] = "selected" =>
          /\ lock'[loaded'[v].job] = v
          /\ row'[loaded'[v].job].status = "queued"
          /\ row'[loaded'[v].job].attempts = loaded'[v].attempts
      <2>1. SUFFICES ASSUME NEW v \in Worker, pc'[v] = "selected"
                     PROVE  /\ lock'[loaded'[v].job] = v
                            /\ row'[loaded'[v].job].status = "queued"
                            /\ row'[loaded'[v].job].attempts = loaded'[v].attempts
            OBVIOUS
      <2>2. v # w /\ pc[v] = "selected" /\ loaded'[v] = loaded[v]
            BY <2>1, <1>3
      <2>3. loaded[v].job \in Job
            BY <2>2, SMT DEF ClaimInv, TypeOK
      <2>4. QED
            BY <2>2, <2>3, <1>2, <1>3, <1>5, SMT DEF ClaimInv
<1>10. \A v \in Worker : pc'[v] = "working" => row'[loaded'[v].job].status = "running"
      <2>1. SUFFICES ASSUME NEW v \in Worker, pc'[v] = "working"
                     PROVE  row'[loaded'[v].job].status = "running"
            OBVIOUS
      <2>2. v # w /\ pc[v] = "working" /\ loaded'[v] = loaded[v]
            BY <2>1, <1>3
      <2>3. loaded[v].job \in Job
            BY <2>2, SMT DEF ClaimInv, TypeOK
      <2>4. QED
            BY <2>2, <2>3, <1>3, <1>6 DEF ClaimInv
<1>11. \A i \in Job : lock'[i] # Nobody => pc'[lock'[i]] = "selected" /\ loaded'[lock'[i]].job = i
      <2>1. SUFFICES ASSUME NEW i \in Job, lock[i] # Nobody
                     PROVE  pc'[lock[i]] = "selected" /\ loaded'[lock[i]].job = i
            BY <1>2
      <2>2. lock[i] \in Worker /\ pc[lock[i]] = "selected" /\ loaded[lock[i]].job = i
            BY <2>1 DEF ClaimInv, TypeOK
      <2>3. QED
            BY <2>2, <1>3
<1>12. \A u, v \in Worker :
           pc'[u] = "working" /\ pc'[v] = "working" /\ loaded'[u].job = loaded'[v].job => u = v
      BY <1>3 DEF ClaimInv
<1>13. \A i \in Job :
           /\ row'[i].attempts = claims'[i]
           /\ claims'[i] <= MaxAttempts
           /\ row'[i].status = "queued" => claims'[i] < MaxAttempts
      BY <1>1, <1>2, <1>3, SMT DEF ClaimInv, TypeOK
<1>14. QED
      BY <1>4, <1>8, <1>9, <1>10, <1>11, <1>12, <1>13 DEF ClaimInv

LEMMA CompleteKeeps ==
    ASSUME ClaimInv, NEW w \in Worker, Complete(w)
    PROVE  ClaimInv'
<1> DEFINE j == loaded[w].job
<1>1. PICK s \in Outcome : row' = [row EXCEPT ![j].status = s]
      BY DEF Complete
<1> DEFINE r == [row[j] EXCEPT !.status = s]
<1>2. j \in Job /\ row[j] \in Row
      BY SMT DEF ClaimInv, TypeOK, Complete
<1>3. r \in Row /\ r.attempts = row[j].attempts /\ r.status # "queued"
      BY <1>2, SMT DEF Row
<1>4. row' = [row EXCEPT ![j] = r]
      BY <1>1
<1>5. pc[w] = "working" /\ Done(w)
      BY DEF Complete
<1> HIDE DEF r
<1>6. QED
      BY <1>3, <1>4, <1>5, PutDownKeeps

LEMMA RetryLaterKeeps ==
    ASSUME ClaimInv, NEW w \in Worker, RetryLater(w)
    PROVE  ClaimInv'
<1> DEFINE j == loaded[w].job
<1>1. pc[w] = "working" /\ Done(w)
      BY DEF RetryLater
<1>2. j \in Job /\ row[j] \in Row
      BY <1>1, SMT DEF ClaimInv, TypeOK
<1>3. CASE Again(j)
      <2> DEFINE r == [row[j] EXCEPT !.status = "queued", !.due = "later"]
      <2>1. r \in Row /\ r.attempts = row[j].attempts
            <3> DEFINE x == [row[j] EXCEPT !.status = "queued"]
            <3>1. x \in Row /\ x.attempts = row[j].attempts
                  BY <1>2, RowFields
            <3>2. r = [x EXCEPT !.due = "later"]
                  OBVIOUS
            <3> HIDE DEF x, r
            <3>3. QED
                  BY <3>1, <3>2, RowFields
      <2>2. row' = [row EXCEPT ![j] = r]
            BY <1>3 DEF RetryLater
      <2>3. r.attempts < MaxAttempts
            BY <1>3, <2>1 DEF Again
      <2> HIDE DEF r
      <2>4. QED
            BY <2>1, <2>2, <2>3, <1>1, PutDownKeeps
<1>4. CASE ~Again(j)
      <2> DEFINE r == [row[j] EXCEPT !.status = "failed"]
      <2>1. "failed" \in Outcome /\ row' = [row EXCEPT ![j] = r]
            BY <1>4 DEF RetryLater
      <2>2. r \in Row /\ r.attempts = row[j].attempts /\ r.status # "queued"
            BY <1>2, <2>1, SMT DEF Row
      <2> HIDE DEF r
      <2>3. QED
            BY <2>1, <2>2, <1>1, PutDownKeeps
<1>5. QED
      BY <1>3, <1>4

LEMMA BecomesDueKeeps ==
    ASSUME ClaimInv, NEW j \in Job, BecomesDue(j)
    PROVE  ClaimInv'
<1> DEFINE r == [row[j] EXCEPT !.due = "now"]
<1>1. row[j] \in Row
      BY DEF ClaimInv, TypeOK
<1>2. r \in Row /\ r.attempts = row[j].attempts /\ r.status = row[j].status
      BY <1>1, SMT DEF Row
<1>3. row' = [row EXCEPT ![j] = r] /\ UNCHANGED <<lock, pc, loaded, claims, crashes>>
      BY DEF BecomesDue
<1> HIDE DEF r
<1>4. \A i \in Job : row'[i].attempts = row[i].attempts /\ row'[i].status = row[i].status
      BY <1>2, <1>3, SMT DEF ClaimInv, TypeOK
<1>5. TypeOK'
      BY <1>2, <1>3, SMT DEF ClaimInv, TypeOK
<1>6. \A v \in Worker : pc[v] # "idle" => loaded[v].job \in Job
      BY SMT DEF ClaimInv, TypeOK
<1>7. QED
      BY <1>3, <1>4, <1>5, <1>6, SMT DEF ClaimInv

LEMMA CrashKeeps ==
    ASSUME ClaimInv, NEW w \in Worker, Crash(w)
    PROVE  ClaimInv'
<1>1. /\ lock' = [j \in Job |-> IF lock[j] = w THEN Nobody ELSE lock[j]]
      /\ pc' = [pc EXCEPT ![w] = "idle"]
      /\ loaded' = [loaded EXCEPT ![w] = NothingLoaded]
      /\ UNCHANGED <<row, claims>>
      /\ crashes' \in 0..MaxCrashes
      BY SMT DEF Crash, ClaimInv, TypeOK
<1>2. /\ pc'[w] = "idle" /\ loaded'[w] = NothingLoaded
      /\ \A v \in Worker : v # w => pc'[v] = pc[v] /\ loaded'[v] = loaded[v]
      BY <1>1, SMT DEF ClaimInv, TypeOK
<1>3. TypeOK'
      BY <1>1, SMT DEF ClaimInv, TypeOK, NothingLoaded
<1>4. NothingLoaded.job = NoJob
      BY DEF NothingLoaded
<1>5. \A v \in Worker : pc[v] # "idle" => loaded[v].job \in Job
      BY SMT DEF ClaimInv, TypeOK
<1>6. \A v \in Worker : pc'[v] = "idle" <=> loaded'[v].job = NoJob
      BY <1>2, <1>4 DEF ClaimInv
<1>7. \A v \in Worker : pc'[v] = "selected" =>
          /\ lock'[loaded'[v].job] = v
          /\ row'[loaded'[v].job].status = "queued"
          /\ row'[loaded'[v].job].attempts = loaded'[v].attempts
      <2>1. SUFFICES ASSUME NEW v \in Worker, pc'[v] = "selected"
                     PROVE  /\ lock'[loaded'[v].job] = v
                            /\ row'[loaded'[v].job].status = "queued"
                            /\ row'[loaded'[v].job].attempts = loaded'[v].attempts
            OBVIOUS
      <2>2. v # w /\ pc[v] = "selected" /\ loaded'[v] = loaded[v]
            BY <2>1, <1>2
      <2>3. loaded[v].job \in Job /\ lock[loaded[v].job] = v
            BY <2>2, <1>5 DEF ClaimInv
      <2>4. lock'[loaded[v].job] = v
            BY <2>2, <2>3, <1>1
      <2>5. QED
            BY <2>2, <2>4, <1>1 DEF ClaimInv
<1>8. \A v \in Worker : pc'[v] = "working" => row'[loaded'[v].job].status = "running"
      BY <1>1, <1>2 DEF ClaimInv
<1>9. \A j \in Job : lock'[j] # Nobody => pc'[lock'[j]] = "selected" /\ loaded'[lock'[j]].job = j
      <2>1. SUFFICES ASSUME NEW j \in Job, lock'[j] # Nobody
                     PROVE  pc'[lock'[j]] = "selected" /\ loaded'[lock'[j]].job = j
            OBVIOUS
      <2>2. lock[j] # w /\ lock'[j] = lock[j]
            BY <2>1, <1>1
      <2>3. lock[j] \in Worker /\ pc[lock[j]] = "selected" /\ loaded[lock[j]].job = j
            BY <2>1, <2>2 DEF ClaimInv, TypeOK
      <2>4. QED
            BY <2>2, <2>3, <1>2
<1>10. \A u, v \in Worker :
           pc'[u] = "working" /\ pc'[v] = "working" /\ loaded'[u].job = loaded'[v].job => u = v
      BY <1>2 DEF ClaimInv
<1>11. QED
      BY <1>1, <1>3, <1>6, <1>7, <1>8, <1>9, <1>10 DEF ClaimInv

\* ClaimInv is inductive.
LEMMA ClaimStep ==
    ASSUME Postgres, ClaimInv, [Next]_vars
    PROVE  ClaimInv'
<1>1. ASSUME NEW w \in Worker, Select(w) PROVE ClaimInv'
      BY <1>1, SelectKeeps
<1>2. ASSUME NEW w \in Worker, Commit(w) PROVE ClaimInv'
      BY <1>2, CommitKeeps
<1>3. ASSUME NEW w \in Worker, Complete(w) PROVE ClaimInv'
      BY <1>3, CompleteKeeps
<1>4. ASSUME NEW w \in Worker, RetryLater(w) PROVE ClaimInv'
      BY <1>4, RetryLaterKeeps
<1>5. ASSUME NEW w \in Worker, Crash(w) PROVE ClaimInv'
      BY <1>5, CrashKeeps
<1>6. ASSUME NEW j \in Job, BecomesDue(j) PROVE ClaimInv'
      BY <1>6, BecomesDueKeeps
<1>7. CASE UNCHANGED vars
      BY <1>7 DEF vars, ClaimInv, TypeOK
<1>8. QED
      BY <1>1, <1>2, <1>3, <1>4, <1>5, <1>6, <1>7 DEF Next

\* On PostgreSQL an open claim holds the lock of its row, and the row is still
\* what the session read.
THEOREM ClaimInvariant ==
    ASSUME Postgres
    PROVE  Spec => []ClaimInv
<1>1. Init => ClaimInv
      BY ClaimInit
<1>2. ClaimInv /\ [Next]_vars => ClaimInv'
      BY ClaimStep
<1>3. QED
      BY <1>1, <1>2, PTL DEF Spec

\* On PostgreSQL no claim is lost from jobs.attempts, and no job is tried more
\* often than allowed.
THEOREM AttemptsAreCounted ==
    ASSUME Postgres
    PROVE  Spec => []AttemptsAreClaims
<1>1. ClaimInv => AttemptsAreClaims
      BY DEF ClaimInv, AttemptsAreClaims
<1>2. Spec => []ClaimInv
      BY ClaimInvariant
<1>3. QED
      BY <1>1, <1>2, PTL

\* On PostgreSQL a claim finds the job still queued when it is written.
THEOREM ClaimsAreAtomic ==
    ASSUME Postgres
    PROVE  Spec => ClaimIsAtomic
<1>1. ClaimInv => \A w \in Worker : Commit(w) => row[loaded[w].job].status = "queued"
      BY DEF ClaimInv, Commit
<1>2. Spec => []ClaimInv
      BY ClaimInvariant
<1>3. QED
      BY <1>1, <1>2, PTL DEF ClaimIsAtomic

-----------------------------------------------------------------------------
(***************************************************************************)
(* The steps of the board.                                                 *)
(***************************************************************************)

\* A job is in the hands of the worker that works on it, and of nobody else.
HandsInv ==
    \A j \in Job :
        /\ \A w \in Worker : pc[w] = "working" /\ loaded[w].job = j => Hands[j] = w
        /\ (\A w \in Worker : ~(pc[w] = "working" /\ loaded[w].job = j)) => Hands[j] = Nobody

LEMMA HandsOfHolder == ClaimInv => HandsInv
<1>1. SUFFICES ASSUME ClaimInv, NEW j \in Job
               PROVE  /\ \A w \in Worker :
                            pc[w] = "working" /\ loaded[w].job = j => Hands[j] = w
                      /\ (\A w \in Worker : ~(pc[w] = "working" /\ loaded[w].job = j))
                            => Hands[j] = Nobody
      BY DEF HandsInv
<1>2. ASSUME NEW w \in Worker, pc[w] = "working", loaded[w].job = j
      PROVE  Hands[j] = w
      <2>1. Holders(j) = {w}
            BY <1>1, <1>2 DEF Holders, ClaimInv
      <2>2. QED
            BY <2>1 DEF Hands
<1>3. ASSUME \A w \in Worker : ~(pc[w] = "working" /\ loaded[w].job = j)
      PROVE  Hands[j] = Nobody
      <2>1. Holders(j) = {}
            BY <1>3 DEF Holders
      <2>2. QED
            BY <2>1 DEF Hands
<1>4. QED
      BY <1>2, <1>3

LEMMA HandsOfHolderNext == ClaimInv' => HandsInv'
BY HandsOfHolder, PTL

\* The hands of a job depend on who works on it.
LEMMA HandsUnchanged ==
    ASSUME NEW j \in Job,
           \A w \in Worker : pc[w] = "working" /\ loaded[w].job = j
                               <=> pc'[w] = "working" /\ loaded'[w].job = j
    PROVE  Hands'[j] = Hands[j]
<1>1. Holders(j)' = Holders(j)
      BY DEF Holders
<1>2. Hands'[j] = IF Holders(j)' = {} THEN Nobody ELSE CHOOSE w \in Holders(j)' : TRUE
      BY DEF Hands
<1>3. QED
      BY <1>1, <1>2 DEF Hands

LEMMA SelectIsStutter ==
    ASSUME ClaimInv, NEW w \in Worker, Select(w)
    PROVE  UNCHANGED <<State, Hands, claims>>
<1>1. pc[w] = "idle" /\ pc' = [pc EXCEPT ![w] = "selected"] /\ UNCHANGED <<row, claims>>
      BY DEF Select
<1>2. \A v \in Worker : v # w => loaded'[v] = loaded[v]
      BY DEF Select, ClaimInv, TypeOK
<1>3. \A v \in Worker : v # w => pc'[v] = pc[v]
      BY <1>1 DEF ClaimInv, TypeOK
<1>4. pc'[w] = "selected"
      BY <1>1 DEF ClaimInv, TypeOK
<1>5. \A j \in Job : Hands'[j] = Hands[j]
      BY <1>1, <1>2, <1>3, <1>4, HandsUnchanged
<1>6. Hands' = Hands
      BY <1>5 DEF Hands
<1>7. QED
      BY <1>1, <1>6 DEF State

\* If only w's part in the work changes, only the hands of its job change.
LEMMA OtherHands ==
    ASSUME NEW w \in Worker, NEW j,
           \A v \in Worker : v # w => pc'[v] = pc[v] /\ loaded'[v].job = loaded[v].job,
           pc[w] = "working" => loaded[w].job = j,
           pc'[w] = "working" => loaded'[w].job = j
    PROVE  \A i \in Job : i # j => Hands'[i] = Hands[i]
<1>1. ASSUME NEW i \in Job, i # j
      PROVE  Hands'[i] = Hands[i]
      <2>1. \A v \in Worker : pc[v] = "working" /\ loaded[v].job = i
                               <=> pc'[v] = "working" /\ loaded'[v].job = i
            BY <1>1
      <2>2. QED
            BY <2>1, HandsUnchanged
<1>2. QED
      BY <1>1

LEMMA CommitIsTake ==
    ASSUME Postgres, ClaimInv, ClaimInv', NEW w \in Worker, Commit(w)
    PROVE  \E j \in Job : Board!Take(w, j)
<1> DEFINE j == loaded[w].job
           r == [row[j] EXCEPT !.status = "running", !.attempts = loaded[w].attempts + 1]
<1>1. j \in Job /\ row[j] \in Row /\ row[j].status = "queued" /\ claims[j] < MaxAttempts
      BY SMT DEF Commit, ClaimInv, TypeOK
<1>2. /\ pc[w] = "selected" /\ pc'[w] = "working" /\ loaded' = loaded
      /\ \A v \in Worker : v # w => pc'[v] = pc[v]
      /\ claims' = [claims EXCEPT ![j] = @ + 1]
      BY SMT DEF Commit, ClaimInv, TypeOK
<1>3. row' = [row EXCEPT ![j] = r]
      BY DEF Commit
<1>4. row'[j].status = "running"
      BY <1>2 DEF ClaimInv
<1>5. State' = [State EXCEPT ![j] = "running"]
      <2>1. \A i \in Job : i # j => row'[i] = row[i]
            BY <1>3 DEF ClaimInv, TypeOK
      <2>2. QED
            BY <1>1, <1>4, <2>1 DEF State
<1>6. Hands[j] = Nobody
      <2>1. \A v \in Worker : ~(pc[v] = "working" /\ loaded[v].job = j)
            BY <1>1 DEF ClaimInv
      <2>2. QED
            BY <1>1, <2>1, HandsOfHolder DEF HandsInv
<1>7. Hands'[j] = w
      BY <1>1, <1>2, HandsOfHolderNext DEF HandsInv
<1>8. \A i \in Job : i # j => Hands'[i] = Hands[i]
      BY <1>2, OtherHands
<1>9. Hands' = [Hands EXCEPT ![j] = w]
      BY <1>1, <1>7, <1>8 DEF Hands
<1>10. State[j] = "queued"
      BY <1>1 DEF State
<1>11. QED
      BY <1>1, <1>2, <1>5, <1>6, <1>9, <1>10 DEF Board!Take

\* A worker that writes status s to its job, and lets go, puts it down.
LEMMA PutDownIsPutDown ==
    ASSUME ClaimInv, ClaimInv', NEW w \in Worker, pc[w] = "working", Done(w),
           NEW r \in Row, row' = [row EXCEPT ![loaded[w].job] = r],
           r.status = "queued" => claims[loaded[w].job] < MaxAttempts
    PROVE  \E j \in Job : Board!PutDown(w, j, r.status)
<1> DEFINE j == loaded[w].job
<1>1. j \in Job
      BY SMT DEF ClaimInv, TypeOK
<1>2. /\ pc'[w] = "idle" /\ UNCHANGED claims
      /\ \A v \in Worker : v # w => pc'[v] = pc[v] /\ loaded'[v] = loaded[v]
      BY SMT DEF Done, ClaimInv, TypeOK
<1>3. State' = [State EXCEPT ![j] = r.status]
      <2>1. row'[j] = r /\ \A i \in Job : i # j => row'[i] = row[i]
            BY <1>1, SMT DEF ClaimInv, TypeOK
      <2>2. \A i \in Job : row'[i].status = IF i = j THEN r.status ELSE row[i].status
            BY <2>1
      <2>3. QED
            BY <1>1, <2>2, Zenon DEF State
<1>4. Hands[j] = w
      BY <1>1, HandsOfHolder DEF HandsInv
<1>5. Hands'[j] = Nobody
      <2>1. \A v \in Worker : ~(pc'[v] = "working" /\ loaded'[v].job = j)
            BY <1>2 DEF ClaimInv
      <2>2. QED
            BY <1>1, <2>1, HandsOfHolderNext DEF HandsInv
<1>6. \A i \in Job : i # j => Hands'[i] = Hands[i]
      BY <1>2, OtherHands
<1>7. Hands' = [Hands EXCEPT ![j] = Nobody]
      BY <1>1, <1>5, <1>6 DEF Hands
<1>8. QED
      BY <1>1, <1>2, <1>3, <1>4, <1>7 DEF Board!PutDown

LEMMA CompleteIsPutDown ==
    ASSUME ClaimInv, ClaimInv', NEW w \in Worker, Complete(w)
    PROVE  \E j \in Job, s \in Outcome : Board!PutDown(w, j, s)
<1> DEFINE j == loaded[w].job
<1>1. PICK s \in Outcome : row' = [row EXCEPT ![j].status = s]
      BY DEF Complete
<1> DEFINE r == [row[j] EXCEPT !.status = s]
<1>2. row[j] \in Row
      BY SMT DEF ClaimInv, TypeOK, Complete
<1>3. r \in Row /\ r.status = s
      BY <1>2, RowFields
<1>4. row' = [row EXCEPT ![j] = r]
      BY <1>1
<1>5. pc[w] = "working" /\ Done(w)
      BY DEF Complete
<1> HIDE DEF r
<1>6. \E i \in Job : Board!PutDown(w, i, r.status)
      BY <1>3, <1>4, <1>5, PutDownIsPutDown
<1>7. QED
      BY <1>3, <1>6

LEMMA RetryLaterIsPutDown ==
    ASSUME ClaimInv, ClaimInv', NEW w \in Worker, RetryLater(w)
    PROVE  \E j \in Job, s \in Outcome \cup {"queued"} : Board!PutDown(w, j, s)
<1> DEFINE j == loaded[w].job
<1>1. pc[w] = "working" /\ Done(w)
      BY DEF RetryLater
<1>2. j \in Job /\ row[j] \in Row
      BY <1>1, SMT DEF ClaimInv, TypeOK
<1>3. CASE Again(j)
      <2> DEFINE x == [row[j] EXCEPT !.status = "queued"]
                 r == [x EXCEPT !.due = "later"]
      <2>1. row' = [row EXCEPT ![j] = r]
            BY <1>3 DEF RetryLater
      <2>2. x \in Row /\ x.status = "queued"
            <3>1. "queued" \in Outcome \cup {"queued", "running"}
                  OBVIOUS
            <3>2. QED
                  BY <3>1, <1>2, RowFields
      <2>3. claims[j] < MaxAttempts
            BY <1>2, <1>3 DEF Again, ClaimInv
      <2> HIDE DEF x
      <2>4. r \in Row /\ r.status = "queued"
            BY <2>2, RowFields
      <2> HIDE DEF r
      <2>5. \E i \in Job : Board!PutDown(w, i, r.status)
            BY <2>1, <2>3, <2>4, <1>1, PutDownIsPutDown
      <2>6. QED
            BY <2>4, <2>5
<1>4. CASE ~Again(j)
      <2> DEFINE r == [row[j] EXCEPT !.status = "failed"]
      <2>1. "failed" \in Outcome /\ row' = [row EXCEPT ![j] = r]
            BY <1>4 DEF RetryLater
      <2>2. r \in Row /\ r.status = "failed"
            <3>1. "failed" \in Outcome \cup {"queued", "running"}
                  BY <2>1
            <3>2. QED
                  BY <3>1, <1>2, RowFields
      <2> HIDE DEF r
      <2>3. \E i \in Job : Board!PutDown(w, i, r.status)
            BY <2>1, <2>2, <1>1, PutDownIsPutDown
      <2>4. QED
            BY <2>1, <2>2, <2>3
<1>5. QED
      BY <1>3, <1>4

LEMMA BecomesDueIsStutter ==
    ASSUME ClaimInv, NEW j \in Job, BecomesDue(j)
    PROVE  UNCHANGED <<State, Hands, claims>>
<1> DEFINE r == [row[j] EXCEPT !.due = "now"]
<1>1. row[j] \in Row
      BY DEF ClaimInv, TypeOK
<1>2. r.status = row[j].status
      BY <1>1, RowFields
<1>3. row' = [row EXCEPT ![j] = r] /\ UNCHANGED <<lock, pc, loaded, claims, crashes>>
      BY DEF BecomesDue
<1> HIDE DEF r
<1>4. \A i \in Job : row'[i].status = row[i].status
      BY <1>2, <1>3 DEF ClaimInv, TypeOK
<1>5. State' = State
      BY <1>4 DEF State
<1>6. \A i \in Job : Hands'[i] = Hands[i]
      BY <1>3, HandsUnchanged
<1>7. Hands' = Hands
      BY <1>6 DEF Hands
<1>8. QED
      BY <1>3, <1>5, <1>7

LEMMA CrashIsDrop ==
    ASSUME ClaimInv, ClaimInv', NEW w \in Worker, Crash(w)
    PROVE  \/ UNCHANGED <<State, Hands, claims>>
           \/ \E j \in Job : Board!Drop(w, j)
<1> DEFINE j == loaded[w].job
<1>1. /\ pc[w] # "idle" /\ UNCHANGED <<row, claims>>
      /\ pc'[w] = "idle"
      /\ \A v \in Worker : v # w => pc'[v] = pc[v] /\ loaded'[v] = loaded[v]
      BY SMT DEF Crash, ClaimInv, TypeOK
<1>2. j \in Job
      BY <1>1, SMT DEF ClaimInv, TypeOK
<1>3. State' = State
      BY <1>1 DEF State
<1>4. \A i \in Job : i # j => Hands'[i] = Hands[i]
      BY <1>1, OtherHands
<1>5. CASE pc[w] = "working"
      <2>1. Hands[j] = w
            BY <1>2, <1>5, HandsOfHolder DEF HandsInv
      <2>2. \A v \in Worker : ~(pc'[v] = "working" /\ loaded'[v].job = j)
            BY <1>1, <1>5 DEF ClaimInv
      <2>3. Hands'[j] = Nobody
            BY <1>2, <2>2, HandsOfHolderNext DEF HandsInv
      <2>4. Hands' = [Hands EXCEPT ![j] = Nobody]
            BY <1>2, <1>4, <2>3 DEF Hands
      <2>5. QED
            BY <1>1, <1>2, <1>3, <2>1, <2>4 DEF Board!Drop
<1>6. CASE pc[w] # "working"
      <2>1. \A i \in Job : \A v \in Worker :
                pc[v] = "working" /\ loaded[v].job = i <=> pc'[v] = "working" /\ loaded'[v].job = i
            BY <1>1, <1>6
      <2>2. \A i \in Job : Hands'[i] = Hands[i]
            BY <2>1, HandsUnchanged
      <2>3. Hands' = Hands
            BY <2>2 DEF Hands
      <2>4. QED
            BY <1>1, <1>3, <2>3
<1>7. QED
      BY <1>5, <1>6

\* On PostgreSQL, whatever workers read, wait for and die in, the claim is the
\* one step the board promises.
THEOREM ClaimImplementsBoard ==
    ASSUME Postgres
    PROVE  Spec => ImplementsBoard
<1>1. Init => Board!Init
      <2>1. SUFFICES ASSUME Init PROVE Board!Init
            OBVIOUS
      <2>2. \A j \in Job : row[j].status = "queued"
            BY <2>1 DEF Init
      <2>3. \A j \in Job : Hands[j] = Nobody
            BY <2>1 DEF Init, Hands, Holders
      <2>4. Hands = [j \in Job |-> Nobody]
            BY <2>3 DEF Hands
      <2>5. QED
            BY <2>1, <2>2, <2>4 DEF Init, Board!Init, State
<1>2. ClaimInv /\ ClaimInv' /\ [Next]_vars => [Board!Next]_(Board!vars)
      <2>1. SUFFICES ASSUME ClaimInv, ClaimInv', [Next]_vars
                     PROVE  [Board!Next]_(Board!vars)
            OBVIOUS
      <2>2. ASSUME NEW w \in Worker, Select(w) PROVE UNCHANGED Board!vars
            BY <2>1, <2>2, SelectIsStutter DEF Board!vars
      <2>3. ASSUME NEW w \in Worker, Commit(w) PROVE Board!Next
            BY <2>1, <2>3, CommitIsTake DEF Board!Next
      <2>4. ASSUME NEW w \in Worker, Complete(w) PROVE Board!Next
            BY <2>1, <2>4, CompleteIsPutDown DEF Board!Next
      <2>5. ASSUME NEW w \in Worker, RetryLater(w) PROVE Board!Next
            BY <2>1, <2>5, RetryLaterIsPutDown DEF Board!Next
      <2>6. ASSUME NEW w \in Worker, Crash(w) PROVE [Board!Next]_(Board!vars)
            BY <2>1, <2>6, CrashIsDrop DEF Board!Next, Board!vars
      <2>7. ASSUME NEW j \in Job, BecomesDue(j) PROVE UNCHANGED Board!vars
            BY <2>1, <2>7, BecomesDueIsStutter DEF Board!vars
      <2>8. CASE UNCHANGED vars
            <3>1. State' = State
                  BY <2>8 DEF vars, State
            <3>2. \A j \in Job : Hands'[j] = Hands[j]
                  BY <2>8, HandsUnchanged DEF vars
            <3>3. Hands' = Hands
                  BY <3>2 DEF Hands
            <3>4. QED
                  BY <2>8, <3>1, <3>3 DEF vars, Board!vars
      <2>9. QED
            BY <2>1, <2>2, <2>3, <2>4, <2>5, <2>6, <2>7, <2>8 DEF Next
<1>3. Spec => []ClaimInv
      BY ClaimInvariant
<1>4. QED
      BY <1>1, <1>2, <1>3, PTL DEF Spec, ImplementsBoard, Board!Spec
=============================================================================
