------------------------ MODULE LateAnswersProofs ------------------------
(***************************************************************************)
(* Proofs about the two parts that wait for answers which may come late:   *)
(* the page that polls a run (RunPage) and the judge that calls models     *)
(* (LiveJudge).  For any number of calls at work, in whatever order and    *)
(* however late they end, nobody takes an answer that is not its own.      *)
(***************************************************************************)
EXTENDS RunPage, LiveJudge, FiniteSetTheorems, TLAPS

-----------------------------------------------------------------------------
(***************************************************************************)
(* The page: calls of tick() and what the API tells them.                  *)
(***************************************************************************)

\* What there is in a place for a call of tick().
LEMMA TickShape ==
    ASSUME NEW t \in Tick \cup {NoTick}
    PROVE  /\ t.at \in {"none", "ask_status", "ask_result", "status", "result"}
           /\ t = NoTick <=> t.at = "none"
           /\ t # NoTick => t.visit \in 0..MaxVisits /\ t.run \in Run
           /\ t.at \in {"status", "result"} => t.answer \in Answer \cup {NoAnswer}
BY DEF Tick, NoTick

\* The records a call of tick() goes through.
LEMMA TickForms ==
    ASSUME NEW v \in 0..MaxVisits, NEW r \in Run, NEW a \in Answer \cup {NoAnswer}
    PROVE  /\ [at |-> "ask_status", visit |-> v, run |-> r] \in Tick
           /\ [at |-> "ask_result", visit |-> v, run |-> r] \in Tick
           /\ [at |-> "status", visit |-> v, run |-> r, answer |-> a] \in Tick
           /\ [at |-> "result", visit |-> v, run |-> r, answer |-> a] \in Tick
BY DEF Tick

\* An answer has a version.
LEMMA AnswerShape ==
    ASSUME NEW a \in Answer
    PROVE  a # NoAnswer /\ a.version \in Nat
<1>1. a.status \in ApiStatus /\ a.version \in Nat
    BY DEF Answer
<1> QED
    BY <1>1 DEF ApiStatus, NoAnswer

\* A status that there is.
LEMMA StatusShape ==
    ASSUME NEW s \in Server
    PROVE  StatusOf(s) \in ApiStatus
BY DEF Server, ExecutionRow, JobStatus, StatusOf, ApiStatus

\* What the API tells of a run is of that run, and so is its result.
LEMMA ToldShape ==
    ASSUME PageTypeOK, NEW r \in Run
    PROVE  /\ Told(r) \in Answer /\ Told(r).run = r
           /\ Told(r).version = server[r].version /\ server[r].version \in Nat
           /\ ResultOf(r) \in {Told(r), NoAnswer}
<1>1. server[r] \in Server
    BY DEF PageTypeOK
<1>2. server[r].version \in Nat /\ StatusOf(server[r]) \in ApiStatus
    BY <1>1, StatusShape DEF Server
<1> QED
    BY <1>2 DEF Told, Answer, ResultOf

\* A worker or a decision makes a new version of what the API knows.
LEMMA ServerStep ==
    ASSUME PageTypeOK, [PageNext]_pageVars
    PROVE  /\ server' \in [Run -> Server]
           /\ \A r \in Run : server[r].version <= server'[r].version
<1>1. server \in [Run -> Server] /\ \A r \in Run : server[r].version \in Nat
    BY DEF PageTypeOK, Server
<1>2. ASSUME NEW s \in Run, NEW t \in Server, t.version = server[s].version + 1,
             server' = [server EXCEPT ![s] = t]
      PROVE  /\ server' \in [Run -> Server]
             /\ \A r \in Run : server[r].version <= server'[r].version
    BY <1>1, <1>2
<1>3. CASE server' = server
    BY <1>1, <1>3
<1>4. ASSUME NEW s \in Run, Works(s)
      PROVE  \E t \in Server :
                t.version = server[s].version + 1 /\ server' = [server EXCEPT ![s] = t]
    <2>1. ASSUME NEW row \in ExecutionRow,
                 server' = [server EXCEPT ![s].version = @ + 1, ![s].row = row]
          PROVE  \E t \in Server :
                    t.version = server[s].version + 1 /\ server' = [server EXCEPT ![s] = t]
        <3> DEFINE n == server[s].version + 1
                   t == [server[s] EXCEPT !.version = n, !.row = row]
        <3>1. server[s] \in Server /\ n \in Nat
            BY <1>1
        <3>2. t \in Server /\ t.version = n
            <4> HIDE DEF n
            <4> QED
                BY <3>1 DEF Server
        <3>3. server' = [server EXCEPT ![s] = t]
            BY <1>1, <2>1
        <3> QED
            BY <3>2, <3>3
    <2>2. ASSUME NEW job \in JobStatus,
                 server' = [server EXCEPT ![s].version = @ + 1, ![s].job = job]
          PROVE  \E t \in Server :
                    t.version = server[s].version + 1 /\ server' = [server EXCEPT ![s] = t]
        <3> DEFINE n == server[s].version + 1
                   t == [server[s] EXCEPT !.version = n, !.job = job]
        <3>1. server[s] \in Server /\ n \in Nat
            BY <1>1
        <3>2. t \in Server /\ t.version = n
            <4> HIDE DEF n
            <4> QED
                BY <3>1 DEF Server
        <3>3. server' = [server EXCEPT ![s] = t]
            BY <1>1, <2>2
        <3> QED
            BY <3>2, <3>3
    <2> QED
        BY <1>4, <2>1, <2>2 DEF Works
<1>5. ASSUME NEW d \in decisions, ServeDecision(d), server' # server
      PROVE  /\ d.run \in Run
             /\ \E t \in Server :
                  t.version = server[d.run].version + 1 /\ server' = [server EXCEPT ![d.run] = t]
    <2> DEFINE n == server[d.run].version + 1
               t == [server[d.run] EXCEPT !.version = n, !.job = "open"]
    <2>1. d.run \in Run /\ server[d.run] \in Server /\ n \in Nat
        BY <1>1 DEF PageTypeOK, Decision
    <2>2. t \in Server /\ t.version = n
        <3> HIDE DEF n
        <3> QED
            BY <2>1 DEF Server, JobStatus
    <2>3. server' = [server EXCEPT ![d.run] = t]
        BY <1>1, <1>5, <2>1 DEF ServeDecision
    <2> QED
        BY <2>1, <2>2, <2>3
<1>6. CASE \E s \in Run : Works(s)
    BY <1>2, <1>4, <1>6
<1>7. CASE \E d \in decisions : ServeDecision(d)
    BY <1>2, <1>3, <1>5, <1>7
<1> QED
    BY <1>3, <1>6, <1>7 DEF PageNext, pageVars, StartTick, Answers, Serve, ShowStatus,
       ShowResult, RequestFails, Decide, DecisionEnds, Navigate

\* Which component a decision belongs to.
LEMMA MountStep ==
    ASSUME PageTypeOK, MountInv, [PageNext]_pageVars
    PROVE  MountInv'
<1>1. visit \in Nat /\ mount \in Nat /\ \A d \in decisions : d.mount \in Nat
    BY DEF PageTypeOK, Decision
<1>2. CASE UNCHANGED <<decisions, mount, visit, route, busy>>
    BY <1>2 DEF MountInv
<1>3. CASE Decide
    BY <1>1, <1>3 DEF Decide, Clickable, MountInv
<1>4. ASSUME NEW d \in decisions, ServeDecision(d) PROVE MountInv'
    <2> DEFINE e == [d EXCEPT !.at = "answered"]
    <2>1. /\ decisions' = (decisions \ {d}) \cup {e} /\ UNCHANGED <<mount, visit, route, busy>>
          /\ e.mount = d.mount
        BY <1>4 DEF ServeDecision, page, PageTypeOK, Decision
    <2> HIDE DEF e
    <2> QED
        BY <1>1, <2>1 DEF MountInv
<1>5. ASSUME NEW d \in decisions, DecisionEnds(d) PROVE MountInv'
    BY <1>1, <1>5 DEF DecisionEnds, MountInv
<1>6. ASSUME NEW r, Navigate(r) PROVE MountInv'
    BY <1>1, <1>6 DEF Navigate, MountInv
<1> QED
    BY <1>2, <1>3, <1>4, <1>5, <1>6 DEF PageNext, pageVars, StartTick, Answers, Serve, ShowStatus,
       ShowResult, RequestFails, Works, page

\* Where a tick may go, and what the others do meanwhile.
LEMMA TickStep ==
    ASSUME PageTypeOK, NEW i \in 1..MaxTicks, NEW t, ticks' = [ticks EXCEPT ![i] = t]
    PROVE  ticks'[i] = t /\ \A j \in 1..MaxTicks : j # i => ticks'[j] = ticks[j]
BY DEF PageTypeOK

\* The types of the page.
LEMMA PageTypeStep ==
    ASSUME PageAssumption, PageTypeOK, AnswerInv, [PageNext]_pageVars
    PROVE  PageTypeOK'
<1>1. server' \in [Run -> Server]
    BY ServerStep
<1>2. MaxTicks \in Nat /\ MaxVisits \in Nat /\ MaxFailures \in Nat /\ MaxDecisions \in Nat
    BY DEF PageAssumption
<1>3. ASSUME NEW i \in 1..MaxTicks, NEW t \in Tick \cup {NoTick},
             ticks' = [ticks EXCEPT ![i] = t]
      PROVE  ticks' \in [1..MaxTicks -> Tick \cup {NoTick}]
    BY <1>3 DEF PageTypeOK
<1>4. ASSUME NEW i \in 1..MaxTicks
      PROVE  /\ ticks[i] \in Tick \cup {NoTick}
             /\ ticks[i].at # "none" => ticks[i].visit \in 0..MaxVisits /\ ticks[i].run \in Run
             /\ ticks[i].at \in {"status", "result"} =>
                    ticks[i].answer \in Answer \cup {NoAnswer}
    BY TickShape DEF PageTypeOK
<1>5. CASE StartTick
    <2>1. route \in Run /\ visit \in 0..MaxVisits
        BY <1>5 DEF StartTick, PageTypeOK
    <2>2. PICK i \in 1..MaxTicks :
            ticks' = [ticks EXCEPT ![i] = [at |-> "ask_status", visit |-> visit, run |-> route]]
        BY <1>5 DEF StartTick
    <2>3. [at |-> "ask_status", visit |-> visit, run |-> route] \in Tick
        BY <2>1, TickForms
    <2>4. ticks' \in [1..MaxTicks -> Tick \cup {NoTick}]
        BY <1>3, <2>2, <2>3
    <2> QED
        BY <1>5, <2>4 DEF StartTick, PageTypeOK, page, history
<1>6. ASSUME NEW i \in 1..MaxTicks, Serve(i) PROVE PageTypeOK'
    <2> PICK a \in Answer \cup {NoAnswer}, at \in {"status", "result"} :
            ticks' = [ticks EXCEPT ![i] = [at |-> at, visit |-> ticks[i].visit,
                                           run |-> ticks[i].run, answer |-> a]]
        <3>1. Told(ticks[i].run) \in Answer
            BY <1>4, <1>6, ToldShape DEF Serve
        <3>2. ResultOf(ticks[i].run) \in Answer \cup {NoAnswer}
            BY <1>4, <1>6, <3>1, ToldShape DEF Serve
        <3> QED
            BY <1>6, <3>1, <3>2 DEF Serve
    <2>1. [at |-> at, visit |-> ticks[i].visit, run |-> ticks[i].run, answer |-> a] \in Tick
        BY <1>4, <1>6, TickForms DEF Serve
    <2>2. ticks' \in [1..MaxTicks -> Tick \cup {NoTick}]
        BY <1>3, <2>1
    <2> QED
        BY <1>6, <2>2 DEF Serve, PageTypeOK, page, history
<1>7. ASSUME NEW i \in 1..MaxTicks, ShowStatus(i) PROVE PageTypeOK'
    <2>1. /\ ticks[i].at = "status" /\ ticks[i].answer \in Answer
          /\ ticks[i].answer.version \in Nat
        <3>1. ticks[i].at = "status" /\ ticks[i] # NoTick
            BY <1>7 DEF ShowStatus, NoTick
        <3>2. ticks[i].answer \in Answer
            BY <1>4, <3>1 DEF AnswerInv, AnswerOf
        <3> QED
            BY <3>1, <3>2, AnswerShape
    <2>2. [at |-> "ask_result", visit |-> ticks[i].visit, run |-> ticks[i].run] \in Tick
        BY <1>4, <2>1, TickForms DEF Answer
    <2>3. ticks' \in [1..MaxTicks -> Tick \cup {NoTick}]
        <3>1. ticks' \in {[ticks EXCEPT ![i] = NoTick],
                          [ticks EXCEPT ![i] =
                              [at |-> "ask_result", visit |-> ticks[i].visit, run |-> ticks[i].run]]}
            BY <1>7 DEF ShowStatus
        <3> QED
            BY <1>3, <2>2, <3>1
    <2>4. /\ status' \in Answer \cup {NoAnswer} /\ answered' \in BOOLEAN
          /\ newest' \in Nat
        BY <1>7, <2>1 DEF ShowStatus, PageTypeOK, history
    <2> QED
        BY <1>7, <2>3, <2>4 DEF ShowStatus, PageTypeOK
<1>8. ASSUME NEW i \in 1..MaxTicks, ShowResult(i) PROVE PageTypeOK'
    <2>1. result' \in Answer \cup {NoAnswer}
        BY <1>4, <1>8 DEF ShowResult, PageTypeOK
    <2>2. ticks' \in [1..MaxTicks -> Tick \cup {NoTick}]
        BY <1>3, <1>8 DEF ShowResult
    <2> QED
        BY <1>8, <2>1, <2>2 DEF ShowResult, PageTypeOK, history
<1>9. ASSUME NEW i \in 1..MaxTicks, RequestFails(i) PROVE PageTypeOK'
    <2>1. failures' \in 0..MaxFailures
        BY <1>2, <1>9 DEF RequestFails, PageTypeOK
    <2>2. ticks' \in [1..MaxTicks -> Tick \cup {NoTick}]
        BY <1>3, <1>9 DEF RequestFails
    <2> QED
        BY <1>9, <2>1, <2>2 DEF RequestFails, PageTypeOK, history, page
<1>10. CASE Decide
    <2>1. sent' \in 1..MaxDecisions
        BY <1>2, <1>10 DEF Decide, PageTypeOK
    <2>2. [at |-> "sent", id |-> sent', mount |-> mount, run |-> route] \in Decision
        BY <1>10, <2>1 DEF Decide, Clickable, PageTypeOK, Decision
    <2>3. decisions' \subseteq Decision /\ busy' \in BOOLEAN
        BY <1>10, <2>2 DEF Decide, PageTypeOK
    <2> QED
        BY <1>10, <2>1, <2>3 DEF Decide, PageTypeOK, history
<1>11. ASSUME NEW d \in decisions, ServeDecision(d) PROVE PageTypeOK'
    <2>1. d \in Decision
        BY DEF PageTypeOK
    <2>2. [d EXCEPT !.at = "answered"] \in Decision
        BY <2>1 DEF Decision
    <2>3. decisions' \subseteq Decision
        BY <1>11, <2>2 DEF ServeDecision, PageTypeOK
    <2> QED
        BY <1>1, <1>11, <2>3 DEF ServeDecision, PageTypeOK, history, page
<1>12. ASSUME NEW d \in decisions, DecisionEnds(d) PROVE PageTypeOK'
    <2>1. decisions' \subseteq Decision /\ busy' \in BOOLEAN
        BY <1>12 DEF DecisionEnds, PageTypeOK
    <2> QED
        BY <1>12, <2>1 DEF DecisionEnds, PageTypeOK, history
<1>13. ASSUME NEW r \in Run, Works(r) PROVE PageTypeOK'
    BY <1>1, <1>13 DEF Works, PageTypeOK, history, page
<1>14. ASSUME NEW r \in Run \cup {Elsewhere}, Navigate(r) PROVE PageTypeOK'
    <2>1. visit' \in 0..MaxVisits /\ visit' = visit + 1
        BY <1>2, <1>14 DEF Navigate, PageTypeOK
    <2>2. mount' \in {mount, visit'} /\ mount' \in 0..MaxVisits
        BY <1>14, <2>1 DEF Navigate, PageTypeOK
    <2>3. /\ status' \in Answer \cup {NoAnswer} /\ result' \in Answer \cup {NoAnswer}
          /\ busy' \in BOOLEAN
        BY <1>14 DEF Navigate, PageTypeOK
    <2>4. newest' \in Nat
        BY <1>14 DEF Navigate
    <2>5. answered' \in BOOLEAN /\ route' \in Run \cup {Elsewhere}
        BY <1>14 DEF Navigate
    <2> QED
        BY <1>14, <2>1, <2>2, <2>3, <2>4, <2>5 DEF Navigate, PageTypeOK
<1>15. CASE UNCHANGED pageVars
    BY <1>15 DEF pageVars, PageTypeOK, page
<1> QED
    BY <1>5, <1>6, <1>7, <1>8, <1>9, <1>10, <1>11, <1>12, <1>13, <1>14, <1>15 DEF PageNext, Answers

\* A tick that stays as it is, whatever the API learns and the route becomes.
LEMMA AnswerKept ==
    ASSUME PageAssumption, PageTypeOK, NEW j \in 1..MaxTicks, AnswerOf(j),
           ticks'[j] = ticks[j],
           \/ visit' = visit /\ route' = route
           \/ visit' = visit + 1,
           \A r \in Run : Told(r).version <= Told(r)'.version /\ Told(r)'.version \in Nat
    PROVE  AnswerOf(j)'
<1>1. SUFFICES ASSUME ticks[j] # NoTick PROVE AnswerOf(j)'
    BY DEF AnswerOf
<1>2. ticks[j] \in Tick /\ visit \in Nat
    BY <1>1 DEF PageTypeOK
<1>3. /\ ticks[j].visit \in Nat /\ ticks[j].run \in Run
      /\ ticks[j].at \in {"status", "result"} => ticks[j].answer \in Answer \cup {NoAnswer}
    BY <1>1, <1>2, TickShape
<1>4. ticks[j].visit <= visit' /\ (ticks[j].visit = visit' => ticks[j].run = route')
    BY <1>1, <1>2, <1>3 DEF AnswerOf
<1>5. ticks[j].at = "status" => ticks[j].answer # NoAnswer
    BY <1>1 DEF AnswerOf
<1>6. ASSUME ticks[j].at \in {"status", "result"}, ticks[j].answer # NoAnswer
      PROVE  /\ ticks[j].answer.run = ticks[j].run
             /\ ticks[j].answer.version <= Told(ticks[j].run)'.version
    <2>1. /\ ticks[j].answer.run = ticks[j].run
          /\ ticks[j].answer.version <= Told(ticks[j].run).version
        BY <1>1, <1>6 DEF AnswerOf
    <2>2. ticks[j].answer.version \in Nat /\ Told(ticks[j].run).version \in Nat
        BY <1>3, <1>6, AnswerShape, ToldShape
    <2> DEFINE r == ticks[j].run
    <2>3. Told(r).version <= Told(r)'.version
        BY <1>3
    <2> QED
        BY <1>3, <2>1, <2>2, <2>3
<1> QED
    BY <1>1, <1>4, <1>5, <1>6 DEF AnswerOf

\* What the API tells is never of an older version.
LEMMA ToldStep ==
    ASSUME PageTypeOK, PageTypeOK', [PageNext]_pageVars
    PROVE  \A r \in Run : Told(r).version <= Told(r)'.version /\ Told(r)'.version \in Nat
<1>1. \A r \in Run : Told(r).version = server[r].version /\ Told(r)'.version = server'[r].version
    BY DEF Told
<1>2. \A r \in Run : server'[r].version \in Nat
    BY DEF PageTypeOK, Server
<1> QED
    BY <1>1, <1>2, ServerStep

\* The effect of the page belongs to its route.
LEMMA VisitStep ==
    ASSUME [PageNext]_pageVars
    PROVE  \/ visit' = visit /\ route' = route
           \/ visit' = visit + 1
BY DEF PageNext, pageVars, StartTick, Answers, Serve, ShowStatus, ShowResult, RequestFails,
       Decide, DecisionEnds, ServeDecision, Works, Navigate

\* What a tick was told is of its run and not ahead of the API.
LEMMA AnswerStep ==
    ASSUME PageAssumption, PageTypeOK, PageTypeOK', AnswerInv, [PageNext]_pageVars
    PROVE  AnswerInv'
<1>1. \A r \in Run : Told(r).version <= Told(r)'.version /\ Told(r)'.version \in Nat
    BY ToldStep
<1>2. \/ visit' = visit /\ route' = route
      \/ visit' = visit + 1
    BY VisitStep
<1>3. ASSUME NEW j \in 1..MaxTicks, ticks'[j] = ticks[j] PROVE AnswerOf(j)'
    BY <1>1, <1>2, <1>3, AnswerKept DEF AnswerInv
<1>4. ASSUME NEW i \in 1..MaxTicks, NEW t, ticks' = [ticks EXCEPT ![i] = t], AnswerOf(i)'
      PROVE  AnswerInv'
    BY <1>3, <1>4, TickStep DEF AnswerInv
<1>5. CASE ticks' = ticks
    BY <1>3, <1>5 DEF AnswerInv
<1>6. ASSUME NEW i \in 1..MaxTicks, ticks' = [ticks EXCEPT ![i] = NoTick] PROVE AnswerInv'
    BY <1>4, <1>6, TickStep DEF AnswerOf
<1>7. CASE StartTick
    <2> DEFINE t == [at |-> "ask_status", visit |-> visit, run |-> route]
    <2> PICK i \in 1..MaxTicks : ticks' = [ticks EXCEPT ![i] = t]
        BY <1>7 DEF StartTick
    <2>1. ticks'[i] = t /\ visit' = visit /\ route' = route /\ visit \in Nat
        BY <1>7, TickStep DEF StartTick, PageTypeOK
    <2>2. AnswerOf(i)'
        BY <2>1 DEF AnswerOf
    <2> QED
        BY <1>4, <2>2
<1>8. ASSUME NEW i \in 1..MaxTicks, Serve(i) PROVE AnswerInv'
    <2>1. /\ ticks[i].run \in Run /\ ticks[i] # NoTick
          /\ ticks[i].visit <= visit
          /\ ticks[i].visit = visit => ticks[i].run = route
        <3>1. ticks[i].at \in {"ask_status", "ask_result"}
            BY <1>8 DEF Serve
        <3>2. ticks[i] \in Tick \cup {NoTick}
            BY DEF PageTypeOK
        <3> QED
            BY <3>1, <3>2, TickShape DEF AnswerInv, AnswerOf
    <2>2. PICK a \in {Told(ticks[i].run), NoAnswer}, at \in {"status", "result"} :
              /\ ticks' = [ticks EXCEPT ![i] = [at |-> at, visit |-> ticks[i].visit,
                                                run |-> ticks[i].run, answer |-> a]]
              /\ at = "status" => a # NoAnswer
        <3>1. Told(ticks[i].run) # NoAnswer
            BY <2>1, ToldShape, AnswerShape
        <3>2. ResultOf(ticks[i].run) \in {Told(ticks[i].run), NoAnswer}
            BY <2>1, ToldShape
        <3> QED
            BY <1>8, <3>1, <3>2 DEF Serve
    <2>3. ticks'[i] = [at |-> at, visit |-> ticks[i].visit, run |-> ticks[i].run, answer |-> a]
        BY <2>2, TickStep
    <2>4. server' = server /\ visit' = visit /\ route' = route
        BY <1>8 DEF Serve
    <2>5. ASSUME a # NoAnswer
          PROVE  a.run = ticks[i].run /\ a.version <= Told(ticks[i].run)'.version
        <3>1. a = Told(ticks[i].run) /\ a.run = ticks[i].run /\ a.version \in Nat
            BY <2>1, <2>2, <2>5, ToldShape, AnswerShape
        <3>2. ticks'[i].run = ticks[i].run
            BY <2>3
        <3>3. Told(ticks[i].run)' = Told(ticks[i].run)
            BY <2>4, <3>2 DEF Told
        <3> QED
            BY <3>1, <3>3
    <2>6. AnswerOf(i)'
        BY <2>1, <2>2, <2>3, <2>4, <2>5 DEF AnswerOf
    <2> QED
        BY <1>4, <2>2, <2>6
<1>9. ASSUME NEW i \in 1..MaxTicks, ShowStatus(i) PROVE AnswerInv'
    <2> DEFINE t == [at |-> "ask_result", visit |-> ticks[i].visit, run |-> ticks[i].run]
    <2>1. CASE ticks' = [ticks EXCEPT ![i] = t]
        <3>1. ticks'[i] = t /\ visit' = visit /\ route' = route
            BY <1>9, <2>1, TickStep DEF ShowStatus
        <3>2. ticks[i] # NoTick
            BY <1>9 DEF ShowStatus, NoTick
        <3>3. AnswerOf(i)'
            BY <3>1, <3>2 DEF AnswerInv, AnswerOf
        <3> QED
            BY <1>4, <2>1, <3>3
    <2>2. CASE ticks' = [ticks EXCEPT ![i] = NoTick]
        BY <1>6, <2>2
    <2> QED
        BY <1>9, <2>1, <2>2 DEF ShowStatus
<1>10. ASSUME NEW i \in 1..MaxTicks, ShowResult(i) \/ RequestFails(i) PROVE AnswerInv'
    BY <1>6, <1>10 DEF ShowResult, RequestFails
<1> QED
    BY <1>5, <1>7, <1>8, <1>9, <1>10 DEF PageNext, pageVars, Answers, Decide, DecisionEnds,
       ServeDecision, Works, Navigate

\* What the page shows is of its run, and not newer than what the API would tell.
LEMMA ShownStep ==
    ASSUME PageAssumption, PageTypeOK, PageTypeOK', AnswerInv, ShownInv, [PageNext]_pageVars
    PROVE  ShownInv'
<1>1. \A r \in Run : Told(r).version <= Told(r)'.version /\ Told(r).version \in Nat
                     /\ Told(r)'.version \in Nat
    BY ToldStep, ToldShape, AnswerShape
<1>2. newest \in Nat
    BY DEF PageTypeOK
<1>3. CASE UNCHANGED <<route, status, answered, newest>>
    <2>1. CASE answered
        <3> PICK r \in Run : r = route
            BY <2>1 DEF ShownInv
        <3>1. newest <= Told(r).version
            BY <2>1 DEF ShownInv
        <3>2. newest <= Told(r)'.version
            BY <1>1, <1>2, <3>1
        <3>3. Told(route)' = Told(r)'
            BY <1>3 DEF Told
        <3> QED
            BY <1>3, <2>1, <3>2, <3>3 DEF ShownInv
    <2>2. CASE ~answered
        BY <1>3, <2>2 DEF ShownInv
    <2> QED
        BY <2>1, <2>2
<1>4. ASSUME NEW i \in 1..MaxTicks, ShowStatus(i) PROVE ShownInv'
    <2>1. CASE ~Current(ticks[i])
        BY <1>3, <1>4, <2>1 DEF ShowStatus, history
    <2>2. CASE Current(ticks[i])
        <3> DEFINE a == ticks[i].answer
        <3>1. /\ ticks[i].at = "status" /\ ticks[i] # NoTick
              /\ ticks[i].visit = visit /\ route # Elsewhere
            BY <1>4, <2>2 DEF ShowStatus, Current, NoTick
        <3>2. route \in Run
            BY <3>1 DEF PageTypeOK
        <3>3. ticks[i].run = route /\ a # NoAnswer
            BY <3>1 DEF AnswerInv, AnswerOf
        <3>4. a.run = route /\ a.version <= Told(route).version
            BY <3>1, <3>3 DEF AnswerInv, AnswerOf
        <3>5. a \in Answer
            BY <3>1, <3>3, TickShape DEF PageTypeOK
        <3>6. /\ status' = a /\ answered' = TRUE /\ route' = route /\ server' = server
              /\ newest' = IF a.version > newest THEN a.version ELSE newest
            BY <1>4, <2>2 DEF ShowStatus
        <3>7. newest <= Told(route).version
            BY <1>1, <1>2, <3>2 DEF ShownInv
        <3>8. newest' <= Told(route).version
            BY <1>1, <1>2, <3>2, <3>4, <3>6, <3>7
        <3>9. Told(route)' = Told(route)
            BY <3>6 DEF Told
        <3> HIDE DEF a
        <3> QED
            BY <3>2, <3>3, <3>4, <3>6, <3>8, <3>9 DEF ShownInv
    <2> QED
        BY <2>1, <2>2
<1>5. ASSUME NEW r, Navigate(r) PROVE ShownInv'
    BY <1>5 DEF Navigate, ShownInv
<1> QED
    BY <1>3, <1>4, <1>5 DEF PageNext, pageVars, page, history, StartTick, Answers, Serve,
       ShowResult, RequestFails, Decide, DecisionEnds, ServeDecision, Works

\* A call of tick() that may show something is at work for the run of the address.
LEMMA OpenTick ==
    ASSUME PageTypeOK, AnswerInv, PageAssumption, NEW i \in Open(visit)
    PROVE  /\ i \in 1..MaxTicks /\ ticks[i] \in Tick /\ ticks[i].visit = visit
           /\ ticks[i].run = route /\ route \in Run /\ route # Elsewhere
<1>1. i \in 1..MaxTicks /\ ticks[i] # NoTick /\ ticks[i].visit = visit
    BY DEF Open
<1>2. ticks[i] \in Tick
    BY <1>1 DEF PageTypeOK
<1>3. ticks[i].run = route /\ ticks[i].run \in Run
    BY <1>1, <1>2, TickShape DEF AnswerInv, AnswerOf
<1> QED
    BY <1>1, <1>2, <1>3 DEF PageAssumption

\* Nothing of a tick that belongs to an earlier visit counts.
LEMMA StaleTick ==
    ASSUME PageTypeOK, AnswerInv, PageAssumption, NEW i \in 1..MaxTicks,
           ticks[i] # NoTick, ~Current(ticks[i])
    PROVE  i \notin Open(visit)
BY OpenTick DEF Current

\* With answers faster than the interval the page goes forward, step by step.
LEMMA FastStep ==
    ASSUME PageAssumption, PageTypeOK, PageTypeOK', AnswerInv, AnswerInv', ShownInv, FastInv,
           [PageNext]_pageVars
    PROVE  FastInv'
<1> USE DEF PageTypeOK
<1>0. slow' = slow
    BY DEF PageNext, pageVars, StartTick, Answers, Serve, ShowStatus, ShowResult, RequestFails,
       Decide, DecisionEnds, ServeDecision, Works, Navigate
<1>1. SUFFICES ASSUME ~slow
               PROVE  /\ OneTick'
                      /\ answered' => status'.version = newest'
                      /\ \A i \in Open(visit)' : NewerThanShown(i)'
                      /\ ResultIsThere'
    BY <1>0 DEF FastInv
<1> USE <1>1
<1>2. /\ OneTick
      /\ answered => status.version = newest
      /\ \A i \in Open(visit) : NewerThanShown(i)
      /\ ResultIsThere
    BY DEF FastInv
<1> DEFINE G == /\ OneTick'
                /\ answered' => status'.version = newest'
                /\ \A i \in Open(visit)' : NewerThanShown(i)'
                /\ ResultIsThere'
<1>3. CASE UNCHANGED <<ticks, visit, route, status, result, answered, newest, failures>>
    BY <1>2, <1>3 DEF OneTick, Open, NewerThanShown, ResultIsThere, AsksResult
\* A place whose tick is not of this visit is freed.
<1>4. ASSUME NEW i \in 1..MaxTicks, ticks' = [ticks EXCEPT ![i] = NoTick], i \notin Open(visit),
             UNCHANGED <<visit, route, status, result, answered, newest, failures>>
      PROVE  G
    <2>1. ticks'[i] = NoTick /\ \A j \in 1..MaxTicks : j # i => ticks'[j] = ticks[j]
        BY <1>4, TickStep
    <2>2. Open(visit)' = Open(visit)
        BY <1>4, <2>1 DEF Open
    <2>3. \A j \in Open(visit) : ticks'[j] = ticks[j]
        BY <1>4, <2>1 DEF Open
    <2>4. \A j \in 1..MaxTicks : AsksResult(j)' <=> AsksResult(j)
        BY <1>4, <2>2, <2>3 DEF AsksResult
    <2> QED
        BY <1>2, <1>4, <2>2, <2>3, <2>4 DEF OneTick, NewerThanShown, ResultIsThere
<1>5. CASE StartTick
    <2> DEFINE t == [at |-> "ask_status", visit |-> visit, run |-> route]
    <2> PICK i \in 1..MaxTicks : ticks' = [ticks EXCEPT ![i] = t]
        BY <1>5 DEF StartTick
    <2>1. ticks'[i] = t /\ \A j \in 1..MaxTicks : j # i => ticks'[j] = ticks[j]
        BY TickStep
    <2>2. /\ UNCHANGED <<visit, route, status, result, answered, newest, failures>>
          /\ Open(visit) = {}
        BY <1>5 DEF StartTick, page, history, Due
    <2>3. Open(visit)' = {i}
        BY <2>1, <2>2 DEF Open, NoTick
    <2>4. \A j \in 1..MaxTicks : ~AsksResult(j) /\ ~AsksResult(j)'
        BY <2>1, <2>2, <2>3 DEF AsksResult
    <2> QED
        BY <1>2, <2>1, <2>2, <2>3, <2>4 DEF OneTick, NewerThanShown, ResultIsThere
<1>6. ASSUME NEW i \in 1..MaxTicks, Serve(i) PROVE G
    <2>1. /\ UNCHANGED <<server, visit, route, status, result, answered, newest, failures>>
          /\ ticks[i].at \in {"ask_status", "ask_result"}
        BY <1>6 DEF Serve, page, history
    <2>0. ResultOf(ticks[i].run) \in {Told(ticks[i].run), NoAnswer}
        BY DEF ResultOf
    <2> PICK a \in {Told(ticks[i].run), NoAnswer}, at \in {"status", "result"} :
              /\ ticks' = [ticks EXCEPT ![i] = [at |-> at, visit |-> ticks[i].visit,
                                                run |-> ticks[i].run, answer |-> a]]
              /\ at = "result" <=> ticks[i].at = "ask_result"
        BY <1>6, <2>0 DEF Serve
    <2>2. /\ ticks'[i] = [at |-> at, visit |-> ticks[i].visit, run |-> ticks[i].run, answer |-> a]
          /\ \A j \in 1..MaxTicks : j # i => ticks'[j] = ticks[j]
        BY TickStep
    <2>3. ticks[i] # NoTick /\ ticks'[i] # NoTick
        BY <2>1, <2>2 DEF NoTick
    <2>4. Open(visit)' = Open(visit)
        BY <2>1, <2>2, <2>3 DEF Open
    <2>5. \A j \in 1..MaxTicks : AsksResult(j)' <=> AsksResult(j)
        BY <2>1, <2>2, <2>4 DEF AsksResult
    <2>6. ASSUME i \in Open(visit) PROVE NewerThanShown(i)'
        <3>1. ticks[i].at = "ask_result" => answered
            BY <1>2, <2>6, OpenTick DEF NewerThanShown
        <3>2. ticks[i].run = route /\ route \in Run
            BY <2>6, OpenTick
        <3>3. Told(route).version \in Nat /\ newest \in Nat
            <4>1. Told(route) \in Answer
                BY <3>2, ToldShape
            <4>2. newest \in Nat
                OBVIOUS
            <4> QED
                BY <4>1, <4>2, AnswerShape
        <3>4. newest <= Told(route).version
            BY <3>3 DEF ShownInv
        <3>5. a # NoAnswer => a.version >= newest
            BY <3>2, <3>3, <3>4
        <3>6. /\ ticks'[i].at = at /\ ticks'[i].answer = a
              /\ answered' = answered /\ newest' = newest /\ route' = route
            BY <2>1, <2>2
        <3>7. ticks'[i].at = "ask_result" \/ ticks'[i].at = "result" => ticks[i].at = "ask_result"
            BY <2>1, <3>6
        <3> QED
            BY <3>1, <3>5, <3>6, <3>7 DEF NewerThanShown
    <2>7. ASSUME NEW j \in Open(visit), j # i PROVE NewerThanShown(j)'
        <3>1. ticks'[j] = ticks[j] /\ NewerThanShown(j)
            BY <1>2, <2>2, <2>7 DEF Open
        <3> QED
            BY <2>1, <3>1 DEF NewerThanShown
    <2> QED
        BY <1>2, <2>1, <2>4, <2>5, <2>6, <2>7 DEF OneTick, ResultIsThere
\* What is left once the only tick of this visit has moved on.
<1>7. ASSUME NEW i \in Open(visit), NEW t, ticks' = [ticks EXCEPT ![i] = t], visit' = visit
      PROVE  /\ ticks'[i] = t
             /\ Open(visit) = {i}
             /\ Open(visit)' = IF t # NoTick /\ t.visit = visit THEN {i} ELSE {}
    <2>1. i \in 1..MaxTicks /\ Open(visit) = {i}
        BY <1>2 DEF Open, OneTick
    <2>2. ticks'[i] = t /\ \A j \in 1..MaxTicks : j # i => ticks'[j] = ticks[j]
        BY <1>7, <2>1, TickStep
    <2> QED
        BY <1>7, <2>1, <2>2 DEF Open
<1>8. ASSUME NEW i \in 1..MaxTicks, ShowStatus(i) PROVE G
    <2>1. ticks[i].at = "status" /\ ticks[i] # NoTick
        BY <1>8 DEF ShowStatus, NoTick
    <2>2. CASE ~Current(ticks[i])
        <3>1. i \notin Open(visit)
            BY <2>1, <2>2, StaleTick
        <3> QED
            BY <1>4, <1>8, <2>2, <3>1 DEF ShowStatus, history
    <2>3. CASE Current(ticks[i])
        <3> DEFINE a == ticks[i].answer
                   q == [at |-> "ask_result", visit |-> ticks[i].visit, run |-> ticks[i].run]
                   t == IF HasResult(a) THEN q ELSE NoTick
        <3>1. i \in Open(visit)
            BY <2>1, <2>3 DEF Open, Current
        <3>2. /\ status' = a /\ answered' = TRUE /\ visit' = visit /\ route' = route
              /\ newest' = IF a.version > newest THEN a.version ELSE newest
              /\ ticks' = [ticks EXCEPT ![i] = t]
            BY <1>8, <2>3 DEF ShowStatus
        <3>3. a # NoAnswer /\ a \in Answer
            BY <2>1, TickShape DEF AnswerInv, AnswerOf
        <3>4. a.version >= newest /\ a.version \in Nat /\ newest \in Nat
            <4>1. a.version \in Nat
                BY <3>3, AnswerShape
            <4>3. newest \in Nat
                OBVIOUS
            <4>2. NewerThanShown(i)
                BY <1>2, <3>1
            <4> QED
                BY <2>1, <3>3, <4>1, <4>2, <4>3 DEF NewerThanShown
        <3>5. newest' = a.version
            BY <3>2, <3>4
        <3>6. /\ ticks'[i] = t /\ Open(visit)' \subseteq {i}
              /\ HasResult(a) => Open(visit)' = {i}
            <4>1. q # NoTick /\ q.visit = visit
                BY <2>3 DEF NoTick, Current
            <4>2. HasResult(a) => t # NoTick /\ t.visit = visit
                BY <4>1
            <4> HIDE DEF a, q, t
            <4>3. /\ ticks'[i] = t
                  /\ Open(visit)' = IF t # NoTick /\ t.visit = visit THEN {i} ELSE {}
                BY <1>7, <3>1, <3>2
            <4> QED
                BY <4>2, <4>3, Zenon
        <3>7. \A j \in Open(visit)' : NewerThanShown(j)'
            <4>1. t.at \in {"ask_result", "none"}
                BY DEF NoTick
            <4> HIDE DEF t
            <4>2. ASSUME NEW j \in Open(visit)' PROVE NewerThanShown(j)'
                <5>1. j = i /\ ticks'[j] = t /\ answered'
                    BY <3>2, <3>6, <4>2
                <5>2. ticks'[j].at \notin {"status", "result"}
                    BY <4>1, <5>1
                <5> QED
                    BY <5>1, <5>2 DEF NewerThanShown
            <4> QED
                BY <4>2
        <3>8. ResultIsThere'
            <4>1. HasResult(a) => ticks'[i].at = "ask_result" /\ i \in Open(visit)'
                BY <3>6
            <4>2. HasResult(a) => AsksResult(i)'
                BY <4>1 DEF AsksResult
            <4> HIDE DEF a
            <4> QED
                BY <3>2, <4>2 DEF ResultIsThere
        <3> HIDE DEF a, t
        <3> QED
            BY <3>2, <3>5, <3>6, <3>7, <3>8 DEF OneTick
    <2> QED
        BY <2>2, <2>3
<1>9. ASSUME NEW i \in 1..MaxTicks, ShowResult(i) PROVE G
    <2>1. /\ ticks[i].at = "result" /\ ticks[i] # NoTick
          /\ ticks' = [ticks EXCEPT ![i] = NoTick]
          /\ UNCHANGED <<visit, route, status, answered, newest, failures>>
        BY <1>9 DEF ShowResult, NoTick, history
    <2>2. CASE ~Current(ticks[i])
        <3>1. i \notin Open(visit)
            BY <2>1, <2>2, StaleTick
        <3>2. result' = result
            BY <1>9, <2>2 DEF ShowResult
        <3> QED
            BY <1>4, <2>1, <3>1, <3>2
    <2>3. CASE Current(ticks[i])
        <3> DEFINE a == ticks[i].answer
        <3>1. i \in Open(visit) /\ result' = a
            BY <1>9, <2>1, <2>3 DEF Open, Current, ShowResult
        <3>2. Open(visit)' = {}
            BY <1>7, <2>1, <3>1
        <3>3. answered /\ (a # NoAnswer => a.version >= newest)
            BY <1>2, <2>1, <3>1, OpenTick DEF NewerThanShown
        <3>4. a # NoAnswer => a.run = route
            BY <2>1, <3>1, OpenTick DEF AnswerInv, AnswerOf
        <3>5. ResultIsThere'
            <4> HIDE DEF a
            <4> QED
                BY <1>2, <2>1, <3>1, <3>3, <3>4 DEF ResultIsThere
        <3> QED
            BY <1>2, <2>1, <3>2, <3>5 DEF OneTick
    <2> QED
        BY <2>2, <2>3
<1>10. ASSUME NEW i \in 1..MaxTicks, RequestFails(i) PROVE G
    <2>1. /\ ticks' = [ticks EXCEPT ![i] = NoTick] /\ failures' # 0
          /\ UNCHANGED <<visit, route, status, answered, newest>>
        BY <1>10 DEF RequestFails, page, history
    <2>2. ticks'[i] = NoTick /\ \A j \in 1..MaxTicks : j # i => ticks'[j] = ticks[j]
        BY <2>1, TickStep
    <2>3. /\ Open(visit)' \subseteq Open(visit)
          /\ \A j \in Open(visit)' : ticks'[j] = ticks[j]
        BY <2>1, <2>2 DEF Open
    <2> QED
        BY <1>2, <2>1, <2>3 DEF OneTick, NewerThanShown, ResultIsThere
<1>11. ASSUME NEW r, Navigate(r) PROVE G
    <2>1. visit' = visit + 1 /\ ticks' = ticks /\ answered' = FALSE
        BY <1>11 DEF Navigate
    <2>2. ASSUME NEW i \in 1..MaxTicks, ticks[i] # NoTick PROVE ticks[i].visit # visit + 1
        <3>1. ticks[i].visit <= visit
            BY <2>2 DEF AnswerInv, AnswerOf
        <3>2. ticks[i] \in Tick \cup {NoTick}
            OBVIOUS
        <3>3. ticks[i].visit \in 0..MaxVisits
            BY <2>2, <3>2, TickShape
        <3>4. visit \in 0..MaxVisits
            OBVIOUS
        <3>5. \A k, v \in Int : k <= v => k # v + 1
            OBVIOUS
        <3>6. ticks[i].visit \in Int /\ visit \in Int
            BY <3>3, <3>4
        <3> QED
            BY <3>1, <3>5, <3>6, Zenon
    <2>3. Open(visit)' = {}
        BY <2>1, <2>2 DEF Open
    <2> QED
        BY <2>1, <2>3 DEF OneTick, ResultIsThere
<1> QED
    BY <1>3, <1>5, <1>6, <1>8, <1>9, <1>10, <1>11 DEF PageNext, pageVars, page, history, Answers,
       Decide, DecisionEnds, ServeDecision, Works

\* A page that opens is in the invariant.
LEMMA PageInitHolds ==
    ASSUME PageAssumption, PageInit
    PROVE  PageIInv
<1>1. route \in Run
    BY DEF PageInit, PageAssumption
<1>2. PageTypeOK
    <2>1. 0 \in 0..MaxDecisions /\ 0 \in 0..MaxVisits /\ 0 \in 0..MaxFailures
        BY DEF PageAssumption
    <2>2. server \in [Run -> Server]
        BY DEF PageInit, Server, ExecutionRow, NoExecution, JobStatus
    <2>3. /\ ticks \in [1..MaxTicks -> Tick \cup {NoTick}]
          /\ status \in Answer \cup {NoAnswer} /\ result \in Answer \cup {NoAnswer}
          /\ decisions \subseteq Decision /\ slow \in BOOLEAN /\ busy \in BOOLEAN
          /\ answered \in BOOLEAN
        BY DEF PageInit
    <2>4. /\ visit \in 0..MaxVisits /\ mount \in 0..MaxVisits /\ sent \in 0..MaxDecisions
          /\ failures \in 0..MaxFailures /\ newest \in Nat
        BY <2>1 DEF PageInit
    <2> QED
        BY <1>1, <2>2, <2>3, <2>4 DEF PageTypeOK
<1>4. MountInv
    BY DEF PageInit, MountInv
<1>5. AnswerInv /\ ShownInv
    BY DEF PageInit, AnswerInv, AnswerOf, ShownInv
<1>6. FastInv
    BY DEF PageInit, FastInv, OneTick, Open, ResultIsThere
<1> QED
    BY <1>2, <1>4, <1>5, <1>6 DEF PageIInv

\* The invariant gives what is claimed of the page.
LEMMA PageShows ==
    ASSUME PageAssumption, PageIInv
    PROVE  PageInv
<1>1. StatusOfItsRoute
    BY DEF PageIInv, ShownInv, StatusOfItsRoute
<1>2. PageGoesForward
    BY DEF PageIInv, FastInv, PageGoesForward
<1>3. ResultFollowsStatus
    <2>1. Open(visit) = {} => \A i \in 1..MaxTicks : ~AsksResult(i)
        BY DEF AsksResult
    <2> QED
        BY <2>1 DEF PageIInv, FastInv, ResultIsThere, ResultFollowsStatus
<1>4. OneDecisionPerPage
    <2>1. SUFFICES ASSUME NEW m \in 0..MaxVisits
                   PROVE  Cardinality({d \in decisions : d.mount = m}) <= 1
        BY DEF OneDecisionPerPage
    <2> DEFINE D == {d \in decisions : d.mount = m}
    <2>2. \A d, e \in D : d = e
        BY DEF PageIInv, MountInv
    <2>3. CASE D = {}
        BY <2>3, FS_EmptySet
    <2>4. CASE \E d : D = {d}
        BY <2>4, FS_Singleton
    <2> QED
        BY <2>2, <2>3, <2>4
<1> QED
    BY <1>1, <1>2, <1>3, <1>4 DEF PageInv, PageIInv

\* PageInv for any runs, ticks, visits, failures and decisions: in whatever
\* order the answers arrive and the user goes from run to run, the page shows
\* the status of the run in its address, does not go back while answers are
\* fast, and has one decision at work (frontend/src/pages/Detail.tsx).
THEOREM PageHolds == PageAssumption => (PageSpec => []PageInv)
<1>1. SUFFICES ASSUME PageAssumption PROVE PageSpec => []PageInv
    OBVIOUS
<1>2. PageInit => PageIInv
    BY <1>1, PageInitHolds
<1>3. PageIInv /\ [PageNext]_pageVars => PageIInv'
    <2>1. SUFFICES ASSUME PageIInv, [PageNext]_pageVars PROVE PageIInv'
        OBVIOUS
    <2>2. PageTypeOK /\ MountInv /\ AnswerInv /\ ShownInv /\ FastInv
        BY <2>1 DEF PageIInv
    <2>3. MountInv'
        BY <2>1, <2>2, MountStep
    <2>4. PageTypeOK'
        BY <1>1, <2>1, <2>2, PageTypeStep
    <2>5. AnswerInv' /\ ShownInv'
        BY <1>1, <2>1, <2>2, <2>4, AnswerStep, ShownStep
    <2>6. FastInv'
        BY <1>1, <2>1, <2>2, <2>4, <2>5, FastStep
    <2> QED
        BY <2>3, <2>4, <2>5, <2>6 DEF PageIInv
<1>4. PageIInv => PageInv
    BY <1>1, PageShows
<1> QED
    BY <1>2, <1>3, <1>4, PTL DEF PageSpec

-----------------------------------------------------------------------------
(***************************************************************************)
(* The judge: arithmetic, candidates, verdicts and the list of calls.      *)
(***************************************************************************)

\* A power of two counts the subsets of an interval.
LEMMA PowerOfTwo == ASSUME NEW n \in Nat PROVE 2^n \in Nat
<1>1. IsFiniteSet(1..n) /\ Cardinality(1..n) = n
    BY FS_Interval
<1>2. IsFiniteSet(SUBSET (1..n)) /\ Cardinality(SUBSET (1..n)) = 2^n
    BY <1>1, FS_SUBSET
<1> QED
    BY <1>2, FS_CardinalityType

\* Products, which the provers do not find by themselves.
LEMMA TimesNat == ASSUME NEW a \in Nat, NEW b \in Nat PROVE a * b \in Nat
OBVIOUS

\* More attempts take no less.
LEMMA TimesMonotone ==
    ASSUME NEW a \in Nat, NEW b \in Nat, NEW s \in Nat, a <= b
    PROVE  a * s <= b * s
<1>1. PICK d \in Nat : b = a + d
    <2>1. b - a \in Nat /\ b = a + (b - a)
        OBVIOUS
    <2> QED
        BY <2>1
<1>2. b * s = a * s + d * s
    BY <1>1
<1>3. d * s \in Nat /\ a * s \in Nat
    BY TimesNat
<1> QED
    BY <1>2, <1>3

\* A delay is capped.
LEMMA BackoffShape ==
    ASSUME JudgeAssumption, NEW n \in Nat \ {0}
    PROVE  Backoff(n) \in 0..BackoffMax
<1>1. BackoffBase \in Nat /\ BackoffMax \in Nat /\ 2^(n - 1) \in Nat
    <2>1. n - 1 \in Nat
        OBVIOUS
    <2> QED
        BY <2>1, PowerOfTwo DEF JudgeAssumption
<1>2. BackoffBase * 2^(n - 1) \in Nat
    BY <1>1, TimesNat
<1> QED
    BY <1>1, <1>2 DEF Backoff, Min

\* The settings name a primary and a fallback, which may be the same model.
LEMMA ModelsNamed ==
    ASSUME JudgeAssumption, settings \in Configurations
    PROVE  PrimaryFor \in Model /\ FallbackFor \in Model
BY DEF JudgeAssumption, Settings, PrimaryFor, FallbackFor

\* Route takes a model that has not failed, and gives up when there is none.
LEMMA CandidatesTried ==
    /\ Untried = {} => {PrimaryFor, FallbackFor} \subseteq failed
    /\ Untried # {} => Candidates[CHOOSE i \in Untried : \A j \in Untried : i <= j]
                          \in {PrimaryFor, FallbackFor} \ failed
<1>1. CASE FallbackFor = PrimaryFor
    <2>1. Candidates = <<PrimaryFor>> /\ DOMAIN Candidates = {1} /\ Candidates[1] = PrimaryFor
        BY <1>1 DEF Candidates
    <2>2. Untried = IF PrimaryFor \in failed THEN {} ELSE {1}
        BY <2>1 DEF Untried
    <2>3. (CHOOSE i \in {1} : \A j \in {1} : i <= j) = 1
        OBVIOUS
    <2> QED
        BY <1>1, <2>1, <2>2, <2>3
<1>2. CASE FallbackFor # PrimaryFor
    <2>1. /\ Candidates = <<PrimaryFor, FallbackFor>> /\ DOMAIN Candidates = {1, 2}
          /\ Candidates[1] = PrimaryFor /\ Candidates[2] = FallbackFor
        BY <1>2 DEF Candidates
    <2>2. Untried \subseteq {1, 2} /\ \A i \in Untried : Candidates[i] \notin failed
        BY <2>1 DEF Untried
    <2>3. Untried = {} => {PrimaryFor, FallbackFor} \subseteq failed
        BY <2>1 DEF Untried
    <2>4. ASSUME Untried # {}
          PROVE  (CHOOSE i \in Untried : \A j \in Untried : i <= j) \in Untried
        <3>1. Untried \in {{1}, {2}, {1, 2}}
            BY <2>2, <2>4
        <3>2. \E i \in Untried : \A j \in Untried : i <= j
            BY <3>1
        <3> QED
            BY <3>2
    <2> QED
        BY <2>1, <2>2, <2>3, <2>4
<1> QED
    BY <1>1, <1>2

\* How many models have failed.
LEMMA FailedCount ==
    ASSUME NEW p, NEW q, NEW f, f \subseteq {p, q}
    PROVE  /\ IsFiniteSet(f) /\ Cardinality(f) \in Nat /\ Cardinality({p, q}) \in Nat
           /\ Cardinality(f) <= Cardinality({p, q})
           /\ f # {p, q} => Cardinality(f) + 1 <= Cardinality({p, q})
<1>1. IsFiniteSet({p, q})
    <2>1. {p, q} = {p} \cup {q}
        OBVIOUS
    <2>2. IsFiniteSet({p})
        BY FS_Singleton
    <2>3. IsFiniteSet({p} \cup {q})
        BY <2>2, FS_AddElement
    <2> QED
        BY <2>1, <2>3
<1>2. IsFiniteSet(f) /\ Cardinality(f) <= Cardinality({p, q})
      /\ (Cardinality({p, q}) = Cardinality(f) => {p, q} = f)
    BY <1>1, FS_Subset
<1> QED
    BY <1>1, <1>2, FS_CardinalityType

\* The verdict of the rubric: what it approves reaches 7.0, what it does not
\* approve has issues.
LEMMA RubricVerdict ==
    ASSUME NEW s \in ShortScript, NEW m \in Marker
    PROVE  \E overall \in Nat, duration \in Nat, approved \in BOOLEAN :
              /\ SyntheticJudge(s, m, 0) = Verdict(overall, duration, approved)
              /\ approved => overall >= 70
<1>1. ASSUME NEW n \in Nat, NEW good \in Nat, NEW fair \in Nat
      PROVE  Graded(n, good, fair) \in {40, 70, 90}
    BY DEF Graded
<1>2. PICK h \in {40, 70, 90}, b \in {40, 70, 90}, c \in {40, 70, 90}, d \in {60, 90} :
        /\ h = HookScore(s) /\ b = Graded(s.body, 80, 40) /\ c = CtaScore(s)
        /\ d = DurationScore(s)
    <2>1. s.hook \in Nat /\ s.body \in Nat /\ s.cta \in Nat
        BY DEF ShortScript
    <2>2. HookScore(s) \in {40, 70, 90} /\ CtaScore(s) \in {40, 70, 90}
        BY <1>1, <2>1 DEF HookScore, CtaScore
    <2>3. Graded(s.body, 80, 40) \in {40, 70, 90}
        BY <1>1, <2>1
    <2>4. DurationScore(s) \in {60, 90}
        BY DEF DurationScore
    <2> USE <2>2, <2>3, <2>4
    <2> QED
        <3> WITNESS HookScore(s) \in {40, 70, 90}, Graded(s.body, 80, 40) \in {40, 70, 90},
                    CtaScore(s) \in {40, 70, 90}, DurationScore(s) \in {60, 90}
        <3> QED
            OBVIOUS
<1>3. PICK n \in Nat : n = Overall(s, 0)
    <2>1. Overall(s, 0) = (2 * (h + b + 80 + 80 + 75 + 75 + d + c + 85) + 9) \div 18
        BY <1>2 DEF Overall
    <2> QED
        BY <2>1
<1>4. PICK a \in BOOLEAN : a = (n >= 70 /\ HookScore(s) >= 60 /\ CtaScore(s) >= 60)
    OBVIOUS
<1> DEFINE G == \E overall \in Nat, duration \in Nat, approved \in BOOLEAN :
                  /\ SyntheticJudge(s, m, 0) = Verdict(overall, duration, approved)
                  /\ approved => overall >= 70
<1>5. ASSUME NEW overall \in Nat, NEW duration \in Nat, NEW approved \in BOOLEAN,
             approved => overall >= 70,
             SyntheticJudge(s, m, 0) = Verdict(overall, duration, approved)
      PROVE  G
    BY <1>5, Zenon
<1>0. SUFFICES G
    OBVIOUS
<1> HIDE DEF G
<1> PICK yes \in BOOLEAN, no \in BOOLEAN : yes = TRUE /\ no = FALSE
    OBVIOUS
<1>6. CASE m = "none"
    <2>1. SyntheticJudge(s, m, 0) = Verdict(n, d, a)
        BY <1>2, <1>3, <1>4, <1>6, Zenon DEF SyntheticJudge
    <2>2. a => n >= 70
        BY <1>4, Zenon
    <2> QED
        BY <1>5, <2>1, <2>2
<1>7. CASE m = "reject"
    <2>1. SyntheticJudge(s, m, 0) = Verdict(35, 50, no)
        BY <1>7, Zenon DEF SyntheticJudge
    <2> QED
        BY <1>5, <2>1
<1>8. CASE m = "retry_pass" /\ s.revised
    <2>1. SyntheticJudge(s, m, 0) = Verdict(85, 90, yes)
        BY <1>8, Zenon DEF SyntheticJudge
    <2>2. 85 \in Nat /\ 90 \in Nat /\ 85 >= 70
        OBVIOUS
    <2> QED
        BY <1>5, <2>1, <2>2
<1>9. CASE m = "retry_pass" /\ ~s.revised
    <2>1. SyntheticJudge(s, m, 0) = Verdict(50, 60, no)
        BY <1>9, Zenon DEF SyntheticJudge
    <2> QED
        BY <1>5, <2>1
<1> QED
    BY <1>6, <1>7, <1>8, <1>9 DEF Marker

\* What the checks make of a verdict.
LEMMA ChecksMerged ==
    ASSUME NEW e \in ScriptEvaluation, NEW f
    PROVE  /\ MergeEvaluation(e, f) \in ScriptEvaluation
           /\ MergeEvaluation(e, f).overall = e.overall
           /\ MergeEvaluation(e, f).approved <=> e.approved /\ f = {}
           /\ MergeEvaluation(e, f).issues <=> e.issues \/ f # {}
           /\ f = {} => MergeEvaluation(e, f) = e
<1>1. PICK overall \in Nat, duration \in Nat, refused \in BOOLEAN, approved \in BOOLEAN :
        e = [overall |-> overall, duration |-> duration, issues |-> refused,
             approved |-> approved]
    BY DEF ScriptEvaluation
<1>2. PICK i \in BOOLEAN : i = (refused \/ f # {})
    OBVIOUS
<1>3. PICK a \in BOOLEAN : a = (approved /\ f = {})
    OBVIOUS
<1>4. e.issues = refused /\ e.approved = approved
    BY <1>1
<1>5. MergeEvaluation(e, f) = [e EXCEPT !.issues = i, !.approved = a]
    BY <1>2, <1>3, <1>4, Zenon DEF MergeEvaluation
<1> DEFINE g == [e EXCEPT !.issues = i]
<1>6. g = [overall |-> overall, duration |-> duration, issues |-> i, approved |-> approved]
    BY <1>1
<1> HIDE DEF g
<1>7. [g EXCEPT !.approved = a]
        = [overall |-> overall, duration |-> duration, issues |-> i, approved |-> a]
    BY <1>6
<1>8. MergeEvaluation(e, f)
        = [overall |-> overall, duration |-> duration, issues |-> i, approved |-> a]
    BY <1>5, <1>7, Zenon DEF g
<1>9. f = {} => i = refused /\ a = approved
    BY <1>2, <1>3
<1> DEFINE r == MergeEvaluation(e, f)
<1>10. r = [overall |-> overall, duration |-> duration, issues |-> i, approved |-> a]
    BY <1>8
<1> HIDE DEF r
<1>11. r \in ScriptEvaluation /\ r.overall = e.overall /\ r.approved = a /\ r.issues = i
    BY <1>1, <1>10 DEF ScriptEvaluation
<1>12. f = {} => r = e
    BY <1>1, <1>9, <1>10
<1> QED
    BY <1>2, <1>3, <1>4, <1>11, <1>12, Zenon DEF r

\* A call is added, or the last one goes on or ends.
LEMMA CallAdded ==
    ASSUME calls \in Seq(Call), NEW c \in Call, calls' = Append(calls, c)
    PROVE  /\ calls' \in Seq(Call) /\ calls' # <<>> /\ Last' = c
           /\ Len(calls) \in Nat /\ Len(calls') = Len(calls) + 1
           /\ DOMAIN calls' = DOMAIN calls \cup {Len(calls')}
           /\ \A i \in DOMAIN calls : calls'[i] = calls[i] /\ i # Len(calls')
           /\ calls'[Len(calls')] = c
BY DEF Last

\* The last call in place of which another record stands.
LEMMA CallChanged ==
    ASSUME calls \in Seq(Call), calls # <<>>, NEW c \in Call,
           calls' = [calls EXCEPT ![Len(calls)] = c]
    PROVE  /\ calls' \in Seq(Call) /\ calls' # <<>> /\ Last' = c /\ Len(calls') = Len(calls)
           /\ Len(calls) \in DOMAIN calls /\ Last \in Call
           /\ DOMAIN calls' = DOMAIN calls
           /\ \A i \in DOMAIN calls : i # Len(calls) => calls'[i] = calls[i]
           /\ calls'[Len(calls)] = c
BY DEF Last

\* A verdict of the rubric is an evaluation.
LEMMA VerdictShape ==
    ASSUME NEW o \in Nat, NEW d \in Nat, NEW a \in BOOLEAN
    PROVE  /\ Verdict(o, d, a) \in ScriptEvaluation
           /\ Verdict(o, d, a).overall = o
           /\ Verdict(o, d, a).approved <=> a
           /\ Verdict(o, d, a).issues <=> ~a
<1>1. PICK b \in BOOLEAN : b = ~a
    OBVIOUS
<1> DEFINE v == Verdict(o, d, a)
<1>2. v = [overall |-> o, duration |-> d, issues |-> b, approved |-> a]
    BY <1>1, Zenon DEF Verdict
<1> HIDE DEF v
<1>3. v \in ScriptEvaluation /\ v.overall = o /\ v.approved = a /\ v.issues = b
    BY <1>2 DEF ScriptEvaluation
<1> QED
    BY <1>1, <1>3, Zenon DEF v

\* The three things that happen to the last call.
LEMMA CallTicks ==
    ASSUME JudgeTypeOK, JudgeAssumption, Running, Last.elapsed < MaxLatency,
           calls' = [calls EXCEPT ![Len(calls)].elapsed = @ + 1]
    PROVE  \E c \in Call :
              /\ calls' = [calls EXCEPT ![Len(calls)] = c]
              /\ c.model = Last.model /\ c.state = Last.state /\ c.late = Last.late
              /\ c.elapsed = Last.elapsed + 1
<1> DEFINE c == [Last EXCEPT !.elapsed = @ + 1]
<1>1. Last \in Call /\ MaxLatency \in Nat
    BY DEF Last, Running, JudgeTypeOK, JudgeAssumption
<1>2. /\ c \in Call /\ c.model = Last.model /\ c.state = Last.state /\ c.late = Last.late
      /\ c.elapsed = Last.elapsed + 1
    BY <1>1 DEF Call
<1>3. calls' = [calls EXCEPT ![Len(calls)] = c]
    BY DEF Last
<1> HIDE DEF c
<1> QED
    BY <1>2, <1>3

\* The last call ends.
LEMMA CallAnswers ==
    ASSUME JudgeTypeOK, Running, NEW o \in CallOutcome,
           calls' = [calls EXCEPT ![Len(calls)].state = o]
    PROVE  \E c \in Call :
              /\ calls' = [calls EXCEPT ![Len(calls)] = c]
              /\ c.model = Last.model /\ c.state = o /\ c.late = Last.late
              /\ c.elapsed = Last.elapsed
<1> DEFINE c == [Last EXCEPT !.state = o]
<1>1. Last \in Call
    BY DEF Last, Running, JudgeTypeOK
<1>2. /\ c \in Call /\ c.model = Last.model /\ c.state = o /\ c.late = Last.late
      /\ c.elapsed = Last.elapsed
    BY <1>1 DEF Call
<1>3. calls' = [calls EXCEPT ![Len(calls)] = c]
    BY DEF Last
<1> HIDE DEF c
<1> QED
    BY <1>2, <1>3

\* The last call has become late.
LEMMA CallExpires ==
    ASSUME JudgeTypeOK, Running, calls' = [calls EXCEPT ![Len(calls)].late = TRUE]
    PROVE  \E c \in Call :
              /\ calls' = [calls EXCEPT ![Len(calls)] = c]
              /\ c.model = Last.model /\ c.state = Last.state /\ c.late = TRUE
              /\ c.elapsed = Last.elapsed
<1> DEFINE c == [Last EXCEPT !.late = TRUE]
<1>1. Last \in Call
    BY DEF Last, Running, JudgeTypeOK
<1>2. /\ c \in Call /\ c.model = Last.model /\ c.state = Last.state /\ c.late = TRUE
      /\ c.elapsed = Last.elapsed
    BY <1>1 DEF Call
<1>3. calls' = [calls EXCEPT ![Len(calls)] = c]
    BY DEF Last
<1> HIDE DEF c
<1> QED
    BY <1>2, <1>3

\* An attempt that has failed is followed by a delay or by another model.
LEMMA FailsShape ==
    ASSUME JudgeAssumption, JudgeTypeOK, TriesInv, InCall, NEW transient \in BOOLEAN, Fails(transient)
    PROVE  /\ UNCHANGED <<model, attempt, answer>>
           /\ \/ /\ transient /\ attempt < LlmMaxAttempts
                 /\ judge_pc' = "sleep" /\ delay' \in 0..BackoffMax /\ failed' = failed
              \/ /\ ~transient \/ attempt = LlmMaxAttempts
                 /\ judge_pc' = "route" /\ delay' = delay /\ failed' = failed \cup {model}
<1>1. attempt \in Nat \ {0} /\ attempt <= LlmMaxAttempts /\ LlmMaxAttempts \in Nat
    BY DEF TriesInv, Trying, JudgeAssumption
<1>2. Backoff(attempt) \in 0..BackoffMax
    BY <1>1, BackoffShape
<1> QED
    BY <1>1, <1>2 DEF Fails, AttemptsLeft, GiveUpModel

\* The types of a judgment.
LEMMA JudgeTypeStep ==
    ASSUME JudgeAssumption, JudgeTypeOK, CallsInv, TriesInv, [JudgeNext]_judgeVars
    PROVE  JudgeTypeOK'
<1>1. /\ LlmMaxAttempts \in Nat \ {0} /\ BackoffMax \in Nat /\ MaxLatency \in Nat
      /\ PrimaryFor \in Model /\ FallbackFor \in Model
    BY ModelsNamed DEF JudgeAssumption, JudgeTypeOK
<1>2. settings \in Configurations /\ script \in Scripts /\ marker \in Markers
    BY DEF JudgeTypeOK
<1>3. script \in ShortScript /\ marker \in Marker
    BY <1>2 DEF JudgeAssumption
<1>4. Trying => model \in Model /\ attempt \in 1..LlmMaxAttempts
    BY <1>1 DEF TriesInv
<1>5. CASE Begin
    BY <1>5 DEF Begin, JudgeTypeOK, input, policy, answer
<1>6. CASE Route
    <2>1. model' \in Model \cup {Empty} /\ attempt' \in 0..LlmMaxAttempts
        BY <1>1, <1>6, CandidatesTried DEF Route, JudgeTypeOK
    <2> QED
        BY <1>6, <2>1 DEF Route, NoneLeft, JudgeTypeOK, input, answer
<1>7. CASE Submit
    <2> DEFINE c == [model |-> model, state |-> "running", elapsed |-> 0, late |-> FALSE]
    <2>1. c \in Call
        BY <1>1, <1>4, <1>7 DEF Submit, Trying, Call
    <2>2. calls' \in Seq(Call)
        BY <1>7, <2>1, CallAdded DEF Submit, JudgeTypeOK
    <2> QED
        BY <1>7, <2>2 DEF Submit, JudgeTypeOK, input, answer
<1>8. CASE TimePasses
    <2>1. CASE Running /\ UNCHANGED delay
        <3>1. calls' \in Seq(Call)
            BY <1>8, <2>1, CallTicks, CallChanged DEF TimePasses, Running, JudgeTypeOK
        <3> QED
            BY <1>8, <2>1, <3>1 DEF TimePasses, JudgeTypeOK, input, answer
    <2>2. CASE delay' = delay - 1 /\ delay > 0 /\ UNCHANGED calls
        <3>1. delay' \in 0..BackoffMax
            BY <1>1, <2>2 DEF JudgeTypeOK
        <3> QED
            BY <1>8, <2>2, <3>1 DEF TimePasses, JudgeTypeOK, input, answer
    <2> QED
        BY <1>8, <2>1, <2>2 DEF TimePasses
<1>9. CASE CallEnds
    <2>1. calls' \in Seq(Call)
        BY <1>9, CallAnswers, CallChanged DEF CallEnds, Running, JudgeTypeOK
    <2> QED
        BY <1>9, <2>1 DEF CallEnds, JudgeTypeOK, input, answer
<1>10. ASSUME NEW transient \in BOOLEAN, InCall, Fails(transient), UNCHANGED <<input, calls, clock>>
       PROVE  JudgeTypeOK'
    <2>1. failed' \in SUBSET Model
        BY <1>4, <1>10, FailsShape DEF JudgeTypeOK, Trying
    <2>2. delay' \in 0..BackoffMax /\ judge_pc' \in {"sleep", "route"}
        BY <1>10, FailsShape DEF JudgeTypeOK
    <2>3. UNCHANGED <<model, attempt, answer>>
        BY <1>10 DEF Fails
    <2> QED
        BY <1>10, <2>1, <2>2, <2>3 DEF JudgeTypeOK, input, answer
<1>11. CASE Receive
    <2>1. CASE Accepts
        <3>1. source' \in Model
            BY <1>1, <1>4, <1>11, <2>1 DEF Receive, Accepts, CallsInv, InCall, Trying
        <3>2. judgment' \in ScriptEvaluation
            BY <2>1 DEF Accepts, JudgeAssumption
        <3> QED
            BY <1>11, <2>1, <3>1, <3>2 DEF Receive, Accepts, JudgeTypeOK, input
    <2>2. CASE Fails(Last.state = "transient")
        <3>1. PICK transient \in BOOLEAN : transient = (Last.state = "transient")
            OBVIOUS
        <3>2. Fails(transient)
            BY <2>2, <3>1, Zenon
        <3> QED
            BY <1>10, <1>11, <3>2 DEF Receive, InCall
    <2> QED
        BY <1>11, <2>1, <2>2 DEF Receive
<1>12. CASE Expire
    <2>1. calls' \in Seq(Call)
        BY <1>12, CallExpires, CallChanged DEF Expire, Running, JudgeTypeOK
    <2> QED
        BY <1>12, <2>1 DEF Expire, JudgeTypeOK, input, answer
<1>13. CASE Join
    BY <1>10, <1>13 DEF Join, InCall
<1>14. CASE WakeUp
    <2>1. attempt' \in 0..LlmMaxAttempts
        BY <1>1, <1>14 DEF WakeUp, TriesInv, Trying
    <2> QED
        BY <1>14, <2>1 DEF WakeUp, JudgeTypeOK, input, answer
<1>15. CASE GiveUp
    BY <1>15 DEF GiveUp, JudgeTypeOK, input, policy, answer
<1>16. CASE JudgeSynthetic
    <2>1. judgment' \in ScriptEvaluation
        BY <1>3, <1>16, RubricVerdict, VerdictShape DEF JudgeSynthetic
    <2> QED
        BY <1>16, <2>1 DEF JudgeSynthetic, JudgeTypeOK, input, policy
<1>17. CASE Merge
    <2>1. evaluation' \in ScriptEvaluation
        BY <1>17, ChecksMerged DEF Merge, JudgeTypeOK
    <2> QED
        BY <1>17, <2>1 DEF Merge, JudgeTypeOK, input, policy
<1>18. CASE UNCHANGED judgeVars
    BY <1>18 DEF judgeVars, input, policy, answer, JudgeTypeOK
<1> QED
    BY <1>5, <1>6, <1>7, <1>8, <1>9, <1>11, <1>12, <1>13, <1>14, <1>15, <1>16, <1>17, <1>18
    DEF JudgeNext

\* What a step leaves of the list of calls.
LEMMA CallsOf ==
    ASSUME JudgeTypeOK
    PROVE  /\ Len(calls) \in Nat /\ DOMAIN calls = 1..Len(calls)
           /\ \A i \in DOMAIN calls : calls[i] \in Call /\ calls[i].model \in Model
           /\ calls # <<>> <=> Len(calls) \in DOMAIN calls
           /\ Last = calls[Len(calls)]
<1>1. calls \in Seq(Call)
    BY DEF JudgeTypeOK
<1>2. /\ Len(calls) \in Nat /\ DOMAIN calls = 1..Len(calls)
      /\ \A i \in DOMAIN calls : calls[i] \in Call
    BY <1>1
<1>3. \A c \in Call : c.model \in Model
    BY DEF Call
<1>4. calls # <<>> <=> Len(calls) \in DOMAIN calls
    BY <1>1
<1> QED
    BY <1>2, <1>3, <1>4 DEF Last

\* One call is on its way, and no late one counts.
LEMMA CallsStep ==
    ASSUME JudgeAssumption, JudgeTypeOK, CallsInv, SourceInv, TriesInv, [JudgeNext]_judgeVars
    PROVE  CallsInv'
<1>1. /\ Len(calls) \in Nat /\ DOMAIN calls = 1..Len(calls)
      /\ \A i \in DOMAIN calls : calls[i] \in Call /\ calls[i].model \in Model
      /\ calls # <<>> <=> Len(calls) \in DOMAIN calls
      /\ Last = calls[Len(calls)]
    BY CallsOf
<1>2. Empty \notin Model
    BY DEF JudgeAssumption
<1>3. \A i \in DOMAIN calls : judge_pc \notin {"wait", "merge", "done"} => ~Usable(calls[i])
    BY <1>1, <1>2 DEF CallsInv, SourceInv
<1>4. ASSUME calls' = calls, ~InCall', \A i \in DOMAIN calls : calls[i].state # "running",
             \A i \in DOMAIN calls : Usable(calls[i]) =>
                 i = Len(calls) /\ source' = calls[i].model
      PROVE  CallsInv'
    BY <1>4 DEF CallsInv, Usable
<1>5. ASSUME calls' = calls, ~InCall, ~InCall', source' = source \/ judge_pc \notin {"merge", "done"}
      PROVE  CallsInv'
    BY <1>3, <1>4, <1>5 DEF CallsInv, InCall
<1>6. CASE UNCHANGED <<calls, judge_pc, model, source>>
    BY <1>6 DEF CallsInv, InCall, Last, Usable
<1>7. CASE Begin
    BY <1>5, <1>7 DEF Begin, InCall, policy, answer
<1>8. CASE Route
    BY <1>5, <1>8 DEF Route, NoneLeft, Submit, InCall, answer
<1>9. CASE Submit
    <2> DEFINE c == [model |-> model, state |-> "running", elapsed |-> 0, late |-> FALSE]
    <2>1. c \in Call
        BY <1>9, ModelsNamed DEF Submit, TriesInv, Trying, Call, JudgeAssumption, JudgeTypeOK
    <2>2. calls' = Append(calls, c) /\ judge_pc = "submit" /\ judge_pc' = "wait" /\ model' = model
        BY <1>9 DEF Submit
    <2>3. /\ calls' # <<>> /\ Last' = c /\ DOMAIN calls' = DOMAIN calls \cup {Len(calls')}
          /\ \A i \in DOMAIN calls : calls'[i] = calls[i]
          /\ calls'[Len(calls')] = c
        BY <2>1, <2>2, CallAdded DEF JudgeTypeOK
    <2>4. \A i \in DOMAIN calls : calls[i].state # "running" /\ ~Usable(calls[i])
        BY <1>3, <2>2 DEF CallsInv, InCall
    <2>5. c.model = model /\ c.late = FALSE /\ c.state = "running" /\ ~Usable(c)
        BY DEF Usable
    <2> HIDE DEF c
    <2> QED
        BY <2>2, <2>3, <2>4, <2>5 DEF CallsInv, InCall, Usable
\* The last call has become c.
<1>10. ASSUME calls # <<>>, NEW c \in Call, calls' = [calls EXCEPT ![Len(calls)] = c],
              c.model = Last.model, model' = model, InCall, InCall',
              c.late = (judge_pc' = "join"), Usable(c) => judge_pc' = "wait",
              judge_pc = "join" => judge_pc' = "join"
       PROVE  CallsInv'
    <2>1. /\ calls' # <<>> /\ Last' = c /\ Len(calls') = Len(calls)
          /\ Len(calls) \in DOMAIN calls /\ DOMAIN calls' = DOMAIN calls
          /\ \A i \in DOMAIN calls : i # Len(calls) => calls'[i] = calls[i]
          /\ calls'[Len(calls)] = c
        BY <1>10, CallChanged DEF JudgeTypeOK
    <2>2. \A i \in DOMAIN calls : i # Len(calls) => calls[i].state # "running" /\ ~Usable(calls[i])
        BY DEF CallsInv
    <2>3. Last.model = model
        BY <1>10 DEF CallsInv
    <2> QED
        BY <1>10, <2>1, <2>2, <2>3 DEF CallsInv, InCall, Usable
<1>11. Running => InCall /\ calls # <<>>
    BY <1>1 DEF Running, CallsInv
<1>12. CASE TimePasses
    <2>1. CASE UNCHANGED calls
        BY <1>6, <1>12, <2>1 DEF TimePasses, answer
    <2>2. CASE Running /\ Last.elapsed < MaxLatency
               /\ calls' = [calls EXCEPT ![Len(calls)].elapsed = @ + 1]
        <3>1. PICK c \in Call :
                /\ calls' = [calls EXCEPT ![Len(calls)] = c]
                /\ c.model = Last.model /\ c.state = Last.state /\ c.late = Last.late
            BY <2>2, CallTicks
        <3>2. Last.late = (judge_pc = "join") /\ c.state = "running" /\ ~Usable(c)
            BY <1>11, <2>2, <3>1 DEF CallsInv, Running, Usable
        <3> QED
            BY <1>10, <1>11, <1>12, <2>2, <3>1, <3>2 DEF TimePasses, InCall
    <2> QED
        BY <1>12, <2>1, <2>2 DEF TimePasses
<1>13. CASE CallEnds
    <2>1. PICK o \in CallOutcome : calls' = [calls EXCEPT ![Len(calls)].state = o]
        BY <1>13 DEF CallEnds
    <2>2. PICK c \in Call :
            /\ calls' = [calls EXCEPT ![Len(calls)] = c]
            /\ c.model = Last.model /\ c.late = Last.late
        BY <1>13, <2>1, CallAnswers DEF CallEnds
    <2>3. Last.late = (judge_pc = "join") /\ (Usable(c) => judge_pc = "wait")
        BY <1>11, <1>13, <2>2 DEF CallEnds, CallsInv, InCall, Usable
    <2> QED
        BY <1>10, <1>11, <1>13, <2>2, <2>3 DEF CallEnds, InCall
<1>14. CASE Expire
    <2>1. PICK c \in Call :
            /\ calls' = [calls EXCEPT ![Len(calls)] = c]
            /\ c.model = Last.model /\ c.late = TRUE
        BY <1>14, CallExpires DEF Expire
    <2>2. ~Usable(c)
        BY <2>1 DEF Usable
    <2> QED
        BY <1>10, <1>11, <1>14, <2>1, <2>2 DEF Expire, InCall
\* The caller goes on once the last call is over.
<1>15. InCall /\ ~Running => \A i \in DOMAIN calls : calls[i].state # "running"
    BY <1>1 DEF CallsInv, Running
<1>16. CASE Receive
    <2>1. InCall /\ ~Running /\ calls' = calls /\ calls # <<>>
        BY <1>16 DEF Receive, InCall, CallsInv
    <2>2. CASE Accepts
        BY <1>1, <1>4, <1>15, <2>1, <2>2 DEF Accepts, InCall, CallsInv
    <2>3. CASE Last.state # "ok" /\ Fails(Last.state = "transient")
        <3>1. ~InCall'
            BY <2>3 DEF Fails, GiveUpModel, InCall
        <3>2. \A i \in DOMAIN calls : ~Usable(calls[i])
            BY <1>1, <2>3 DEF CallsInv, Usable
        <3> QED
            BY <1>4, <1>15, <2>1, <3>1, <3>2
    <2> QED
        BY <1>16, <2>2, <2>3 DEF Receive
<1>17. CASE Join
    <2>1. InCall /\ ~Running /\ calls' = calls /\ judge_pc = "join" /\ ~InCall'
        BY <1>17 DEF Join, InCall, Fails, GiveUpModel
    <2>2. \A i \in DOMAIN calls : ~Usable(calls[i])
        BY <1>3, <2>1
    <2> QED
        BY <1>4, <1>15, <2>1, <2>2
<1>18. CASE WakeUp
    BY <1>5, <1>18 DEF WakeUp, InCall, answer
<1>19. CASE GiveUp
    BY <1>5, <1>19 DEF GiveUp, InCall, policy, answer
<1>20. CASE JudgeSynthetic
    BY <1>5, <1>20 DEF JudgeSynthetic, InCall, policy
<1>21. CASE Merge
    BY <1>5, <1>21 DEF Merge, InCall, policy
<1> QED
    BY <1>6, <1>7, <1>8, <1>9, <1>12, <1>13, <1>14, <1>16, <1>17, <1>18, <1>19, <1>20, <1>21
    DEF JudgeNext, judgeVars, policy, answer

\* Where the judgment is from, and why.
LEMMA SourceStep ==
    ASSUME JudgeAssumption, JudgeTypeOK, CallsInv, SourceInv, TriesInv, [JudgeNext]_judgeVars
    PROVE  SourceInv'
<1>1. Empty \notin Model /\ "synthetic" \notin Model /\ "synthetic" # Empty
    BY DEF JudgeAssumption
<1>2. UNCHANGED <<input, settings, PrimaryFor, FallbackFor>>
    BY DEF JudgeNext, judgeVars, Begin, Route, Submit, TimePasses, CallEnds, Receive, Expire, Join,
       WakeUp, GiveUp, JudgeSynthetic, Merge, input, PrimaryFor, FallbackFor
<1>3. /\ judge_pc \notin {"merge", "done"} => source = Empty
      /\ Running => InCall /\ calls # <<>>
    BY CallsOf DEF SourceInv, Running, CallsInv
\* Nobody has answered yet, and nobody does.
<1>4. ASSUME judge_pc' \in {"route", "submit", "wait", "join", "sleep"}, source' = Empty
      PROVE  SourceInv'
    BY <1>1, <1>4 DEF SourceInv
<1>5. CASE Begin
    <2>1. source' = Empty
        BY <1>3, <1>5 DEF Begin, answer
    <2> QED
        BY <1>1, <1>2, <1>5, <2>1 DEF Begin, SourceInv
<1>6. CASE Route
    <2>1. source' = Empty
        BY <1>3, <1>6 DEF Route, answer
    <2>2. CASE Untried = {}
        <3>1. {PrimaryFor, FallbackFor} \subseteq failed' /\ judge_pc' = "give_up"
            BY <1>6, <2>2, CandidatesTried DEF Route, NoneLeft
        <3> QED
            BY <1>1, <1>2, <2>1, <3>1 DEF SourceInv
    <2>3. CASE Untried # {}
        BY <1>4, <1>6, <2>1, <2>3 DEF Route
    <2> QED
        BY <2>2, <2>3
<1>7. CASE Submit
    BY <1>3, <1>4, <1>7 DEF Submit, answer
<1>8. CASE TimePasses
    BY <1>3, <1>4, <1>8 DEF TimePasses, answer, InCall
<1>9. CASE CallEnds
    BY <1>3, <1>4, <1>9 DEF CallEnds, answer, InCall
<1>10. CASE Expire
    BY <1>3, <1>4, <1>10 DEF Expire, answer
<1>11. ASSUME NEW transient, InCall, Fails(transient) PROVE SourceInv'
    BY <1>3, <1>4, <1>11 DEF Fails, GiveUpModel, InCall, answer
<1>12. CASE Receive
    <2>1. CASE Last.state = "ok" /\ Accepts
        <3>1. calls # <<>> /\ Usable(Last) /\ Last.model \in Model
            BY <1>12, <2>1, CallsOf DEF Receive, CallsInv, InCall, Usable
        <3>2. calls' = calls /\ source' = Last.model /\ judge_pc' = "merge"
            BY <1>12, <2>1 DEF Receive, Accepts
        <3>3. Usable(Last)' /\ Last' = Last
            BY <3>1, <3>2 DEF Usable, Last
        <3> QED
            BY <1>1, <3>1, <3>2, <3>3 DEF SourceInv
    <2>2. CASE Fails(Last.state = "transient")
        BY <1>11, <1>12, <2>2 DEF Receive, InCall
    <2> QED
        BY <1>12, <2>1, <2>2 DEF Receive
<1>13. CASE Join
    BY <1>3, <1>4, <1>13 DEF Join, Fails, GiveUpModel, answer
<1>14. CASE WakeUp
    BY <1>3, <1>4, <1>14 DEF WakeUp, answer
<1>15. CASE GiveUp
    <2>1. source' = Empty /\ failed' = failed
        BY <1>3, <1>15 DEF GiveUp, answer, policy
    <2> QED
        BY <1>1, <1>2, <1>15, <2>1 DEF GiveUp, SourceInv
<1>16. CASE JudgeSynthetic
    <2>1. judge_pc = "synthetic" /\ judge_pc' = "merge" /\ source' = "synthetic" /\ failed' = failed
        BY <1>16 DEF JudgeSynthetic, policy
    <2> QED
        BY <1>1, <1>2, <2>1 DEF SourceInv
<1>17. CASE Merge \/ UNCHANGED judgeVars
    <2>1. /\ UNCHANGED <<source, failed, calls>>
          /\ judge_pc' = judge_pc \/ (judge_pc = "merge" /\ judge_pc' = "done")
        BY <1>17 DEF Merge, judgeVars, policy, answer
    <2> QED
        BY <1>2, <2>1 DEF SourceInv, Last, Usable
<1> QED
    BY <1>5, <1>6, <1>7, <1>8, <1>9, <1>10, <1>12, <1>13, <1>14, <1>15, <1>16, <1>17 DEF JudgeNext

\* What a step does to the calls, as far as the models they are made to go.
LEMMA CallsMove ==
    ASSUME JudgeAssumption, JudgeTypeOK, CallsInv, CallsInv', [JudgeNext]_judgeVars
    PROVE  \/ calls' = calls
           \/ /\ Submit
              /\ DOMAIN calls' = DOMAIN calls \cup {Len(calls')} /\ Len(calls') \notin DOMAIN calls
              /\ \A i \in DOMAIN calls : calls'[i] = calls[i]
              /\ calls'[Len(calls')].model = model /\ calls'[Len(calls')].state = "running"
           \/ /\ InCall /\ InCall' /\ UNCHANGED <<model, failed, attempt>>
              /\ DOMAIN calls' = DOMAIN calls /\ Len(calls) \in DOMAIN calls
              /\ \A i \in DOMAIN calls : i # Len(calls) => calls'[i] = calls[i]
              /\ calls[Len(calls)].model = model /\ calls'[Len(calls)].model = model
              /\ calls'[Len(calls)].late = (judge_pc' = "join")
              /\ judge_pc' \in {judge_pc, "join"} /\ Len(calls') = Len(calls)
<1>1. ASSUME Running, NEW c \in Call, calls' = [calls EXCEPT ![Len(calls)] = c],
             InCall', UNCHANGED <<model, failed, attempt>>, c.model = Last.model,
             judge_pc' \in {judge_pc, "join"}
      PROVE  /\ InCall /\ InCall' /\ UNCHANGED <<model, failed, attempt>>
             /\ DOMAIN calls' = DOMAIN calls /\ Len(calls) \in DOMAIN calls
             /\ \A i \in DOMAIN calls : i # Len(calls) => calls'[i] = calls[i]
             /\ calls[Len(calls)].model = model /\ calls'[Len(calls)].model = model
             /\ calls'[Len(calls)].late = (judge_pc' = "join")
             /\ judge_pc' \in {judge_pc, "join"} /\ Len(calls') = Len(calls)
    <2>1. calls # <<>> /\ InCall /\ Last.model = model /\ Last = calls[Len(calls)]
        BY <1>1, CallsOf DEF Running, CallsInv
    <2>2. /\ Last' = c /\ Len(calls') = Len(calls)
          /\ Len(calls) \in DOMAIN calls /\ DOMAIN calls' = DOMAIN calls
          /\ \A i \in DOMAIN calls : i # Len(calls) => calls'[i] = calls[i]
          /\ calls'[Len(calls)] = c
        BY <1>1, <2>1, CallChanged DEF JudgeTypeOK
    <2>3. c.late = (judge_pc' = "join")
        BY <1>1, <2>2 DEF CallsInv
    <2> QED
        BY <1>1, <2>1, <2>2, <2>3
<1>2. Running => InCall
    BY CallsOf DEF Running, CallsInv
<1>3. CASE TimePasses /\ Running /\ Last.elapsed < MaxLatency
           /\ calls' = [calls EXCEPT ![Len(calls)].elapsed = @ + 1]
    BY <1>1, <1>2, <1>3, CallTicks DEF TimePasses, InCall
<1>4. CASE CallEnds
    BY <1>1, <1>2, <1>4, CallAnswers DEF CallEnds, InCall
<1>5. CASE Expire
    BY <1>1, <1>5, CallExpires DEF Expire, InCall
<1>6. CASE Submit
    <2> DEFINE c == [model |-> model, state |-> "running", elapsed |-> 0, late |-> FALSE]
    <2>1. calls' = Append(calls, c)
        BY <1>6 DEF Submit
    <2>2. c.model = model /\ c.state = "running"
        OBVIOUS
    <2> HIDE DEF c
    <2>3. /\ DOMAIN calls' = DOMAIN calls \cup {Len(calls')} /\ Len(calls') \notin DOMAIN calls
          /\ \A i \in DOMAIN calls : calls'[i] = calls[i]
          /\ calls'[Len(calls')] = c
        BY <2>1 DEF JudgeTypeOK
    <2> QED
        BY <1>6, <2>2, <2>3
<1> QED
    BY <1>3, <1>4, <1>5, <1>6 DEF JudgeNext, judgeVars, policy, Begin, Route, TimePasses, Receive, Join,
       WakeUp, GiveUp, JudgeSynthetic, Merge

\* The calls to a model, and how many there are.
LEMMA CallsToFinite ==
    ASSUME JudgeTypeOK, NEW m
    PROVE  IsFiniteSet(CallsTo(m)) /\ Cardinality(CallsTo(m)) \in Nat
<1>1. IsFiniteSet(1..Len(calls)) /\ CallsTo(m) \in SUBSET (1..Len(calls))
    BY CallsOf, FS_Interval DEF CallsTo
<1> QED
    BY <1>1, FS_Subset, FS_CardinalityType

\* Calls are only made to the model in hand, and only they change.
LEMMA OthersKept ==
    ASSUME JudgeAssumption, JudgeTypeOK, CallsInv, CallsInv', [JudgeNext]_judgeVars, NEW m,
           m # model \/ calls' = calls
    PROVE  CallsTo(m)' = CallsTo(m) /\ PermanentOf(m)' = PermanentOf(m)
<1>1. CASE calls' = calls
    BY <1>1 DEF CallsTo, PermanentOf
<1>2. CASE m # model
    <2>1. CallsTo(m)' = CallsTo(m) /\ \A i \in CallsTo(m) : calls'[i] = calls[i]
        BY <1>2, CallsMove DEF CallsTo
    <2> QED
        BY <2>1 DEF PermanentOf
<1> QED
    BY <1>1, <1>2

\* The attempts are the calls to the model in hand.
LEMMA TriesStep ==
    ASSUME JudgeAssumption, JudgeTypeOK, CallsInv, CallsInv', TriesInv, [JudgeNext]_judgeVars
    PROVE  TriesInv'
<1>1. PrimaryFor' = PrimaryFor /\ FallbackFor' = FallbackFor
    BY DEF JudgeNext, judgeVars, Begin, Route, Submit, TimePasses, CallEnds, Receive, Expire, Join,
       WakeUp, GiveUp, JudgeSynthetic, Merge, input, PrimaryFor, FallbackFor
<1>2. LlmMaxAttempts \in Nat \ {0} /\ 1 \in 1..LlmMaxAttempts
    BY DEF JudgeAssumption
<1>3. \A m : calls' = calls => CallsTo(m)' = CallsTo(m) /\ PermanentOf(m)' = PermanentOf(m)
    BY OthersKept
<1>4. ASSUME calls' = calls, UNCHANGED <<failed, model, attempt>>, ~Trying',
             judge_pc' = "route" => judge_pc \in {"start", "route"}, judge_pc' # "start"
      PROVE  TriesInv'
    BY <1>1, <1>4 DEF TriesInv
<1>5. CASE Begin
    BY <1>4, <1>5 DEF Begin, Trying, InCall, policy
<1>6. CASE Route
    <2>1. calls' = calls /\ failed' = failed
          /\ \A i \in DOMAIN calls : calls[i].model \in failed
        BY <1>6, CallsOf DEF Route, TriesInv
    <2>2. CASE Untried = {}
        BY <1>4, <1>6, <2>1, <2>2 DEF Route, NoneLeft, Trying, InCall
    <2>3. CASE Untried # {}
        <3>1. /\ model' \in {PrimaryFor, FallbackFor} \ failed /\ attempt' = 1
              /\ judge_pc' = "submit"
            BY <1>6, <2>3, CandidatesTried DEF Route
        <3>2. CallsTo(model') = {}
            BY <2>1, <3>1 DEF CallsTo
        <3>3. CallsTo(model)' = {} /\ PermanentOf(model)' = {}
            BY <2>1, <3>2 DEF CallsTo, PermanentOf
        <3>4. Cardinality(CallsTo(model)') = attempt' - 1
            BY <3>1, <3>3, FS_EmptySet
        <3> QED
            BY <1>1, <1>2, <2>1, <3>1, <3>3, <3>4 DEF TriesInv, Trying
    <2> QED
        BY <2>2, <2>3
<1>7. CASE Submit
    <2>1. judge_pc = "submit" /\ judge_pc' = "wait" /\ UNCHANGED <<model, failed, attempt>>
        BY <1>7 DEF Submit
    <2>2. /\ DOMAIN calls' = DOMAIN calls \cup {Len(calls')} /\ Len(calls') \notin DOMAIN calls
          /\ \A i \in DOMAIN calls : calls'[i] = calls[i]
          /\ calls'[Len(calls')].model = model /\ calls'[Len(calls')].state = "running"
        BY <1>7, <2>1, CallsMove DEF InCall, Submit
    <2>3. CallsTo(model)' = CallsTo(model) \cup {Len(calls')} /\ Len(calls') \notin CallsTo(model)
        BY <2>1, <2>2 DEF CallsTo
    <2>4. Cardinality(CallsTo(model)') = Cardinality(CallsTo(model)) + 1
        BY <2>3, CallsToFinite, FS_AddElement
    <2>5. PermanentOf(model) = {}
        BY <2>1 DEF TriesInv, Trying
    <2>6. PermanentOf(model)' = {}
        BY <2>1, <2>2, <2>3, <2>5 DEF PermanentOf, CallsTo
    <2>7. /\ model \in {PrimaryFor, FallbackFor} /\ model \notin failed
          /\ attempt \in 1..LlmMaxAttempts /\ Cardinality(CallsTo(model)) = attempt - 1
        BY <2>1 DEF TriesInv, Trying
    <2>8. Cardinality(CallsTo(model)') = attempt
        BY <1>2, <2>4, <2>7
    <2> QED
        BY <1>1, <2>1, <2>2, <2>6, <2>7, <2>8 DEF TriesInv, Trying
\* The last call goes on, ends or comes too late.
<1>8. ASSUME calls' # calls, ~Submit PROVE TriesInv'
    <2>1. /\ InCall /\ InCall' /\ UNCHANGED <<model, failed, attempt>>
          /\ DOMAIN calls' = DOMAIN calls /\ Len(calls) \in DOMAIN calls
          /\ \A i \in DOMAIN calls : i # Len(calls) => calls'[i] = calls[i]
          /\ calls[Len(calls)].model = model /\ calls'[Len(calls)].model = model
          /\ calls'[Len(calls)].late = (judge_pc' = "join")
          /\ judge_pc' \in {judge_pc, "join"} /\ Len(calls') = Len(calls)
        BY <1>8, CallsMove
    <2>2. CallsTo(model)' = CallsTo(model)
        BY <2>1 DEF CallsTo
    <2>3. \A i \in PermanentOf(model) : judge_pc = "wait" /\ i = Len(calls)
        BY <2>1 DEF TriesInv, Trying
    <2>4. ASSUME NEW i \in PermanentOf(model)' PROVE judge_pc' = "wait" /\ i = Len(calls)
        <3>1. i \in CallsTo(model) /\ calls'[i].state = "permanent" /\ ~calls'[i].late
            BY <2>2 DEF PermanentOf
        <3>2. CASE i # Len(calls)
            <4>1. i \in PermanentOf(model)
                BY <2>1, <3>1, <3>2 DEF PermanentOf, CallsTo
            <4> QED
                BY <2>3, <3>2, <4>1
        <3>3. CASE i = Len(calls)
            BY <2>1, <3>1, <3>3 DEF InCall
        <3> QED
            BY <3>2, <3>3
    <2> QED
        BY <1>1, <2>1, <2>2, <2>4 DEF TriesInv, Trying, InCall
<1>9. CASE calls' = calls /\ UNCHANGED <<failed, model, attempt, judge_pc>>
    BY <1>1, <1>3, <1>9 DEF TriesInv, Trying, InCall
\* An attempt has failed.
<1>10. ASSUME NEW transient \in BOOLEAN, InCall, Fails(transient), calls' = calls,
              ~transient \/ PermanentOf(model) = {}
       PROVE  TriesInv'
    <2>1. /\ UNCHANGED <<model, attempt>>
          /\ \/ /\ transient /\ attempt < LlmMaxAttempts
                /\ judge_pc' = "sleep" /\ failed' = failed
             \/ judge_pc' = "route" /\ failed' = failed \cup {model}
        BY <1>10, FailsShape
    <2>2. /\ model \in {PrimaryFor, FallbackFor} /\ model \notin failed
          /\ attempt \in 1..LlmMaxAttempts /\ Cardinality(CallsTo(model)) = attempt
        BY <1>10 DEF TriesInv, Trying, InCall
    <2>3. CASE judge_pc' = "sleep"
        <3>1. PermanentOf(model) = {} /\ failed' = failed /\ attempt < LlmMaxAttempts
            BY <1>10, <2>1, <2>3
        <3> QED
            BY <1>1, <1>3, <1>10, <2>1, <2>2, <2>3, <3>1 DEF TriesInv, Trying
    <2>4. CASE judge_pc' = "route"
        BY <1>1, <1>10, <2>1, <2>2, <2>4 DEF TriesInv, Trying, InCall
    <2> QED
        BY <2>1, <2>3, <2>4
<1>11. CASE Receive
    <2>1. InCall /\ calls' = calls /\ judge_pc = "wait"
        BY <1>11 DEF Receive, InCall
    <2>2. CASE Accepts
        BY <1>4, <2>1, <2>2 DEF Accepts, Trying, InCall
    <2>3. CASE Fails(Last.state = "transient")
        <3>1. PICK transient \in BOOLEAN : transient = (Last.state = "transient")
            OBVIOUS
        <3>2. Fails(transient)
            BY <2>3, <3>1, Zenon
        <3>3. transient => PermanentOf(model) = {}
            BY <2>1, <3>1, CallsOf DEF TriesInv, Trying, PermanentOf
        <3> QED
            BY <1>10, <2>1, <3>2, <3>3
    <2> QED
        BY <1>11, <2>2, <2>3 DEF Receive
<1>12. CASE Join
    <2>1. InCall /\ calls' = calls /\ judge_pc = "join"
        BY <1>12 DEF Join, InCall
    <2>2. PermanentOf(model) = {}
        BY <2>1 DEF TriesInv, Trying, InCall
    <2>3. PICK transient \in BOOLEAN : transient = TRUE
        OBVIOUS
    <2>4. Fails(transient)
        BY <1>12, <2>3, Zenon DEF Join
    <2> QED
        BY <1>10, <2>1, <2>2, <2>4
<1>13. CASE WakeUp
    <2>1. /\ calls' = calls /\ UNCHANGED <<failed, model>> /\ judge_pc = "sleep" /\ judge_pc' = "submit"
          /\ attempt' = attempt + 1
        BY <1>13 DEF WakeUp
    <2>2. /\ model \in {PrimaryFor, FallbackFor} /\ model \notin failed
          /\ attempt \in 1..LlmMaxAttempts /\ attempt < LlmMaxAttempts
          /\ Cardinality(CallsTo(model)) = attempt /\ PermanentOf(model) = {}
        BY <2>1 DEF TriesInv, Trying
    <2>3. attempt' \in 1..LlmMaxAttempts /\ attempt' - 1 = attempt
        BY <1>2, <2>1, <2>2
    <2> QED
        BY <1>1, <1>3, <2>1, <2>2, <2>3 DEF TriesInv, Trying
<1>14. CASE GiveUp \/ JudgeSynthetic \/ Merge
    BY <1>4, <1>14 DEF GiveUp, JudgeSynthetic, Merge, Trying, InCall, policy
<1>15. Expire => calls' # calls
    BY DEF Expire, CallsInv, InCall, Last
<1>16. CASE TimePasses \/ CallEnds \/ Expire \/ UNCHANGED judgeVars
    <2>1. CASE calls' # calls /\ ~Submit
        BY <1>8, <2>1
    <2>2. CASE calls' = calls
        BY <1>9, <1>15, <1>16, <2>2 DEF TimePasses, CallEnds, judgeVars, policy
    <2> QED
        BY <1>7, <2>1, <2>2
<1> QED
    BY <1>5, <1>6, <1>7, <1>11, <1>12, <1>13, <1>14, <1>16 DEF JudgeNext

\* A model that has failed was given up fairly.
LEMMA GivenUpStep ==
    ASSUME JudgeAssumption, JudgeTypeOK, CallsInv, CallsInv', TriesInv, GivenUpFairly,
           [JudgeNext]_judgeVars
    PROVE  GivenUpFairly'
<1>1. ASSUME NEW m \in failed PROVE CallsTo(m)' = CallsTo(m) /\ PermanentOf(m)' = PermanentOf(m)
    <2>1. calls' # calls => model \notin failed
        BY CallsMove DEF TriesInv, Trying, Submit
    <2> QED
        BY <2>1, OthersKept
<1>2. \A m \in failed : \/ /\ Cardinality(PermanentOf(m)) = 1
                           /\ Cardinality(CallsTo(m)) <= LlmMaxAttempts
                        \/ PermanentOf(m) = {} /\ Cardinality(CallsTo(m)) = LlmMaxAttempts
    BY DEF GivenUpFairly, PermanentOf
<1>3. SUFFICES ASSUME NEW m \in failed'
               PROVE  \/ /\ Cardinality(PermanentOf(m)') = 1
                         /\ Cardinality(CallsTo(m)') <= LlmMaxAttempts
                      \/ PermanentOf(m)' = {} /\ Cardinality(CallsTo(m)') = LlmMaxAttempts
    BY DEF GivenUpFairly, PermanentOf
<1>4. CASE m \in failed
    BY <1>1, <1>2, <1>4
\* A model is given up.
<1>5. ASSUME m \notin failed, NEW transient \in BOOLEAN, InCall, Fails(transient),
             calls' = calls,
             IF transient THEN PermanentOf(model) = {} ELSE PermanentOf(model) = {Len(calls)}
      PROVE  \/ /\ Cardinality(PermanentOf(m)') = 1
                /\ Cardinality(CallsTo(m)') <= LlmMaxAttempts
             \/ PermanentOf(m)' = {} /\ Cardinality(CallsTo(m)') = LlmMaxAttempts
    <2>1. /\ m = model /\ (transient => attempt = LlmMaxAttempts)
        BY <1>3, <1>5, FailsShape
    <2>2. Cardinality(CallsTo(model)) = attempt /\ attempt <= LlmMaxAttempts
        BY <1>5 DEF TriesInv, Trying, InCall
    <2>3. CallsTo(m)' = CallsTo(model) /\ PermanentOf(m)' = PermanentOf(model)
        BY <1>5, <2>1 DEF CallsTo, PermanentOf
    <2> QED
        BY <1>5, <2>1, <2>2, <2>3, FS_Singleton
<1>6. CASE m \notin failed /\ Receive
    <2>1. InCall /\ calls' = calls /\ judge_pc = "wait" /\ ~Running /\ Last.state # "ok"
          /\ Fails(Last.state = "transient")
        BY <1>3, <1>6 DEF Receive, InCall, Accepts
    <2>2. PICK transient \in BOOLEAN : transient = (Last.state = "transient")
        OBVIOUS
    <2>3. Fails(transient)
        BY <2>1, <2>2, Zenon
    <2>4. /\ calls # <<>> /\ Last.model = model /\ Last = calls[Len(calls)]
          /\ Last.late = FALSE /\ Len(calls) \in DOMAIN calls
        BY <2>1, CallsOf DEF CallsInv
    <2>5. Last.state \in {"transient", "permanent"}
        BY <2>1, <2>4, CallsOf DEF Running, Call, CallOutcome
    <2>6. PermanentOf(model) \subseteq {Len(calls)}
        BY <2>1 DEF TriesInv, Trying, InCall
    <2>7. Len(calls) \in PermanentOf(model) <=> ~transient
        BY <2>2, <2>4, <2>5 DEF PermanentOf, CallsTo
    <2> QED
        BY <1>5, <1>6, <2>1, <2>3, <2>6, <2>7
<1>7. CASE m \notin failed /\ Join
    <2>1. InCall /\ calls' = calls /\ judge_pc = "join"
        BY <1>7 DEF Join, InCall
    <2>2. PermanentOf(model) = {}
        BY <2>1 DEF TriesInv, Trying, InCall
    <2>3. PICK transient \in BOOLEAN : transient = TRUE
        OBVIOUS
    <2>4. Fails(transient)
        BY <1>7, <2>3, Zenon DEF Join
    <2> QED
        BY <1>5, <1>7, <2>1, <2>2, <2>3, <2>4
<1> QED
    BY <1>3, <1>4, <1>6, <1>7 DEF JudgeNext, judgeVars, policy, Begin, Route, Submit, TimePasses, CallEnds,
       Expire, WakeUp, GiveUp, JudgeSynthetic, Merge

\* The budget of a model in attempts and delays.
LEMMA SpanShape ==
    ASSUME JudgeAssumption
    PROVE  /\ Lap \in Nat /\ Span \in Nat /\ MaxLatency \in Nat /\ BackoffMax \in Nat
           /\ Lap = MaxLatency + BackoffMax
           /\ \A a \in 1..LlmMaxAttempts :
                 /\ (a - 1) * Lap \in Nat
                 /\ (a - 1) * Lap + MaxLatency <= Span
                 /\ a * Lap = (a - 1) * Lap + Lap
                 /\ a < LlmMaxAttempts => (a - 1) * Lap + Lap <= Span
<1>1. MaxLatency \in Nat /\ BackoffMax \in Nat /\ LlmMaxAttempts \in Nat \ {0}
    BY DEF JudgeAssumption
<1>2. Lap \in Nat /\ Lap = MaxLatency + BackoffMax
    BY <1>1 DEF Lap
<1>3. PICK n \in Nat : LlmMaxAttempts = n + 1
    <2>1. LlmMaxAttempts - 1 \in Nat /\ LlmMaxAttempts = (LlmMaxAttempts - 1) + 1
        BY <1>1
    <2> QED
        BY <2>1
<1>4. n * Lap \in Nat /\ n * MaxLatency \in Nat /\ n * BackoffMax \in Nat
    BY <1>1, <1>2, <1>3, TimesNat
<1>5. Span = n * Lap + MaxLatency
    <2>1. LlmMaxAttempts * MaxLatency = n * MaxLatency + MaxLatency
        BY <1>1, <1>3
    <2>2. n * Lap = n * MaxLatency + n * BackoffMax
        BY <1>1, <1>2, <1>3
    <2>3. LlmMaxAttempts - 1 = n
        BY <1>3
    <2> QED
        BY <1>1, <1>4, <2>1, <2>2, <2>3 DEF Span
<1>6. ASSUME NEW a \in 1..LlmMaxAttempts
      PROVE  /\ (a - 1) * Lap \in Nat
             /\ (a - 1) * Lap + MaxLatency <= Span
             /\ a * Lap = (a - 1) * Lap + Lap
             /\ a < LlmMaxAttempts => (a - 1) * Lap + Lap <= Span
    <2>1. PICK b \in Nat : b = a - 1 /\ b <= n
        <3>1. a - 1 \in Nat /\ a - 1 <= n
            BY <1>3
        <3> QED
            BY <3>1
    <2>2. b * Lap \in Nat /\ b * Lap <= n * Lap
        BY <1>2, <2>1, TimesNat, TimesMonotone
    <2>3. a * Lap = b * Lap + Lap
        <3>1. a = b + 1
            BY <2>1
        <3> QED
            BY <1>2, <3>1
    <2>4. ASSUME a < LlmMaxAttempts PROVE b * Lap + Lap <= Span
        <3>1. a \in Nat /\ a <= n
            BY <1>3, <2>4
        <3>2. a * Lap <= n * Lap
            BY <1>2, <3>1, TimesMonotone
        <3> QED
            BY <1>1, <1>2, <1>4, <1>5, <2>2, <2>3, <3>2
    <2> QED
        BY <1>1, <1>4, <1>5, <2>1, <2>2, <2>3, <2>4
<1> QED
    BY <1>1, <1>2, <1>4, <1>5, <1>6

\* What the model in hand has taken, by where the caller is.
InHandCases ==
    /\ judge_pc = "submit" => InHand = (attempt - 1) * Lap
    /\ InCall => InHand = (attempt - 1) * Lap + Last.elapsed
    /\ judge_pc = "sleep" => InHand = (attempt - 1) * Lap + MaxLatency + BackoffMax - delay
    /\ ~Trying /\ source \in Model => InHand = Span
    /\ ~Trying /\ source \notin Model => InHand = 0

\* What the model in hand has taken, case by case ...
LEMMA InHandOf == InHandCases
<1>1. ASSUME judge_pc = "submit" PROVE InHand = (attempt - 1) * Lap
    <2>1. ~InCall /\ judge_pc # "sleep" /\ Trying
        BY <1>1 DEF InCall, Trying
    <2> QED
        BY <1>1, <2>1, Zenon DEF InHand
<1>2. ASSUME InCall PROVE InHand = (attempt - 1) * Lap + Last.elapsed
    <2>1. judge_pc # "submit" /\ judge_pc # "sleep" /\ Trying
        BY <1>2 DEF InCall, Trying
    <2> QED
        BY <1>2, <2>1, Zenon DEF InHand
<1>3. ASSUME judge_pc = "sleep"
      PROVE  InHand = (attempt - 1) * Lap + MaxLatency + BackoffMax - delay
    <2>1. ~InCall /\ judge_pc # "submit" /\ Trying
        BY <1>3 DEF InCall, Trying
    <2> QED
        BY <1>3, <2>1, Zenon DEF InHand
<1>4. ASSUME ~Trying
      PROVE  (source \in Model => InHand = Span) /\ (source \notin Model => InHand = 0)
    <2>1. ~InCall /\ judge_pc # "submit" /\ judge_pc # "sleep"
        BY <1>4 DEF Trying
    <2> QED
        BY <1>4, <2>1, Zenon DEF InHand
<1> QED
    BY <1>1, <1>2, <1>3, <1>4 DEF InHandCases

\* ... and in the next state.
LEMMA InHandNext == InHandCases'
BY InHandOf, PTL

\* The time of a judgment, model by model and attempt by attempt.
LEMMA ClockStep ==
    ASSUME JudgeAssumption, JudgeTypeOK, JudgeTypeOK', CallsInv, CallsInv', SourceInv, SourceInv',
           TriesInv, TriesInv', ClockInv, [JudgeNext]_judgeVars
    PROVE  ClockInv'
<1>1. /\ Lap \in Nat /\ Span \in Nat /\ MaxLatency \in Nat /\ BackoffMax \in Nat
      /\ Lap = MaxLatency + BackoffMax
      /\ \A a \in 1..LlmMaxAttempts :
            /\ (a - 1) * Lap \in Nat
            /\ (a - 1) * Lap + MaxLatency <= Span
            /\ a * Lap = (a - 1) * Lap + Lap
            /\ a < LlmMaxAttempts => (a - 1) * Lap + Lap <= Span
    BY SpanShape
<1>2. /\ PrimaryFor' = PrimaryFor /\ FallbackFor' = FallbackFor
    BY DEF JudgeNext, judgeVars, Begin, Route, Submit, TimePasses, CallEnds, Receive, Expire, Join,
       WakeUp, GiveUp, JudgeSynthetic, Merge, input, PrimaryFor, FallbackFor
<1>3. /\ IsFiniteSet(failed) /\ Cardinality(failed) \in Nat
      /\ failed \subseteq {PrimaryFor, FallbackFor}
    BY FailedCount DEF TriesInv
<1> DEFINE n == Cardinality(failed)
<1>4. n * Span \in Nat /\ (n + 1) * Span = n * Span + Span
    BY <1>1, <1>3, TimesNat
<1>5. clock \in Nat /\ clock <= n * Span + InHand
    BY DEF JudgeTypeOK, ClockInv
<1>6. /\ Trying => attempt \in 1..LlmMaxAttempts /\ model \notin failed
      /\ Trying => model \in {PrimaryFor, FallbackFor}
      /\ Trying => source \notin Model
      /\ judge_pc \notin {"merge", "done"} => source \notin Model
    BY DEF TriesInv, SourceInv, Trying, InCall, JudgeAssumption
<1>7. InCall => Last.elapsed \in 0..MaxLatency /\ Last = calls[Len(calls)]
    BY CallsOf DEF CallsInv, Call
<1> HIDE DEF n
\* The model in hand stays the one in hand.
<1>8. ASSUME UNCHANGED <<failed, source>>, clock' <= clock + (InHand' - InHand),
             InHand \in Int, InHand' \in Int, clock' \in Nat
      PROVE  ClockInv'
    <2>1. clock' <= n * Span + InHand'
        <3>1. \A k \in Nat : \A h, g \in Int : \A c, e \in Nat :
                c <= k + h /\ e <= c + (g - h) => e <= k + g
            OBVIOUS
        <3> QED
            BY <1>4, <1>5, <1>8, <3>1
    <2> QED
        BY <1>2, <1>8, <2>1 DEF ClockInv, n
<1>9. ASSUME UNCHANGED <<failed, source, clock>>, InHand' = InHand PROVE ClockInv'
    BY <1>2, <1>9 DEF ClockInv
<1>10. InHandCases /\ InHandCases'
    BY InHandOf, InHandNext
<1>11. ASSUME ~Trying, ~Trying', UNCHANGED <<failed, clock>>, source' \in Model <=> source \in Model
       PROVE  ClockInv'
    <2>1. InHand' = InHand
        BY <1>10, <1>11 DEF InHandCases
    <2> QED
        BY <1>2, <1>11, <2>1 DEF ClockInv
<1>12. CASE Begin
    BY <1>11, <1>12 DEF Begin, Trying, InCall, policy, answer
<1>13. CASE Route
    <2>1. CASE Untried = {}
        BY <1>11, <1>13, <2>1 DEF Route, NoneLeft, Trying, InCall, answer
    <2>2. CASE Untried # {}
        <3>1. /\ ~Trying /\ source \notin Model /\ attempt' = 1 /\ judge_pc' = "submit"
              /\ UNCHANGED <<failed, source, clock>>
            BY <1>6, <1>13, <2>2 DEF Route, Trying, InCall, answer
        <3>2. InHand = 0
            BY <1>10, <3>1 DEF InHandCases
        <3>3. InHand' = (attempt' - 1) * Lap /\ (attempt' - 1) * Lap = 0
            BY <1>1, <1>10, <3>1 DEF InHandCases
        <3> QED
            BY <1>9, <3>1, <3>2, <3>3
    <2> QED
        BY <2>1, <2>2
<1>14. CASE Submit
    <2>1. /\ judge_pc = "submit" /\ judge_pc' = "wait" /\ attempt' = attempt
          /\ UNCHANGED <<failed, source, clock>> /\ Last'.elapsed = 0
        BY <1>14, CallsOf DEF Submit, answer, Last, JudgeTypeOK
    <2>2. InHand = (attempt - 1) * Lap /\ InHand' = (attempt - 1) * Lap + 0
        BY <1>10, <2>1 DEF InHandCases, InCall
    <2> QED
        BY <1>1, <1>6, <1>9, <2>1, <2>2 DEF Trying
<1>15. Running => InCall /\ calls # <<>>
    BY CallsOf DEF Running, CallsInv
<1>16. ASSUME InCall, InCall', attempt' = attempt, UNCHANGED <<failed, source>>,
              NEW d \in {0, 1}, Last'.elapsed = Last.elapsed + d, clock' = clock + d
       PROVE  ClockInv'
    <2>1. /\ InHand = (attempt - 1) * Lap + Last.elapsed
          /\ InHand' = (attempt - 1) * Lap + Last'.elapsed
        BY <1>10, <1>16 DEF InHandCases
    <2>2. (attempt - 1) * Lap \in Nat
        BY <1>1, <1>6, <1>16 DEF Trying
    <2>3. Last.elapsed \in Nat
        BY <1>1, <1>7, <1>16
    <2>4. InHand \in Int /\ InHand' = InHand + d
        BY <1>16, <2>1, <2>2, <2>3
    <2>5. InHand' \in Int /\ clock' <= clock + (InHand' - InHand) /\ clock' \in Nat
        BY <1>5, <1>16, <2>4
    <2> QED
        BY <1>8, <1>16, <2>4, <2>5
<1>17. CASE TimePasses
    <2>1. CASE Running /\ Last.elapsed < MaxLatency
               /\ calls' = [calls EXCEPT ![Len(calls)].elapsed = @ + 1]
        <3>1. Last'.elapsed = Last.elapsed + 1
            BY <1>15, <2>1, CallTicks, CallChanged DEF JudgeTypeOK
        <3> QED
            BY <1>15, <1>16, <1>17, <2>1, <3>1 DEF TimePasses, InCall, answer
    <2>2. CASE judge_pc = "sleep" /\ delay > 0 /\ delay' = delay - 1
        <3>1. /\ judge_pc' = "sleep" /\ UNCHANGED <<failed, source, attempt>> /\ clock' = clock + 1
              /\ delay \in Nat
            BY <1>17, <2>2 DEF TimePasses, answer, JudgeTypeOK
        <3>2. (attempt - 1) * Lap \in Nat
            BY <1>1, <1>6, <2>2 DEF Trying
        <3>3. /\ InHand = (attempt - 1) * Lap + MaxLatency + BackoffMax - delay
              /\ InHand' = (attempt - 1) * Lap + MaxLatency + BackoffMax - delay'
            BY <1>10, <2>2, <3>1 DEF InHandCases
        <3> QED
            BY <1>1, <1>5, <1>8, <2>2, <3>1, <3>2, <3>3
    <2> QED
        BY <1>17, <2>1, <2>2 DEF TimePasses
<1>18. CASE CallEnds
    <2>1. Last'.elapsed = Last.elapsed + 0
        <3>1. Last'.elapsed = Last.elapsed
            BY <1>15, <1>18, CallAnswers, CallChanged DEF CallEnds, JudgeTypeOK
        <3> QED
            BY <1>1, <1>7, <1>15, <1>18, <3>1 DEF CallEnds
    <2>2. clock' = clock + 0
        BY <1>5, <1>18 DEF CallEnds
    <2> QED
        BY <1>15, <1>16, <1>18, <2>1, <2>2 DEF CallEnds, InCall, answer
<1>19. CASE Expire
    <2>1. Last'.elapsed = Last.elapsed + 0
        <3>1. Last'.elapsed = Last.elapsed
            BY <1>15, <1>19, CallExpires, CallChanged DEF Expire, JudgeTypeOK
        <3> QED
            BY <1>1, <1>7, <1>15, <1>19, <3>1 DEF Expire
    <2>2. clock' = clock + 0
        BY <1>5, <1>19 DEF Expire
    <2> QED
        BY <1>15, <1>16, <1>19, <2>1, <2>2 DEF Expire, InCall, answer
\* An attempt is over: what it took fits the time of one model.
<1>20. ASSUME InCall
       PROVE  /\ clock <= n * Span + Span /\ clock <= n * Span + (attempt - 1) * Lap + MaxLatency
              /\ (attempt - 1) * Lap \in Nat
    <2>1. InHand = (attempt - 1) * Lap + Last.elapsed
        BY <1>10, <1>20 DEF InHandCases
    <2>2. attempt \in 1..LlmMaxAttempts
        BY <1>6, <1>20 DEF Trying
    <2>3. (attempt - 1) * Lap \in Nat /\ (attempt - 1) * Lap + MaxLatency <= Span
        BY <1>1, <1>4, <2>2
    <2>4. Last.elapsed \in Nat /\ Last.elapsed <= MaxLatency
        BY <1>1, <1>7, <1>20
    <2>5. clock <= n * Span + ((attempt - 1) * Lap + Last.elapsed)
        BY <1>5, <2>1
    <2>6. \A k, l, s, c, m, e \in Nat : c <= k + (l + e) /\ e <= m /\ l + m <= s
                                         => c <= k + s /\ c <= k + l + m
        OBVIOUS
    <2>7. n * Span \in Nat /\ Span \in Nat /\ clock \in Nat /\ MaxLatency \in Nat
        BY <1>1, <1>4, <1>5
    <2> HIDE DEF Span, Lap
    <2> QED
        BY <2>3, <2>4, <2>5, <2>6, <2>7
<1>21. ASSUME NEW transient \in BOOLEAN, InCall, Fails(transient), clock' = clock
       PROVE  ClockInv'
    <2>1. /\ UNCHANGED <<attempt, source>> /\ source \notin Model
          /\ \/ judge_pc' = "sleep" /\ delay' \in 0..BackoffMax /\ failed' = failed
             \/ judge_pc' = "route" /\ failed' = failed \cup {model}
        BY <1>6, <1>21, FailsShape DEF answer, Trying
    <2>2. CASE judge_pc' = "sleep"
        <3>1. InHand' = (attempt - 1) * Lap + MaxLatency + BackoffMax - delay'
            BY <1>10, <2>1, <2>2 DEF InHandCases
        <3>2. clock' <= n * Span + InHand'
            BY <1>1, <1>4, <1>5, <1>20, <1>21, <2>1, <2>2, <3>1
        <3> QED
            BY <1>2, <2>1, <2>2, <3>2 DEF ClockInv, n
    <2>3. CASE judge_pc' = "route"
        <3>1. InHand' = 0
            BY <1>10, <2>1, <2>3 DEF InHandCases, Trying, InCall
        <3>2. Cardinality(failed') = n + 1
            BY <1>3, <1>6, <1>21, <2>1, <2>3, FS_AddElement DEF n, Trying
        <3>3. clock' <= Cardinality(failed') * Span + InHand'
            <4>1. Cardinality(failed') * Span = n * Span + Span
                BY <1>4, <3>2
            <4>2. clock' <= n * Span + Span
                BY <1>20, <1>21
            <4>3. n * Span + Span \in Nat
                BY <1>1, <1>4
            <4> QED
                BY <3>1, <4>1, <4>2, <4>3
        <3> QED
            BY <1>2, <2>1, <3>3 DEF ClockInv
    <2> QED
        BY <2>1, <2>2, <2>3
<1>22. CASE Receive
    <2>1. InCall /\ clock' = clock
        BY <1>22 DEF Receive, InCall
    <2>2. CASE Accepts
        <3>1. /\ judge_pc' = "merge" /\ failed' = failed /\ source' = Last.model /\ Last.model \in Model
              /\ ~Trying'
            BY <2>1, <2>2, CallsOf DEF Accepts, CallsInv, Trying, InCall
        <3>2. InHand' = Span
            BY <1>10, <3>1 DEF InHandCases
        <3>3. failed # {PrimaryFor, FallbackFor}
            BY <1>6, <2>1 DEF Trying
        <3>4. clock' <= Cardinality(failed') * Span + InHand'
            BY <1>20, <2>1, <3>1, <3>2 DEF n
        <3> QED
            BY <1>2, <3>1, <3>3, <3>4 DEF ClockInv
    <2>3. CASE Fails(Last.state = "transient")
        <3>1. PICK transient \in BOOLEAN : transient = (Last.state = "transient")
            OBVIOUS
        <3>2. Fails(transient)
            BY <2>3, <3>1, Zenon
        <3> QED
            BY <1>21, <2>1, <3>2
    <2> QED
        BY <1>22, <2>2, <2>3 DEF Receive
<1>23. CASE Join
    <2>1. PICK transient \in BOOLEAN : transient = TRUE
        OBVIOUS
    <2>2. Fails(transient)
        BY <1>23, <2>1, Zenon DEF Join
    <2> QED
        BY <1>21, <1>23, <2>2 DEF Join, InCall
<1>24. CASE WakeUp
    <2>1. /\ judge_pc = "sleep" /\ delay = 0 /\ attempt' = attempt + 1 /\ judge_pc' = "submit"
          /\ UNCHANGED <<failed, source, clock>>
        BY <1>24 DEF WakeUp, answer
    <2>2. attempt \in 1..LlmMaxAttempts
        BY <1>6, <2>1 DEF Trying
    <2>3. /\ InHand = (attempt - 1) * Lap + MaxLatency + BackoffMax - delay
          /\ InHand' = (attempt' - 1) * Lap
        BY <1>10, <2>1 DEF InHandCases
    <2>4. attempt' - 1 = attempt
        BY <2>1, <2>2
    <2>5. InHand' = InHand
        BY <1>1, <2>1, <2>2, <2>3, <2>4
    <2> QED
        BY <1>9, <2>1, <2>5
<1>25. CASE GiveUp
    BY <1>11, <1>25 DEF GiveUp, Trying, InCall, policy, answer
<1>26. CASE JudgeSynthetic
    <2>1. source \notin Model /\ source' \notin Model
        BY <1>6, <1>26 DEF JudgeSynthetic, JudgeAssumption
    <2> QED
        BY <1>11, <1>26, <2>1 DEF JudgeSynthetic, Trying, InCall, policy
<1>27. CASE Merge
    BY <1>11, <1>27 DEF Merge, Trying, InCall, policy
<1>28. CASE UNCHANGED judgeVars
    <2>1. InHand' = InHand
        BY <1>28 DEF judgeVars, policy, answer, InHand, InCall, Trying, Last
    <2> QED
        BY <1>9, <1>28, <2>1 DEF judgeVars, policy, answer
<1> QED
    BY <1>12, <1>13, <1>14, <1>17, <1>18, <1>19, <1>22, <1>23, <1>24, <1>25, <1>26, <1>27, <1>28
    DEF JudgeNext

\* The rubric and the checks are applied as they are.
LEMMA VerdictStep ==
    ASSUME JudgeAssumption, JudgeTypeOK, CallsInv, VerdictInv, [JudgeNext]_judgeVars
    PROVE  VerdictInv'
<1>1. script' = script /\ marker' = marker
    BY DEF JudgeNext, judgeVars, Begin, Route, Submit, TimePasses, CallEnds, Receive, Expire, Join,
       WakeUp, GiveUp, JudgeSynthetic, Merge, input
<1>2. CASE Receive /\ Accepts
    <2>1. source' \in Model /\ judge_pc' = "merge"
        BY <1>2, CallsOf DEF Receive, Accepts, CallsInv, InCall
    <2> QED
        BY <2>1 DEF VerdictInv, JudgeAssumption
<1>3. CASE JudgeSynthetic
    <2>1. judgment' = SyntheticJudge(script, marker, 0) /\ judge_pc' = "merge"
        BY <1>3 DEF JudgeSynthetic
    <2> QED
        BY <1>1, <2>1 DEF VerdictInv
<1>4. CASE Merge
    <2>1. /\ evaluation' = MergeEvaluation(judgment, DeterministicChecks(script))
          /\ UNCHANGED <<source, judgment>>
        BY <1>4 DEF Merge
    <2> QED
        BY <1>1, <2>1 DEF VerdictInv
<1>5. CASE UNCHANGED answer /\ (judge_pc' = "done" => judge_pc = "done")
    BY <1>1, <1>5 DEF VerdictInv, answer
<1> QED
    BY <1>2, <1>3, <1>4, <1>5 DEF JudgeNext, judgeVars, Begin, Route, Submit, TimePasses, CallEnds, Receive,
       Fails, GiveUpModel, Expire, Join, WakeUp, GiveUp, NoneLeft

\* A judgment starts in the invariant.
LEMMA JudgeInitHolds ==
    ASSUME JudgeAssumption, JudgeInit
    PROVE  JudgeIInv
<1>1. JudgeTypeOK
    <2>1. NoVerdict \in ScriptEvaluation
        BY DEF NoVerdict, ScriptEvaluation
    <2>2. 0 \in 0..LlmMaxAttempts /\ 0 \in 0..BackoffMax
        BY DEF JudgeAssumption
    <2>3. calls \in Seq(Call)
        BY DEF JudgeInit
    <2> QED
        BY <2>1, <2>2, <2>3 DEF JudgeInit, JudgeTypeOK
<1>2. calls = <<>> /\ DOMAIN calls = {} /\ judge_pc = "start" /\ source = Empty /\ failed = {}
      /\ clock = 0
    BY DEF JudgeInit
<1>3. CallsInv
    BY <1>2 DEF CallsInv, InCall
<1>4. SourceInv
    BY <1>2 DEF SourceInv, JudgeAssumption
<1>5. TriesInv /\ GivenUpFairly
    BY <1>2 DEF TriesInv, GivenUpFairly, Trying, InCall
<1>6. ClockInv
    <2>1. ~Trying /\ source \notin Model
        BY <1>2 DEF Trying, InCall, JudgeAssumption
    <2>2. InHand = 0
        BY <2>1, InHandOf DEF InHandCases
    <2>3. Cardinality(failed) = 0 /\ 0 * Span = 0
        BY <1>2, FS_EmptySet, SpanShape
    <2> QED
        BY <1>2, <2>1, <2>2, <2>3 DEF ClockInv
<1>7. VerdictInv
    BY <1>2 DEF VerdictInv, JudgeAssumption
<1> QED
    BY <1>1, <1>3, <1>4, <1>5, <1>6, <1>7 DEF JudgeIInv

\* The budget holds whoever has answered and however many models have failed.
LEMMA WithinBudget ==
    ASSUME JudgeAssumption, JudgeIInv
    PROVE  JudgingIsBounded
<1> DEFINE n == Cardinality(failed)
           all == Cardinality({PrimaryFor, FallbackFor})
<1>1. /\ Lap \in Nat /\ Span \in Nat /\ MaxLatency \in Nat /\ BackoffMax \in Nat
      /\ Lap = MaxLatency + BackoffMax
      /\ \A a \in 1..LlmMaxAttempts :
            /\ (a - 1) * Lap \in Nat
            /\ (a - 1) * Lap + MaxLatency <= Span
            /\ a < LlmMaxAttempts => (a - 1) * Lap + Lap <= Span
    BY SpanShape
<1>2. /\ n \in Nat /\ all \in Nat /\ n <= all
      /\ failed # {PrimaryFor, FallbackFor} => n + 1 <= all
    BY FailedCount DEF JudgeIInv, TriesInv
<1>3. clock \in Nat /\ clock <= n * Span + InHand
    BY DEF JudgeIInv, JudgeTypeOK, ClockInv
<1>4. Budget = all * Span
    BY DEF Budget, Span
<1> HIDE DEF n, all
<1>5. n * Span \in Nat /\ all * Span \in Nat /\ n * Span <= all * Span
    BY <1>1, <1>2, TimesNat, TimesMonotone
<1>6. ASSUME failed # {PrimaryFor, FallbackFor}, InHand <= Span, InHand \in Int
      PROVE  clock <= all * Span
    <2>1. (n + 1) * Span <= all * Span /\ (n + 1) * Span = n * Span + Span
        BY <1>1, <1>2, <1>6, TimesMonotone
    <2>2. \A k, l, c, s \in Nat : \A h \in Int : c <= k + h /\ h <= s /\ k + s <= l => c <= l
        OBVIOUS
    <2> QED
        BY <1>1, <1>3, <1>5, <1>6, <2>1, <2>2
<1>7. CASE ~Trying /\ source \notin Model
    <2>1. InHand = 0
        BY <1>7, InHandOf DEF InHandCases
    <2>2. clock <= all * Span
        BY <1>3, <1>5, <2>1
    <2> QED
        BY <1>4, <2>2 DEF JudgingIsBounded
<1>8. CASE ~Trying /\ source \in Model
    <2>1. InHand = Span /\ failed # {PrimaryFor, FallbackFor}
        BY <1>8, InHandOf DEF InHandCases, JudgeIInv, ClockInv
    <2> QED
        BY <1>1, <1>4, <1>6, <2>1 DEF JudgingIsBounded
<1>9. CASE Trying
    <2>1. /\ failed # {PrimaryFor, FallbackFor} /\ attempt \in 1..LlmMaxAttempts
          /\ judge_pc = "sleep" => attempt < LlmMaxAttempts
        BY <1>9 DEF JudgeIInv, TriesInv
    <2>2. (attempt - 1) * Lap \in Nat /\ (attempt - 1) * Lap + MaxLatency <= Span
        BY <1>1, <2>1
    <2>3. CASE judge_pc = "submit"
        <3>1. InHand = (attempt - 1) * Lap
            BY <2>3, InHandOf DEF InHandCases
        <3> QED
            BY <1>1, <1>4, <1>6, <2>1, <2>2, <3>1 DEF JudgingIsBounded
    <2>4. CASE InCall
        <3>1. InHand = (attempt - 1) * Lap + Last.elapsed
            BY <2>4, InHandOf DEF InHandCases
        <3>2. Last.elapsed \in 0..MaxLatency
            BY <2>4, CallsOf DEF JudgeIInv, CallsInv, Call
        <3>3. InHand \in Int /\ InHand <= Span
            BY <1>1, <2>2, <3>1, <3>2
        <3> QED
            BY <1>4, <1>6, <2>1, <3>3 DEF JudgingIsBounded
    <2>5. CASE judge_pc = "sleep"
        <3>1. InHand = (attempt - 1) * Lap + MaxLatency + BackoffMax - delay
            BY <2>5, InHandOf DEF InHandCases
        <3>2. delay \in Nat
            BY <1>1 DEF JudgeIInv, JudgeTypeOK
        <3>3. (attempt - 1) * Lap + Lap <= Span
            BY <1>1, <2>1, <2>5
        <3>4. InHand \in Int /\ InHand <= Span
            BY <1>1, <2>2, <3>1, <3>2, <3>3
        <3> QED
            BY <1>4, <1>6, <2>1, <3>4 DEF JudgingIsBounded
    <2> QED
        BY <1>9, <2>3, <2>4, <2>5 DEF Trying
<1> QED
    BY <1>7, <1>8, <1>9

\* The invariant gives what is claimed of a judgment.
LEMMA JudgeShows ==
    ASSUME JudgeAssumption, JudgeIInv
    PROVE  JudgeInv
<1>1. JudgeTypeOK /\ GivenUpFairly
    BY DEF JudgeIInv
<1>2. OneCallInFlight
    <2> DEFINE R == {i \in DOMAIN calls : calls[i].state = "running"}
    <2>1. \A i, j \in R : i = j
        BY DEF JudgeIInv, CallsInv
    <2>2. CASE R = {}
        BY <2>2, FS_EmptySet DEF OneCallInFlight
    <2>3. CASE \E i : R = {i}
        <3>1. Cardinality(R) = 1
            BY <2>3, FS_Singleton
        <3> QED
            BY <3>1 DEF OneCallInFlight
    <2> QED
        BY <2>1, <2>2, <2>3
<1>3. AnswerIsTheLastCall
    BY DEF JudgeIInv, SourceInv, CallsInv, AnswerIsTheLastCall
<1>4. LastResort
    <2>1. source = "synthetic" => judge_pc # "raised"
        BY DEF JudgeIInv, SourceInv, JudgeAssumption
    <2>2. settings.live_fallback \in BOOLEAN
        BY DEF JudgeIInv, JudgeTypeOK, JudgeAssumption, Settings
    <2> QED
        BY <2>1, <2>2 DEF JudgeIInv, SourceInv, LastResort
<1>5. JudgingIsBounded
    BY WithinBudget
<1> DEFINE f == DeterministicChecks(script)
<1>6. /\ judgment \in ScriptEvaluation
      /\ judge_pc = "done" => evaluation = MergeEvaluation(judgment, f)
    BY DEF JudgeIInv, VerdictInv, JudgeTypeOK
<1>7. ChecksAlwaysWin
    BY <1>6, ChecksMerged DEF ChecksAlwaysWin
<1>8. RubricIsUsable
    <2>1. SUFFICES ASSUME judge_pc = "done", source = "synthetic"
                   PROVE  IF evaluation.approved THEN evaluation.overall >= 70
                          ELSE evaluation.issues
        BY DEF RubricIsUsable
    <2>2. script \in ShortScript /\ marker \in Marker
        BY DEF JudgeIInv, JudgeTypeOK, JudgeAssumption
    <2>3. judgment = SyntheticJudge(script, marker, 0)
        BY <2>1 DEF JudgeIInv, VerdictInv
    <2>4. PICK o \in Nat, d \in Nat, a \in BOOLEAN :
            judgment = Verdict(o, d, a) /\ (a => o >= 70)
        BY <2>2, <2>3, RubricVerdict
    <2>5. /\ judgment.overall = o /\ (judgment.approved <=> a) /\ (judgment.issues <=> ~a)
        BY <2>4, VerdictShape
    <2>6. /\ evaluation.overall = judgment.overall
          /\ evaluation.approved <=> judgment.approved /\ f = {}
          /\ evaluation.issues <=> judgment.issues \/ f # {}
        BY <1>6, <2>1, ChecksMerged
    <2> QED
        BY <2>4, <2>5, <2>6
<1> QED
    BY <1>1, <1>2, <1>3, <1>4, <1>5, <1>7, <1>8 DEF JudgeInv

\* JudgeInv for any models, settings, attempts, timeouts and delays: however
\* many calls fail or come late, there is one at a time, only the last one
\* counts, no model is given up too early or too late, all of it stays within
\* the budget (failures.py), and the verdict is one the checks back (judge.py).
THEOREM JudgeHolds == JudgeAssumption => (JudgeSpec => []JudgeInv)
<1>1. SUFFICES ASSUME JudgeAssumption PROVE JudgeSpec => []JudgeInv
    OBVIOUS
<1>2. JudgeInit => JudgeIInv
    BY <1>1, JudgeInitHolds
<1>3. JudgeIInv /\ [JudgeNext]_judgeVars => JudgeIInv'
    <2>1. SUFFICES ASSUME JudgeIInv, [JudgeNext]_judgeVars PROVE JudgeIInv'
        OBVIOUS
    <2>2. JudgeTypeOK /\ CallsInv /\ SourceInv /\ TriesInv /\ GivenUpFairly /\ ClockInv /\ VerdictInv
        BY <2>1 DEF JudgeIInv
    <2>3. JudgeTypeOK' /\ CallsInv' /\ SourceInv'
        BY <1>1, <2>1, <2>2, JudgeTypeStep, CallsStep, SourceStep
    <2>4. TriesInv' /\ GivenUpFairly' /\ VerdictInv'
        BY <1>1, <2>1, <2>2, <2>3, TriesStep, GivenUpStep, VerdictStep
    <2>5. ClockInv'
        BY <1>1, <2>1, <2>2, <2>3, <2>4, ClockStep
    <2> QED
        BY <2>3, <2>4, <2>5 DEF JudgeIInv
<1>4. JudgeIInv => JudgeInv
    BY <1>1, JudgeShows
<1> QED
    BY <1>2, <1>3, <1>4, PTL DEF JudgeSpec
=============================================================================
