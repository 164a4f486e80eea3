-------------------------- MODULE FrontDoorProofs --------------------------
(***************************************************************************)
(* Proofs about what a request passes before it is a job.  RateLimiter:    *)
(* the limit holds, up to the delay of a thread, for every number of       *)
(* threads, limit and window.  Intake: for any set of clients, keys and    *)
(* requests, and however often the API process restarts, it keeps the      *)
(* promise of KeyedIntake.                                                 *)
(***************************************************************************)
EXTENDS Intake, RateLimiter, TLAPS

-----------------------------------------------------------------------------
(***************************************************************************)
(* The rate limiter.                                                       *)
(***************************************************************************)

\* The times of a grant are times.
LEMMA GrantTimes ==
    ASSUME RateTypeOK, NEW i \in 1..Len(grants)
    PROVE  grants[i].arrived \in Nat /\ grants[i].at \in Nat
<1>1. grants[i] \in Grant
    BY DEF RateTypeOK
<1>. QED BY <1>1 DEF Grant

\* What an eviction gives, in numbers.
LEMMA EvictsFacts ==
    ASSUME RateInv, NEW t \in Thread, arrival[t] # Nobody,
           NEW h, Evicts(h, arrival[t])
    PROVE  /\ h \in 1..(Len(grants) + 1)
           /\ Len(grants) \in Nat
           /\ arrival[t] \in Nat /\ arrival[t] <= clock /\ clock <= arrival[t] + MaxDelay
           /\ \A i \in 1..(h - 1) : grants[i].arrived < clock - Window
           /\ Len(grants) - h + 1 <= Limit
           /\ h <= Len(grants) => grants[h].arrived >= arrival[t] - Window
<1>1. /\ Len(grants) \in Nat /\ head \in 1..(Len(grants) + 1) /\ clock \in Nat
      /\ arrival[t] \in Nat /\ Window \in Nat /\ Limit \in Nat
    BY RateAssumption DEF RateInv, RateTypeOK
<1>2. arrival[t] <= clock /\ clock <= arrival[t] + MaxDelay
    BY DEF RateInv, WaitingInv
<1>3. h \in head..(Len(grants) + 1) /\ h \in 1..(Len(grants) + 1)
    BY <1>1 DEF Evicts
<1>4. \A i \in 1..Len(grants) : grants[i].arrived \in Nat
    BY GrantTimes DEF RateInv
<1>5. ASSUME NEW i \in 1..(h - 1) PROVE grants[i].arrived < clock - Window
    <2>1. CASE i \in 1..(head - 1)
        BY <2>1 DEF RateInv, EvictedInv
    <2>2. CASE i \in head..(h - 1)
        <3>1. grants[i].arrived < arrival[t] - Window
            BY <2>2 DEF Evicts, Expired
        <3>2. grants[i].arrived \in Nat
            BY <1>1, <1>3, <1>4
        <3>. QED BY <3>1, <3>2, <1>1, <1>2
    <2>. QED BY <2>1, <2>2, <1>1, <1>3
<1>6. Len(grants) - h + 1 <= Limit
    BY <1>1, <1>3 DEF RateInv, DequeInv
<1>7. h <= Len(grants) => grants[h].arrived >= arrival[t] - Window
    BY <1>1, <1>3, <1>4 DEF Evicts, Expired
<1>. QED BY <1>1, <1>2, <1>3, <1>5, <1>6, <1>7

\* A grant appended: the invariant of the times, the distance of Limit grants.
LEMMA AllowStep ==
    ASSUME RateInv, NEW t \in Thread, Allow(t)
    PROVE  RateInv'
<1>1. PICK h \in head..(Len(grants) + 1) :
          Evicts(h, arrival[t]) /\ ~Full(h) /\ head' = h
    BY DEF Allow
<1> DEFINE g == [arrived |-> arrival[t], at |-> clock]
           n == Len(grants)
<1>2. /\ arrival[t] # Nobody /\ grants' = Append(grants, g)
      /\ arrival' = [arrival EXCEPT ![t] = Nobody]
      /\ clock' = clock /\ refusal' = refusal
    BY DEF Allow
<1>3. /\ h \in 1..(n + 1) /\ n \in Nat
      /\ arrival[t] \in Nat /\ arrival[t] <= clock /\ clock <= arrival[t] + MaxDelay
      /\ \A i \in 1..(h - 1) : grants[i].arrived < clock - Window
    BY <1>1, <1>2, EvictsFacts
<1>4. /\ clock \in Nat /\ Window \in Nat /\ Limit \in Nat \ {0} /\ MaxDelay \in Nat
      /\ grants \in Seq(Grant) /\ clock \in 0..MaxClock
    BY RateAssumption DEF RateInv, RateTypeOK
<1>5. g \in Grant
    BY <1>3, <1>4 DEF Grant
<1>6. /\ Len(grants') = n + 1 /\ grants' \in Seq(Grant)
      /\ \A i \in 1..n : grants'[i] = grants[i]
      /\ grants'[n + 1] = g
    BY <1>2, <1>3, <1>4, <1>5
<1>7. \A i \in 1..n : grants[i] \in Grant
    BY <1>4
<1>8. /\ \A i \in 1..n : grants[i].arrived <= grants[i].at
                          /\ grants[i].at <= grants[i].arrived + MaxDelay
                          /\ grants[i].at <= clock
      /\ \A i, j \in 1..n : i <= j => grants[i].at <= grants[j].at
      /\ \A i \in 1..n : grants[i].arrived \in Nat /\ grants[i].at \in Nat
    BY <1>7 DEF RateInv, TimesInv, Grant
<1>9. RateTypeOK'
    <2>1. arrival' \in [Thread -> Nat \cup {Nobody}]
        BY <1>2 DEF RateInv, RateTypeOK
    <2>2. head' \in 1..(Len(grants') + 1)
        BY <1>1, <1>3, <1>6
    <2>. QED BY <2>1, <2>2, <1>2, <1>4, <1>6 DEF RateInv, RateTypeOK
<1>10. TimesInv'
    <2>1. ASSUME NEW i \in 1..(n + 1)
          PROVE  /\ grants'[i].arrived <= grants'[i].at
                 /\ grants'[i].at <= grants'[i].arrived + MaxDelay
                 /\ grants'[i].at <= clock
        <3>1. CASE i \in 1..n
            BY <3>1, <1>6, <1>8
        <3>2. CASE i = n + 1
            BY <3>2, <1>3, <1>4, <1>6
        <3>. QED BY <3>1, <3>2, <1>3
    <2>2. ASSUME NEW i \in 1..(n + 1), NEW j \in 1..(n + 1), i <= j
          PROVE  grants'[i].at <= grants'[j].at
        <3>1. CASE j \in 1..n
            <4>1. i \in 1..n
                BY <3>1, <2>2, <1>3
            <4>. QED BY <4>1, <3>1, <2>2, <1>6, <1>8
        <3>2. CASE j = n + 1
            <4>1. grants'[j].at = clock
                BY <3>2, <1>6
            <4>. QED BY <4>1, <2>1
        <3>. QED BY <3>1, <3>2, <1>3
    <2>. QED BY <2>1, <2>2, <1>2, <1>6 DEF TimesInv
<1>11. WaitingInv'
    BY <1>2 DEF RateInv, WaitingInv, RateTypeOK
<1>12. EvictedInv'
    <2>1. ASSUME NEW i \in 1..(h - 1) PROVE grants'[i].arrived < clock - Window
        <3>1. i \in 1..n
            BY <1>3
        <3>. QED BY <3>1, <1>3, <1>6
    <2>. QED BY <2>1, <1>1, <1>2 DEF EvictedInv
<1>13. DequeInv'
    BY <1>1, <1>3, <1>4, <1>6 DEF DequeInv, Full
<1>14. LimitWithDelay'
    <2>1. ASSUME NEW i \in 1..(n + 1), i + Limit <= n + 1
          PROVE  grants'[i + Limit].at - grants'[i].at > Window - MaxDelay
        <3>1. i \in 1..n
            BY <2>1, <1>3, <1>4
        <3>2. CASE i + Limit <= n
            <4>1. i + Limit \in 1..n
                BY <3>1, <3>2, <1>3, <1>4
            <4>2. grants[i + Limit].at - grants[i].at > Window - MaxDelay
                BY <3>1, <3>2 DEF RateInv, LimitWithDelay, AtMostLimitIn
            <4>. QED BY <4>1, <4>2, <3>1, <1>6
        <3>3. CASE i + Limit = n + 1
            <4>1. i \in 1..(h - 1)
                BY <3>1, <3>3, <1>1, <1>3, <1>4 DEF Full
            <4>2. grants[i].arrived < clock - Window
                BY <4>1, <1>3
            <4>3. grants[i].at <= grants[i].arrived + MaxDelay
                BY <3>1, <1>8
            <4>4. grants'[i + Limit].at = clock /\ grants'[i].at = grants[i].at
                BY <3>1, <3>3, <1>6
            <4>5. grants[i].arrived \in Nat /\ grants[i].at \in Nat
                BY <3>1, <1>8
            <4>6. \A a, b, c, w, d \in Int : a < c - w /\ b <= a + d => c - b > w - d
                OBVIOUS
            <4>7. clock - grants[i].at > Window - MaxDelay
                <5>1. /\ clock \in Int /\ Window \in Int /\ MaxDelay \in Int
                      /\ grants[i].arrived \in Int /\ grants[i].at \in Int
                    BY <1>4, <4>5
                <5>. QED BY <4>2, <4>3, <4>6, <5>1
            <4>. QED BY <4>4, <4>7
        <3>4. i + Limit <= n \/ i + Limit = n + 1
            BY <2>1, <3>1, <1>3, <1>4
        <3>. QED BY <3>2, <3>3, <3>4
    <2>. QED BY <2>1, <1>6 DEF LimitWithDelay, AtMostLimitIn
<1>. QED BY <1>9, <1>10, <1>11, <1>12, <1>13, <1>14 DEF RateInv

\* A refusal evicts, and leaves a note of what it said.
LEMMA DenyStep ==
    ASSUME RateInv, NEW t \in Thread, Deny(t)
    PROVE  RateInv'
<1>1. PICK h \in head..(Len(grants) + 1) :
          /\ Evicts(h, arrival[t]) /\ Full(h) /\ head' = h
          /\ refusal' = [refusal EXCEPT ![t] =
                [until |-> clock + Second * RetryAfter(h, arrival[t]), size |-> Len(grants)]]
    BY DEF Deny
<1>2. /\ arrival[t] # Nobody /\ grants' = grants /\ clock' = clock
      /\ arrival' = [arrival EXCEPT ![t] = Nobody]
    BY DEF Deny
<1>3. /\ h \in 1..(Len(grants) + 1) /\ Len(grants) \in Nat
      /\ \A i \in 1..(h - 1) : grants[i].arrived < clock - Window
      /\ Len(grants) - h + 1 <= Limit
    BY <1>1, <1>2, EvictsFacts
<1>4. RateTypeOK'
    <2>1. RetryAfter(h, arrival[t]) \in Nat
        <3>1. h \in 1..Len(grants)
            BY <1>1, <1>3, RateAssumption DEF Full
        <3>2. grants[h].arrived \in Nat
            BY <3>1, GrantTimes DEF RateInv
        <3>3. arrival[t] \in Nat /\ Window \in Nat /\ Second \in Nat \ {0}
            BY <1>2, RateAssumption DEF RateInv, RateTypeOK
        <3>4. (Window - (arrival[t] - grants[h].arrived)) \div Second \in Int
            BY <3>2, <3>3
        <3>. QED BY <3>4 DEF RetryAfter
    <2>2. clock + Second * RetryAfter(h, arrival[t]) \in Nat
        <3>1. \A m, n \in Nat : m * n \in Nat
            OBVIOUS
        <3>2. Second * RetryAfter(h, arrival[t]) \in Nat
            BY <2>1, <3>1, RateAssumption
        <3>3. clock \in Nat
            BY RateAssumption DEF RateInv, RateTypeOK
        <3>. HIDE DEF RetryAfter
        <3>. QED BY <3>2, <3>3
    <2>3. refusal' \in [Thread -> [until : Nat \cup {Nobody}, size : Nat]]
        BY <2>2, <1>1, <1>3 DEF RateInv, RateTypeOK
    <2>4. arrival' \in [Thread -> Nat \cup {Nobody}]
        BY <1>2 DEF RateInv, RateTypeOK
    <2>. QED BY <2>3, <2>4, <1>1, <1>2, <1>3 DEF RateInv, RateTypeOK
<1>5. TimesInv' /\ LimitWithDelay'
    BY <1>2 DEF RateInv, TimesInv, LimitWithDelay, AtMostLimitIn
<1>6. WaitingInv'
    BY <1>2 DEF RateInv, WaitingInv, RateTypeOK
<1>7. EvictedInv' /\ DequeInv'
    BY <1>1, <1>2, <1>3 DEF EvictedInv, DequeInv
<1>. QED BY <1>4, <1>5, <1>6, <1>7 DEF RateInv

LEMMA RateInvInit == RateInit => RateInv
<1>. SUFFICES ASSUME RateInit PROVE RateInv
    OBVIOUS
<1>1. RateTypeOK
    BY RateAssumption DEF RateInit, RateTypeOK, Grant, NoRefusal, Nobody
<1>2. TimesInv /\ WaitingInv /\ LimitWithDelay
    BY DEF RateInit, TimesInv, WaitingInv, LimitWithDelay, AtMostLimitIn
<1>3. EvictedInv /\ DequeInv
    BY RateAssumption DEF RateInit, EvictedInv, DequeInv
<1>. QED BY <1>1, <1>2, <1>3 DEF RateInv

LEMMA RateStep == RateInv /\ [RateNext]_rateVars => RateInv'
<1>. SUFFICES ASSUME RateInv, [RateNext]_rateVars PROVE RateInv'
    OBVIOUS
<1>1. CASE Tick
    <2>1. clock' = clock + 1 /\ clock < MaxClock /\ clock \in Nat
        BY <1>1 DEF Tick, RateInv, RateTypeOK
    <2>2. UNCHANGED <<grants, head, arrival, refusal>>
        BY <1>1 DEF Tick
    <2>3. RateTypeOK'
        <3>1. clock' \in 0..MaxClock
            BY <2>1, RateAssumption
        <3>. QED BY <2>2, <3>1 DEF RateInv, RateTypeOK
    <2>4. \A i \in 1..Len(grants) : grants[i].arrived \in Nat /\ grants[i].at \in Nat
        BY GrantTimes DEF RateInv
    <2>5. TimesInv'
        BY <2>1, <2>2, <2>4 DEF RateInv, TimesInv
    <2>6. WaitingInv'
        <3>. SUFFICES ASSUME NEW t \in Thread, arrival[t] # Nobody
                      PROVE  arrival[t] <= clock + 1 /\ clock + 1 <= arrival[t] + MaxDelay
            BY <2>1, <2>2 DEF WaitingInv
        <3>1. arrival[t] \in Nat /\ MaxDelay \in Nat
            BY RateAssumption DEF RateInv, RateTypeOK
        <3>2. clock < arrival[t] + MaxDelay
            BY <1>1 DEF Tick
        <3>3. arrival[t] <= clock
            BY DEF RateInv, WaitingInv
        <3>. QED BY <3>1, <3>2, <3>3, <2>1
    <2>7. EvictedInv'
        <3>. SUFFICES ASSUME NEW i \in 1..(head - 1)
                      PROVE  grants[i].arrived < clock' - Window
            BY <2>2 DEF EvictedInv
        <3>1. grants[i].arrived < clock - Window
            BY DEF RateInv, EvictedInv
        <3>2. i \in 1..Len(grants)
            BY DEF RateInv, RateTypeOK
        <3>. QED BY <3>1, <3>2, <2>1, <2>4, RateAssumption
    <2>8. DequeInv' /\ LimitWithDelay'
        BY <2>2 DEF RateInv, DequeInv, LimitWithDelay, AtMostLimitIn
    <2>. QED BY <2>3, <2>5, <2>6, <2>7, <2>8 DEF RateInv
<1>2. ASSUME NEW t \in Thread, Arrive(t) PROVE RateInv'
    <2>1. /\ arrival' = [arrival EXCEPT ![t] = clock]
          /\ UNCHANGED <<clock, grants, head, refusal>>
        BY <1>2 DEF Arrive
    <2>2. RateTypeOK'
        BY <2>1 DEF RateInv, RateTypeOK
    <2>3. WaitingInv'
        BY <2>1, RateAssumption DEF RateInv, WaitingInv, RateTypeOK
    <2>4. TimesInv' /\ EvictedInv' /\ DequeInv' /\ LimitWithDelay'
        BY <2>1 DEF RateInv, TimesInv, EvictedInv, DequeInv, LimitWithDelay, AtMostLimitIn
    <2>. QED BY <2>2, <2>3, <2>4 DEF RateInv
<1>3. CASE UNCHANGED rateVars
    BY <1>3 DEF rateVars, RateInv, RateTypeOK, TimesInv, WaitingInv, EvictedInv, DequeInv,
                LimitWithDelay, AtMostLimitIn
<1>. QED BY <1>1, <1>2, <1>3, AllowStep, DenyStep DEF RateNext

\* The inductive invariant holds in every reachable state: eviction, deque and
\* times of every number of request threads.
THEOREM RateInvariant == RateSpec => []RateInv
BY RateInvInit, RateStep, PTL DEF RateSpec

\* In every window shorter by the delay of a thread at most Limit requests of a
\* key pass POST /shorts, for every limit, window and number of threads.
THEOREM LimitHolds == RateSpec => []LimitWithDelay
<1>1. RateInv => LimitWithDelay
    BY DEF RateInv
<1>. QED BY <1>1, RateInvariant, PTL

\* A refused request has Limit grants in the window before it to blame.
THEOREM RefusalsAreEarned == RateSpec => RefusedForGrants
<1>1. ASSUME RateInv, NEW t \in Thread, Deny(t)
      PROVE  /\ Len(grants) >= Limit
             /\ grants[Len(grants) - Limit + 1].at >= arrival[t] - Window
    <2>1. PICK h \in head..(Len(grants) + 1) : Evicts(h, arrival[t]) /\ Full(h)
        BY <1>1 DEF Deny
    <2>2. arrival[t] # Nobody
        BY <1>1 DEF Deny
    <2>3. /\ h \in 1..(Len(grants) + 1) /\ Len(grants) \in Nat /\ arrival[t] \in Nat
          /\ Len(grants) - h + 1 <= Limit
          /\ h <= Len(grants) => grants[h].arrived >= arrival[t] - Window
        BY <1>1, <2>1, <2>2, EvictsFacts
    <2>4. Limit \in Nat \ {0} /\ Window \in Nat
        BY RateAssumption
    <2>5. h = Len(grants) - Limit + 1 /\ h \in 1..Len(grants)
        BY <2>1, <2>3, <2>4 DEF Full
    <2>6. grants[h].arrived <= grants[h].at
        BY <1>1, <2>5 DEF RateInv, TimesInv
    <2>7. grants[h].arrived \in Nat /\ grants[h].at \in Nat
        BY <1>1, <2>5, GrantTimes DEF RateInv
    <2>8. Len(grants) >= Limit /\ h = Len(grants) - Limit + 1 /\ h <= Len(grants)
        BY <2>3, <2>4, <2>5
    <2>9. ASSUME NEW arrived \in Nat, NEW at \in Nat, arrived <= at,
                 arrived >= arrival[t] - Window
          PROVE  at >= arrival[t] - Window
        BY <2>3, <2>4, <2>9
    <2>10. grants[h].at >= arrival[t] - Window
        BY <2>3, <2>6, <2>7, <2>8, <2>9
    <2>. QED BY <2>8, <2>10
<1>2. RateInv /\ [RateNext]_rateVars => [\A t \in Thread : Deny(t) =>
          /\ Len(grants) >= Limit
          /\ grants[Len(grants) - Limit + 1].at >= arrival[t] - Window]_rateVars
    BY <1>1
<1>. QED BY <1>2, RateInvariant, PTL DEF RateSpec, RefusedForGrants

-----------------------------------------------------------------------------
(***************************************************************************)
(* The intake.                                                             *)
(***************************************************************************)

USE IntakeAssumption

LEMMA IntakeInit == Init => IntakeInv
<1>1. SUFFICES ASSUME Init PROVE IntakeInv
      OBVIOUS
<1>2. NoAnswer \in [code : Code, workflow : Request \cup {Nothing}]
      BY DEF NoAnswer, Code
<1>3. TypeOK
      <2>1. 0 \in 0..MaxCrashes
            OBVIOUS
      <2>2. QED
            BY <1>1, <1>2, <2>1 DEF Init, TypeOK
<1>4. \A r \in Request : pc[r] = "unsent" /\ answer[r] = NoAnswer
      BY <1>1 DEF Init
<1>5. jobs = {} /\ workflows = {}
      BY <1>1 DEF Init
<1>6. QED
      BY <1>3, <1>4, <1>5 DEF IntakeInv, AcceptedWhole, InServer

\* What a request leaves to do for the invariant of the others: its own row of
\* pc and answer.
LEMMA AnswersKeeps ==
    ASSUME IntakeInv, NEW r \in Request, pc[r] \in InServer \ {"committed"},
           NEW code \in Code, NEW w \in Request \cup {Nothing},
           Answers(r, code, w), UNCHANGED <<workflows, jobs>>
    PROVE  IntakeInv'
<1>1. /\ pc' = [pc EXCEPT ![r] = "answered"]
      /\ answer' = [answer EXCEPT ![r] = [code |-> code, workflow |-> w]]
      /\ UNCHANGED <<draining, crashes, client, key, workflows, jobs>>
      BY DEF Answers, Goes
<1>2. TypeOK'
      BY <1>1 DEF IntakeInv, TypeOK
<1>3. \A q \in Request : q # r => pc'[q] = pc[q] /\ answer'[q] = answer[q]
      BY <1>1 DEF IntakeInv, TypeOK
<1>4. pc'[r] = "answered"
      BY <1>1 DEF IntakeInv, TypeOK
<1>5. \A q, s \in Request : SameKey(q, s)' = SameKey(q, s)
      BY <1>1 DEF SameKey
<1>6. QED
      BY <1>1, <1>2, <1>3, <1>4, <1>5
      DEF IntakeInv, TypeOK, AcceptedWhole, InServer, Taken, Waits

\* The server goes on with a request, and nothing else changes.
LEMMA GoesKeeps ==
    ASSUME IntakeInv, NEW r \in Request, pc[r] \in {"unsent", "arrived", "missed", "created"},
           NEW to \in {"arrived", "missed", "created", "inserted"}, Goes(r, to),
           to = "inserted" => ~Taken(r) /\ ~Waits(r),
           UNCHANGED <<draining, crashes, client, key, workflows, jobs, answer>>
    PROVE  IntakeInv'
<1>1. pc' = [pc EXCEPT ![r] = to]
      BY DEF Goes
<1>2. TypeOK'
      BY <1>1 DEF IntakeInv, TypeOK, InServer
<1>3. pc'[r] = to /\ \A q \in Request : q # r => pc'[q] = pc[q]
      BY <1>1 DEF IntakeInv, TypeOK
<1>4. \A q, s \in Request : SameKey(q, s)' = SameKey(q, s)
      BY DEF SameKey
<1>5. \A q \in Request : pc'[q] = "inserted" => ~Taken(q)' /\ ~Waits(q)'
      <2>1. ASSUME NEW q \in Request, pc'[q] = "inserted"
            PROVE  ~Taken(q)' /\ ~Waits(q)'
            <3>1. CASE q = r
                  BY <2>1, <3>1, <1>3 DEF IntakeInv, TypeOK, Taken, Waits, SameKey
            <3>2. CASE q # r
                  <4>1. ~Taken(q) /\ ~Waits(q) /\ pc[q] = "inserted"
                        BY <2>1, <3>2, <1>3 DEF IntakeInv
                  <4>2. to = "inserted" => ~SameKey(r, q)
                        BY <3>2, <4>1 DEF Waits, SameKey
                  <4>3. QED
                        BY <4>1, <4>2, <1>3, <1>4 DEF IntakeInv, TypeOK, Taken, Waits, SameKey
            <3>3. QED
                  BY <3>1, <3>2
      <2>2. QED
            BY <2>1
<1>6. r \notin jobs /\ answer[r] = NoAnswer
      BY DEF IntakeInv, InServer
<1>7. QED
      BY <1>2, <1>3, <1>4, <1>5, <1>6 DEF IntakeInv, TypeOK, AcceptedWhole, InServer

\* The rows of a request become visible.
LEMMA RowsKeep ==
    ASSUME IntakeInv, NEW r \in Request, pc[r] = "inserted",
           workflows' = workflows \cup {r}, jobs' = jobs \cup {r},
           UNCHANGED <<draining, crashes, client, key>>,
           \/ Goes(r, "committed") /\ UNCHANGED answer
           \/ Answers(r, "error", Nothing)
    PROVE  IntakeInv'
<1>1. /\ pc'[r] \in {"committed", "answered"}
      /\ \A q \in Request : q # r => pc'[q] = pc[q] /\ answer'[q] = answer[q]
      BY DEF Goes, Answers, IntakeInv, TypeOK
<1>2. pc'[r] # "answered" => answer'[r] = NoAnswer
      BY DEF Goes, Answers, IntakeInv, TypeOK
<1>3. TypeOK'
      BY DEF Goes, Answers, IntakeInv, TypeOK, InServer, Code
<1>4. \A q, s \in Request : SameKey(q, s)' = SameKey(q, s)
      BY DEF SameKey
<1>5. \A q \in Request : pc[q] = "inserted" /\ q # r => ~SameKey(r, q)
      BY DEF IntakeInv, Waits, SameKey
<1>6. \A q \in Request : pc'[q] = "inserted" => ~Taken(q)' /\ ~Waits(q)'
      <2>1. ASSUME NEW q \in Request, pc'[q] = "inserted"
            PROVE  ~Taken(q)' /\ ~Waits(q)'
            <3>1. q # r /\ pc[q] = "inserted" /\ ~Taken(q) /\ ~Waits(q)
                  BY <1>1, <2>1 DEF IntakeInv
            <3>2. ~SameKey(r, q)
                  BY <3>1, <1>5
            <3>3. QED
                  BY <1>1, <3>1, <3>2 DEF Taken, Waits, SameKey
      <2>2. QED
            BY <2>1
<1>7. \A q \in jobs : ~SameKey(q, r) /\ ~SameKey(r, q)
      BY DEF IntakeInv, Taken, SameKey
<1>8. \A q, s \in jobs' : SameKey(q, s)' => q = s
      BY <1>4, <1>7 DEF IntakeInv, TypeOK
<1>9. workflows' = jobs'
      BY DEF IntakeInv, AcceptedWhole
<1>10. QED
      BY <1>1, <1>2, <1>3, <1>6, <1>8, <1>9 DEF IntakeInv, AcceptedWhole, InServer

\* A process that ends takes its open transactions with it.
LEMMA RestartKeeps ==
    ASSUME IntakeInv, Restart
    PROVE  IntakeInv'
<1>1. /\ pc' = [r \in Request |-> IF pc[r] \in InServer THEN "gone" ELSE pc[r]]
      /\ UNCHANGED <<client, key, workflows, jobs, answer>>
      BY DEF Restart
<1>2. TypeOK'
      <2>1. crashes' \in 0..MaxCrashes /\ draining' = FALSE
            BY SMT DEF Restart, IntakeInv, TypeOK
      <2>2. \A r \in Request : pc[r] \in InServer \cup {"unsent", "answered", "gone"}
            BY DEF IntakeInv, TypeOK
      <2>3. pc' \in [Request -> InServer \cup {"unsent", "answered", "gone"}]
            BY <1>1, <2>2
      <2>4. QED
            BY <1>1, <2>1, <2>3 DEF IntakeInv, TypeOK
<1>3. \A r \in Request :
          /\ pc'[r] \notin InServer
          /\ pc'[r] = "unsent" => pc[r] = "unsent"
          /\ pc'[r] = "answered" <=> pc[r] = "answered"
      BY <1>1 DEF InServer
<1>4. \A q, s \in Request : SameKey(q, s)' = SameKey(q, s)
      BY <1>1 DEF SameKey
<1>5. QED
      BY <1>1, <1>2, <1>3, <1>4 DEF IntakeInv, TypeOK, AcceptedWhole, InServer

\* IntakeInv is inductive.
LEMMA IntakeStep == IntakeInv /\ [Next]_vars => IntakeInv'
<1>1. SUFFICES ASSUME IntakeInv, [Next]_vars PROVE IntakeInv'
      OBVIOUS
<1>2. ASSUME NEW r \in Request, Send(r) \/ Miss(r) \/ CreateWorkflow(r) PROVE IntakeInv'
      BY <1>1, <1>2, GoesKeeps DEF Send, Miss, CreateWorkflow
<1>3. ASSUME NEW r \in Request, InsertJob(r) PROVE IntakeInv'
      BY <1>1, <1>3, GoesKeeps DEF InsertJob
<1>4. ASSUME NEW r \in Request,
             RejectDraining(r) \/ Refuse(r) \/ Conflict(r) \/ StatementFails(r)
      PROVE  IntakeInv'
      BY <1>1, <1>4, AnswersKeeps DEF RejectDraining, Refuse, Conflict, StatementFails, InServer, Code
<1>5. ASSUME NEW r \in Request, Replay(r) PROVE IntakeInv'
      <2>1. PICK q \in jobs : \/ Answers(r, "accepted", q)
                              \/ Answers(r, "forbidden", Nothing)
            BY <1>5 DEF Replay
      <2>2. q \in Request /\ pc[r] \in InServer \ {"committed"} /\ UNCHANGED <<workflows, jobs>>
            BY <1>1, <1>5, <2>1 DEF IntakeInv, TypeOK, Replay, InServer
      <2>3. QED
            BY <1>1, <2>1, <2>2, AnswersKeeps DEF Code
<1>6. ASSUME NEW r \in Request, Accept(r) PROVE IntakeInv'
      <2>1. /\ pc' = [pc EXCEPT ![r] = "answered"]
            /\ answer' = [answer EXCEPT ![r] = [code |-> "accepted", workflow |-> r]]
            /\ UNCHANGED <<draining, crashes, client, key, workflows, jobs>>
            BY <1>6 DEF Accept, Answers, Goes
      <2>2. TypeOK'
            BY <1>1, <2>1 DEF IntakeInv, TypeOK, Code
      <2>3. pc'[r] = "answered" /\ \A q \in Request : q # r => pc'[q] = pc[q] /\ answer'[q] = answer[q]
            BY <1>1, <2>1 DEF IntakeInv, TypeOK
      <2>4. \A q, s \in Request : SameKey(q, s)' = SameKey(q, s)
            BY <2>1 DEF SameKey
      <2>5. QED
            BY <1>1, <2>1, <2>2, <2>3, <2>4
            DEF IntakeInv, TypeOK, AcceptedWhole, InServer, Taken, Waits
<1>7. ASSUME NEW r \in Request, Commit(r) PROVE IntakeInv'
      BY <1>1, <1>7, RowsKeep DEF Commit
<1>8. ASSUME NEW r \in Request, CommitFails(r) PROVE IntakeInv'
      BY <1>1, <1>8, RowsKeep DEF CommitFails, Answers
<1>9. CASE Drain \/ UNCHANGED vars
      <2>1. TypeOK' /\ UNCHANGED <<pc, client, key, workflows, jobs, answer>>
            BY <1>1, <1>9 DEF Drain, vars, IntakeInv, TypeOK
      <2>2. QED
            BY <1>1, <2>1 DEF IntakeInv, AcceptedWhole, Taken, Waits, SameKey
<1>10. CASE Restart
      BY <1>1, <1>10, RestartKeeps
<1>11. QED
      BY <1>1, <1>2, <1>3, <1>4, <1>5, <1>6, <1>7, <1>8, <1>9, <1>10 DEF Next, Serve

\* An open insert has its key to itself, one job is made for a key, and what
\* was accepted is committed.
THEOREM IntakeInvariant == Spec => []IntakeInv
<1>1. QED
      BY IntakeInit, IntakeStep, PTL DEF Spec

\* There is no workflow without the job that runs it, and no job without its
\* workflow.
THEOREM SubmissionsAreWhole == Spec => []AcceptedWhole
<1>1. IntakeInv => AcceptedWhole
      BY DEF IntakeInv
<1>2. QED
      BY <1>1, IntakeInvariant, PTL

-----------------------------------------------------------------------------
(***************************************************************************)
(* The steps of the promise.                                               *)
(***************************************************************************)

\* What is made and told depends on the rows and on the accepted answers.
LEMMA MadeUnchanged ==
    ASSUME jobs' = jobs, key' = key, client' = client
    PROVE  Made' = Made
BY DEF Made, Submission

LEMMA ToldUnchanged ==
    ASSUME key' = key, client' = client,
           \A q \in Request :
               \/ answer'[q] = answer[q]
               \/ answer[q].code # "accepted" /\ answer'[q].code # "accepted"
    PROVE  Told' = Told
<1>1. \A q \in Request : answer[q].code = "accepted" <=> answer'[q].code = "accepted"
      OBVIOUS
<1>2. \A q \in Request : answer[q].code = "accepted" => answer'[q] = answer[q]
      OBVIOUS
<1>3. \A q \in Request : Submission(q, answer[q].workflow)' =
                          [workflow |-> answer'[q].workflow, key |-> key[q], owner |-> client[q]]
      BY DEF Submission
<1>4. QED
      BY <1>1, <1>2, <1>3 DEF Told, Submission

\* An answer without a workflow tells nothing.
LEMMA SilentAnswer ==
    ASSUME IntakeInv, NEW r \in Request, pc[r] # "answered",
           NEW code \in Code \ {"accepted"}, Answers(r, code, Nothing)
    PROVE  Told' = Told
<1>1. \A q \in Request : q # r => answer'[q] = answer[q]
      BY DEF Answers, IntakeInv, TypeOK
<1>2. answer[r].code # "accepted"
      BY DEF IntakeInv, NoAnswer
<1>3. answer'[r].code # "accepted"
      BY DEF Answers, IntakeInv, TypeOK
<1>4. key' = key /\ client' = client
      BY DEF Answers
<1>5. \A q \in Request :
          \/ answer'[q] = answer[q]
          \/ answer[q].code # "accepted" /\ answer'[q].code # "accepted"
      BY <1>1, <1>2, <1>3
<1>6. QED
      BY <1>4, <1>5, ToldUnchanged

\* A request is told of a workflow of its key and its client.
LEMMA AcceptedAnswer ==
    ASSUME IntakeInv, NEW r \in Request, pc[r] # "answered", NEW q \in jobs,
           Submission(q, q) = Submission(r, q),
           Answers(r, "accepted", q), UNCHANGED jobs
    PROVE  Promise!Tell(q, key[r], client[r])
<1> DEFINE m == [workflow |-> q, key |-> key[r], owner |-> client[r]]
<1>1. UNCHANGED <<key, client>>
      BY DEF Answers
<1>2. m \in Made
      BY DEF Made, Submission
<1>3. UNCHANGED Made
      BY <1>1, MadeUnchanged
<1>4. /\ answer'[r].code = "accepted" /\ answer'[r].workflow = q
      /\ \A s \in Request : s # r => answer'[s] = answer[s]
      BY DEF Answers, IntakeInv, TypeOK
<1>5. answer[r].code # "accepted"
      BY DEF IntakeInv, NoAnswer
<1>6. Told' = Told \cup {m}
      <2>1. Told' = {[workflow |-> answer'[s].workflow, key |-> key[s], owner |-> client[s]] :
                        s \in {s \in Request : answer'[s].code = "accepted"}}
            BY <1>1 DEF Told, Submission
      <2>2. {s \in Request : answer'[s].code = "accepted"} =
                {s \in Request : answer[s].code = "accepted"} \cup {r}
            BY <1>4
      <2>3. QED
            BY <2>1, <2>2, <1>4, <1>5 DEF Told, Submission
<1>7. QED
      BY <1>2, <1>3, <1>6 DEF Promise!Tell

\* The rows of a request make its workflow.
LEMMA RowsMake ==
    ASSUME IntakeInv, NEW r \in Request, pc[r] = "inserted",
           jobs' = jobs \cup {r}, UNCHANGED <<key, client, Told>>
    PROVE  Promise!Make(r, key[r], client[r])
<1> DEFINE m == [workflow |-> r, key |-> key[r], owner |-> client[r]]
<1>1. Made' = Made \cup {m}
      BY DEF Made, Submission
<1>2. r \notin jobs
      BY DEF IntakeInv, InServer
<1>3. \A x \in Made : x.workflow # r
      BY <1>2 DEF Made, Submission
<1>4. key[r] # NoKey => \A x \in Made : x.key # key[r]
      BY DEF IntakeInv, Taken, SameKey, Made, Submission
<1>5. QED
      BY <1>1, <1>3, <1>4 DEF Promise!Make

\* For every set of clients, keys and requests: one workflow per key, of which
\* only its owner is told, and only once it is there.
THEOREM IntakeKeepsPromise == Spec => KeepsPromise
<1>1. Init => Promise!Init
      BY DEF Init, Promise!Init, Made, Told, NoAnswer
<1>2. IntakeInv /\ [Next]_vars => [Promise!Next]_(Promise!vars)
      <2>1. SUFFICES ASSUME IntakeInv, [Next]_vars
                     PROVE  [Promise!Next]_(Promise!vars)
            OBVIOUS
      <2>2. ASSUME NEW r \in Request,
                   Send(r) \/ Miss(r) \/ CreateWorkflow(r) \/ InsertJob(r)
            PROVE  UNCHANGED Promise!vars
            <3>1. UNCHANGED <<jobs, key, client, answer>>
                  BY <2>2 DEF Send, Miss, CreateWorkflow, InsertJob
            <3>2. \A q \in Request :
                      \/ answer'[q] = answer[q]
                      \/ answer[q].code # "accepted" /\ answer'[q].code # "accepted"
                  BY <3>1
            <3>3. Told' = Told
                  BY <3>1, <3>2, ToldUnchanged
            <3>4. Made' = Made
                  BY <3>1, MadeUnchanged
            <3>5. QED
                  BY <3>3, <3>4 DEF Promise!vars
      <2>3. ASSUME NEW r \in Request,
                   RejectDraining(r) \/ Refuse(r) \/ Conflict(r) \/ StatementFails(r)
            PROVE  UNCHANGED Promise!vars
            <3>1. pc[r] # "answered" /\ UNCHANGED <<jobs, key, client>>
                  BY <2>3 DEF RejectDraining, Refuse, Conflict, StatementFails, Answers
            <3>2. PICK code \in Code \ {"accepted"} : Answers(r, code, Nothing)
                  BY <2>3 DEF RejectDraining, Refuse, Conflict, StatementFails, Code
            <3>3. QED
                  BY <2>1, <3>1, <3>2, SilentAnswer, MadeUnchanged DEF Promise!vars
      <2>4. ASSUME NEW r \in Request, Replay(r)
            PROVE  [Promise!Next]_(Promise!vars)
            <3>1. pc[r] # "answered" /\ UNCHANGED jobs
                  BY <2>4 DEF Replay
            <3>2. PICK q \in jobs :
                      /\ SameKey(q, r)
                      /\ \/ Owns(r, q) /\ Answers(r, "accepted", q)
                         \/ Answers(r, "forbidden", Nothing)
                  BY <2>4 DEF Replay
            <3>3. CASE Owns(r, q) /\ Answers(r, "accepted", q)
                  <4>1. Submission(q, q) = Submission(r, q)
                        BY <3>2, <3>3 DEF Submission, SameKey, Owns
                  <4>2. Promise!Tell(q, key[r], client[r])
                        BY <2>1, <3>1, <3>3, <4>1, AcceptedAnswer
                  <4>3. q \in Request /\ key[r] \in Key \cup {NoKey} /\ client[r] \in Client
                        BY <2>1 DEF IntakeInv, TypeOK
                  <4>4. QED
                        BY <4>2, <4>3 DEF Promise!Next
            <3>4. CASE Answers(r, "forbidden", Nothing)
                  <4>1. "forbidden" \in Code \ {"accepted"}
                        BY DEF Code
                  <4>2. UNCHANGED <<key, client>>
                        BY <3>4 DEF Answers
                  <4>3. QED
                        BY <2>1, <3>1, <3>4, <4>1, <4>2, SilentAnswer, MadeUnchanged DEF Promise!vars
            <3>5. QED
                  BY <3>2, <3>3, <3>4
      <2>5. ASSUME NEW r \in Request, Accept(r)
            PROVE  Promise!Next
            <3>1. pc[r] = "committed" /\ Answers(r, "accepted", r) /\ UNCHANGED jobs
                  BY <2>5 DEF Accept
            <3>2. r \in jobs
                  BY <2>1, <3>1 DEF IntakeInv
            <3>3. Promise!Tell(r, key[r], client[r])
                  BY <2>1, <3>1, <3>2, AcceptedAnswer
            <3>4. key[r] \in Key \cup {NoKey} /\ client[r] \in Client
                  BY <2>1 DEF IntakeInv, TypeOK
            <3>5. QED
                  BY <3>3, <3>4 DEF Promise!Next
      <2>6. ASSUME NEW r \in Request, Commit(r) \/ CommitFails(r)
            PROVE  Promise!Next
            <3>1. pc[r] = "inserted" /\ jobs' = jobs \cup {r} /\ UNCHANGED <<key, client>>
                  BY <2>6 DEF Commit, CommitFails, Answers
            <3>2. UNCHANGED Told
                  <4>1. CASE Commit(r)
                        <5>1. key' = key /\ client' = client /\ answer' = answer
                              BY <4>1 DEF Commit
                        <5>2. \A q \in Request :
                                  \/ answer'[q] = answer[q]
                                  \/ answer[q].code # "accepted" /\ answer'[q].code # "accepted"
                              BY <5>1
                        <5>3. QED
                              BY <5>1, <5>2, ToldUnchanged
                  <4>2. CASE CommitFails(r)
                        <5>1. "error" \in Code \ {"accepted"}
                              BY DEF Code
                        <5>2. pc[r] # "answered" /\ Answers(r, "error", Nothing)
                              BY <4>2 DEF CommitFails
                        <5>3. QED
                              BY <2>1, <5>1, <5>2, SilentAnswer
                  <4>3. QED
                        BY <2>6, <4>1, <4>2
            <3>3. Promise!Make(r, key[r], client[r])
                  BY <2>1, <3>1, <3>2, RowsMake
            <3>4. key[r] \in Key \cup {NoKey} /\ client[r] \in Client
                  BY <2>1 DEF IntakeInv, TypeOK
            <3>5. QED
                  BY <3>3, <3>4 DEF Promise!Next
      <2>7. CASE Drain \/ Restart \/ UNCHANGED vars
            <3>1. UNCHANGED <<jobs, key, client, answer>>
                  BY <2>7 DEF Drain, Restart, vars
            <3>2. \A q \in Request :
                      \/ answer'[q] = answer[q]
                      \/ answer[q].code # "accepted" /\ answer'[q].code # "accepted"
                  BY <3>1
            <3>3. Told' = Told
                  BY <3>1, <3>2, ToldUnchanged
            <3>4. Made' = Made
                  BY <3>1, MadeUnchanged
            <3>5. QED
                  BY <3>3, <3>4 DEF Promise!vars
      <2>8. QED
            BY <2>1, <2>2, <2>3, <2>4, <2>5, <2>6, <2>7 DEF Next, Serve
<1>3. QED
      BY <1>1, <1>2, IntakeInvariant, PTL DEF Spec, KeepsPromise, Promise!Spec
=============================================================================
