---------------------------- MODULE RateLimiter ----------------------------
(***************************************************************************)
(* security/rate_limit.py: the sliding window of one API key, used by the  *)
(* request threads of one API process.                                     *)
(*                                                                         *)
(* A thread reads the clock before it takes the lock, so the time of an    *)
(* event is older than its insertion, and events need not be in order.     *)
(* The deque is the part of `grants` from `head` on: append lengthens      *)
(* grants, popleft advances head.                                          *)
(***************************************************************************)
EXTENDS Integers, Sequences

CONSTANTS
    Thread,    \* the threads that serve POST /shorts
    Limit,     \* settings.api_rate_limit_per_min
    Window,    \* window_sec, in ticks
    Second,    \* ticks in a second
    MaxDelay,  \* a thread that has read the clock gets the lock within this
    MaxClock   \* bound: the clock

ASSUME RateAssumption ==
    /\ Limit \in Nat \ {0} /\ Window \in Nat /\ Second \in Nat \ {0}
    /\ MaxDelay \in Nat /\ MaxClock \in Nat

Nobody == -1
NoRefusal == [until |-> Nobody, size |-> 0]

VARIABLES
    clock,    \* time.monotonic()
    grants,   \* the granted requests: time of arrival, time of insertion
    head,     \* the first event the deque still holds
    arrival,  \* `now` of each thread that waits for the lock
    refusal   \* history: what each thread was last told, and after how many grants

rateVars == <<clock, grants, head, arrival, refusal>>

Grant == [arrived : Nat, at : Nat]

RateTypeOK ==
    /\ clock \in 0..MaxClock
    /\ grants \in Seq(Grant)
    /\ head \in 1..(Len(grants) + 1)
    /\ arrival \in [Thread -> Nat \cup {Nobody}]
    /\ refusal \in [Thread -> [until : Nat \cup {Nobody}, size : Nat]]

RateInit ==
    /\ clock = 0
    /\ grants = <<>>
    /\ head = 1
    /\ arrival = [t \in Thread |-> Nobody]
    /\ refusal = [t \in Thread |-> NoRefusal]

-----------------------------------------------------------------------------

\* No thread waits longer for the lock than MaxDelay.
Tick ==
    /\ clock < MaxClock
    /\ \A t \in Thread : arrival[t] # Nobody => clock < arrival[t] + MaxDelay
    /\ clock' = clock + 1
    /\ UNCHANGED <<grants, head, arrival, refusal>>

\* now = time.monotonic()
Arrive(t) ==
    /\ arrival[t] = Nobody
    /\ arrival' = [arrival EXCEPT ![t] = clock]
    /\ UNCHANGED <<clock, grants, head, refusal>>

\* Mutant: an event that leaves the window with this request stays.
Expired_Late(i, now) == grants[i].arrived < now - Window - 1

\* Mutant: an event leaves the window a tick too soon.
Expired_Early(i, now) == grants[i].arrived <= now - Window

Expired(i, now) == grants[i].arrived < now - Window

\* The events before h are popped, the one at h is the first to stay.
Evicts(h, now) ==
    /\ h \in head..(Len(grants) + 1)
    /\ \A i \in head..(h - 1) : Expired(i, now)
    /\ h <= Len(grants) => ~Expired(h, now)

\* Mutant: one more event than the limit fits.
Full_OffByOne(h) == Len(grants) - h + 1 > Limit

Full(h) == Len(grants) - h + 1 >= Limit

\* The Retry-After header: the whole seconds until the first event is as old
\* as the window, at least one.
RetryAfter(h, now) ==
    LET seconds == (Window - (now - grants[h].arrived)) \div Second
    IN  IF seconds > 0 THEN seconds ELSE 1

Allow(t) ==
    /\ arrival[t] # Nobody
    /\ \E h \in head..(Len(grants) + 1) :
          /\ Evicts(h, arrival[t])
          /\ ~Full(h)
          /\ head' = h
    /\ grants' = Append(grants, [arrived |-> arrival[t], at |-> clock])
    /\ arrival' = [arrival EXCEPT ![t] = Nobody]
    /\ UNCHANGED <<clock, refusal>>

Deny(t) ==
    /\ arrival[t] # Nobody
    /\ \E h \in head..(Len(grants) + 1) :
          /\ Evicts(h, arrival[t])
          /\ Full(h)
          /\ head' = h
          /\ refusal' = [refusal EXCEPT ![t] =
                [until |-> clock + Second * RetryAfter(h, arrival[t]), size |-> Len(grants)]]
    /\ arrival' = [arrival EXCEPT ![t] = Nobody]
    /\ UNCHANGED <<clock, grants>>

RateNext == Tick \/ \E t \in Thread : Arrive(t) \/ Allow(t) \/ Deny(t)

RateSpec == RateInit /\ [][RateNext]_rateVars

-----------------------------------------------------------------------------
(***************************************************************************)
(* Properties.  With W the length of a time window, "no window of length W *)
(* has more than Limit grants" says of any grant that the one Limit places *)
(* after it is more than W later.                                          *)
(***************************************************************************)

AtMostLimitIn(w) ==
    \A i \in 1..Len(grants) :
        i + Limit <= Len(grants) => grants[i + Limit].at - grants[i].at > w

\* Although clock and lock are not read together, threads overtake each other
\* and only the head of an unordered deque is looked at, no window shorter by
\* the delay of a thread sees more than Limit grants.
LimitWithDelay == AtMostLimitIn(Window - MaxDelay)

\* A request is refused only for Limit grants made since the window of its
\* arrival opened: refused requests do not count, and events that are out of
\* order do not keep a key out longer.
RefusedForGrants ==
    [][\A t \in Thread : Deny(t) =>
          /\ Len(grants) >= Limit
          /\ grants[Len(grants) - Limit + 1].at >= arrival[t] - Window]_rateVars

\* "allow at most ``limit`` events per ``window_sec`` per key_id"
\* (security/rate_limit.py:17).
LimitPerWindow == AtMostLimitIn(Window)

\* "return (allowed, retry_after_seconds)" (security/rate_limit.py:26): who
\* stays away as long as told is not refused again for the same grants.
RetryAfterSuffices ==
    [][\A t \in Thread :
          /\ refusal[t] # NoRefusal
          /\ arrival[t] >= refusal[t].until
          /\ Len(grants) = refusal[t].size
          => ~Deny(t)]_rateVars

-----------------------------------------------------------------------------
(***************************************************************************)
(* The inductive invariant.                                                *)
(***************************************************************************)

\* When a grant was inserted, and that insertions are in the order of time.
TimesInv ==
    /\ \A i \in 1..Len(grants) :
          /\ grants[i].arrived <= grants[i].at
          /\ grants[i].at <= grants[i].arrived + MaxDelay
          /\ grants[i].at <= clock
    /\ \A i, j \in 1..Len(grants) : i <= j => grants[i].at <= grants[j].at

WaitingInv ==
    \A t \in Thread : arrival[t] # Nobody =>
        arrival[t] <= clock /\ clock <= arrival[t] + MaxDelay

\* What was evicted is outside the window of every later request.
EvictedInv == \A i \in 1..(head - 1) : grants[i].arrived < clock - Window

\* The deque never holds more than Limit events.
DequeInv == Len(grants) - head + 1 <= Limit

RateInv ==
    RateTypeOK /\ TimesInv /\ WaitingInv /\ EvictedInv /\ DequeInv /\ LimitWithDelay
=============================================================================
