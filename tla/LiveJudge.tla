----------------------------- MODULE LiveJudge -----------------------------
(***************************************************************************)
(* judge_script (judge.py) with the live judge: the candidates of the      *)
(* model router, call_with_policy around each of them (failures.py), the   *)
(* synthetic rubric behind them, and the checks that are merged into       *)
(* whatever judged.                                                        *)
(*                                                                         *)
(* Each attempt runs in a thread of its own.  Time passes in ticks, only   *)
(* while a call runs or the caller sleeps; Timeout is a number of ticks.   *)
(***************************************************************************)
EXTENDS JudgeRubric, Sequences

CONSTANTS
    Model,         \* model ids
    Empty,         \* an empty setting
    LlmMaxAttempts, \* settings.llm_max_attempts
    Timeout,       \* settings.llm_timeout_seconds
    BackoffBase,   \* settings.llm_backoff_base_seconds
    BackoffMax,    \* settings.llm_backoff_max_seconds
    MaxLatency,    \* bound: how long a call of the provider can take
    Configurations, \* the settings in force
    Scripts,       \* the scripts to judge
    Markers,       \* the markers in the request
    LiveVerdicts   \* what the live judge may say

Settings == [model_evaluate : Model \cup {Empty}, model_fallback : Model \cup {Empty},
             model_name : Model, credentials : BOOLEAN, live_fallback : BOOLEAN,
             prefer_live : BOOLEAN]

VARIABLES
    settings,    \* the models, credentials, LIVE_JUDGE_FALLBACK, prefer_live
    script, marker,
    judge_pc,
    model,       \* the candidate being tried
    failed,      \* failed_models
    attempt,
    calls,       \* every call made so far
    delay,       \* what is left to sleep
    clock,
    source,      \* history: whose judgment it is
    judgment, evaluation

input == <<settings, script, marker>>
policy == <<model, failed, attempt, calls, delay, clock>>
answer == <<source, judgment, evaluation>>
judgeVars == <<input, judge_pc, policy, answer>>

CallOutcome == {"ok", "transient", "permanent"}
Call == [model : Model, state : CallOutcome \cup {"running"}, elapsed : 0..MaxLatency,
         late : BOOLEAN]

NoVerdict == [overall |-> 0, duration |-> 0, issues |-> FALSE, approved |-> FALSE]

JudgeTypeOK ==
    /\ settings \in Configurations /\ script \in Scripts /\ marker \in Markers
    /\ judge_pc \in {"start", "route", "submit", "wait", "join", "sleep", "give_up",
                     "synthetic", "merge", "done", "raised"}
    /\ model \in Model \cup {Empty}
    /\ failed \in SUBSET Model
    /\ attempt \in 0..LlmMaxAttempts
    /\ calls \in Seq(Call)
    /\ delay \in 0..BackoffMax
    /\ clock \in Nat
    /\ source \in Model \cup {Empty, "synthetic"}
    /\ judgment \in ScriptEvaluation /\ evaluation \in ScriptEvaluation

JudgeInit ==
    /\ settings \in Configurations /\ script \in Scripts /\ marker \in Markers
    /\ judge_pc = "start"
    /\ model = Empty /\ failed = {} /\ attempt = 0 /\ calls = <<>> /\ delay = 0 /\ clock = 0
    /\ source = Empty /\ judgment = NoVerdict /\ evaluation = NoVerdict

-----------------------------------------------------------------------------
(***************************************************************************)
(* The model router.                                                       *)
(***************************************************************************)

PrimaryFor ==
    IF settings.model_evaluate # Empty THEN settings.model_evaluate ELSE settings.model_name

FallbackFor ==
    IF settings.model_fallback # Empty THEN settings.model_fallback ELSE settings.model_name

\* Mutant: the fallback is tried only if it is configured.
Candidates_Configured ==
    IF settings.model_fallback \in {Empty, PrimaryFor} THEN <<PrimaryFor>>
    ELSE <<PrimaryFor, settings.model_fallback>>

\* RouteDecision.candidates: the primary, then a fallback that differs.
Candidates ==
    IF FallbackFor = PrimaryFor THEN <<PrimaryFor>> ELSE <<PrimaryFor, FallbackFor>>

\* next_after_failure
Untried == {i \in DOMAIN Candidates : Candidates[i] \notin failed}

\* try_live_judge is asked for, and can work at all.
Begin ==
    /\ judge_pc = "start"
    /\ judge_pc' = IF settings.prefer_live /\ settings.credentials THEN "route" ELSE "synthetic"
    /\ UNCHANGED <<input, policy, answer>>

\* Mutant: the loop goes on when no candidate is left.
NoneLeft_Continue == "route"

NoneLeft == "give_up"

Route ==
    /\ judge_pc = "route"
    /\ IF Untried = {}
          THEN judge_pc' = NoneLeft /\ UNCHANGED <<model, attempt>>
          ELSE /\ model' = Candidates[CHOOSE i \in Untried : \A j \in Untried : i <= j]
               /\ attempt' = 1
               /\ judge_pc' = "submit"
    /\ UNCHANGED <<input, failed, calls, delay, clock, answer>>

-----------------------------------------------------------------------------
(***************************************************************************)
(* call_with_policy: attempts, timeouts and delays.                        *)
(***************************************************************************)

Last == calls[Len(calls)]
Running == calls # <<>> /\ Last.state = "running"

Submit ==
    /\ judge_pc = "submit"
    /\ calls' = Append(calls, [model |-> model, state |-> "running", elapsed |-> 0,
                               late |-> FALSE])
    /\ judge_pc' = "wait"
    /\ UNCHANGED <<input, model, failed, attempt, delay, clock, answer>>

\* A caller that waits wakes up at the timeout.
TimePasses ==
    /\ \/ /\ Running /\ Last.elapsed < MaxLatency
          /\ judge_pc = "wait" => Last.elapsed < Timeout
          /\ calls' = [calls EXCEPT ![Len(calls)].elapsed = @ + 1]
          /\ UNCHANGED delay
       \/ /\ judge_pc = "sleep" /\ delay > 0
          /\ delay' = delay - 1
          /\ UNCHANGED calls
    /\ clock' = clock + 1
    /\ UNCHANGED <<input, judge_pc, model, failed, attempt, answer>>

\* The provider answers, or fails with an error classify_exception can tell.
CallEnds ==
    /\ Running
    /\ \E o \in CallOutcome : calls' = [calls EXCEPT ![Len(calls)].state = o]
    /\ UNCHANGED <<input, judge_pc, model, failed, attempt, delay, clock, answer>>

Min(a, b) == IF a < b THEN a ELSE b

\* Mutant: the delay is not capped.
Backoff_Uncapped(n) == BackoffBase * 2^(n - 1)

Backoff(n) == Min(BackoffBase * 2^(n - 1), BackoffMax)

\* Mutant: an attempt is left out.
AttemptsLeft_OneLess == attempt + 1 < LlmMaxAttempts

AttemptsLeft == attempt < LlmMaxAttempts

GiveUpModel == failed' = failed \cup {model} /\ judge_pc' = "route"

\* The error of an attempt, as call_with_policy and then try_live_judge take it.
Fails(transient) ==
    /\ IF transient /\ AttemptsLeft
          THEN judge_pc' = "sleep" /\ delay' = Backoff(attempt) /\ UNCHANGED failed
          ELSE GiveUpModel /\ UNCHANGED delay
    /\ UNCHANGED <<model, attempt, answer>>

Accepts ==
    /\ judge_pc' = "merge"
    /\ source' = Last.model
    /\ \E v \in LiveVerdicts : judgment' = v
    /\ UNCHANGED <<model, failed, attempt, delay, evaluation>>

Receive ==
    /\ judge_pc = "wait" /\ ~Running
    /\ IF Last.state = "ok" THEN Accepts ELSE Fails(Last.state = "transient")
    /\ UNCHANGED <<input, calls, clock>>

\* Mutant: the caller goes on at once.
Expire_NoWait ==
    /\ judge_pc = "wait" /\ Running /\ Last.elapsed >= Timeout
    /\ Fails(TRUE)
    /\ calls' = [calls EXCEPT ![Len(calls)].late = TRUE]
    /\ UNCHANGED <<input, clock>>

\* future.result raises; cancel() does not stop a call that runs.
Expire ==
    /\ judge_pc = "wait" /\ Running /\ Last.elapsed >= Timeout
    /\ calls' = [calls EXCEPT ![Len(calls)].late = TRUE]
    /\ judge_pc' = "join"
    /\ UNCHANGED <<input, model, failed, attempt, delay, clock, answer>>

\* Mutant: the late answer is taken after all.
Join_TakeLate ==
    /\ judge_pc = "join" /\ ~Running
    /\ IF Last.state = "ok" THEN Accepts ELSE Fails(TRUE)
    /\ UNCHANGED <<input, calls, clock>>

\* Leaving the `with` block waits for the thread; its result is dropped and
\* the TimeoutError goes on.
Join ==
    /\ judge_pc = "join" /\ ~Running
    /\ Fails(TRUE)
    /\ UNCHANGED <<input, calls, clock>>

WakeUp ==
    /\ judge_pc = "sleep" /\ delay = 0
    /\ attempt' = attempt + 1
    /\ judge_pc' = "submit"
    /\ UNCHANGED <<input, model, failed, calls, delay, clock, answer>>

\* Every candidate has failed: None, or the last error is raised.
GiveUp ==
    /\ judge_pc = "give_up"
    /\ judge_pc' = IF settings.live_fallback THEN "synthetic" ELSE "raised"
    /\ UNCHANGED <<input, policy, answer>>

JudgeSynthetic ==
    /\ judge_pc = "synthetic"
    /\ source' = "synthetic"
    /\ judgment' = SyntheticJudge(script, marker, 0)
    /\ judge_pc' = "merge"
    /\ UNCHANGED <<input, policy, evaluation>>

Merge ==
    /\ judge_pc = "merge"
    /\ evaluation' = MergeEvaluation(judgment, DeterministicChecks(script))
    /\ judge_pc' = "done"
    /\ UNCHANGED <<input, policy, source, judgment>>

JudgeNext ==
    \/ Begin \/ Route \/ Submit \/ TimePasses \/ CallEnds \/ Receive \/ Expire \/ Join
    \/ WakeUp \/ GiveUp \/ JudgeSynthetic \/ Merge

JudgeSpec == JudgeInit /\ [][JudgeNext]_judgeVars

\* The caller and the clock do not stop, and no call takes longer than
\* MaxLatency.
JudgeFairSpec == JudgeSpec /\ WF_judgeVars(JudgeNext)

-----------------------------------------------------------------------------
(***************************************************************************)
(* Properties.                                                             *)
(***************************************************************************)

CallsTo(m) == {i \in DOMAIN calls : calls[i].model = m}
Usable(c) == c.state = "ok" /\ ~c.late

\* However many attempts time out, no two calls of one judgment are on their
\* way at once: a late call is waited for before the next one is made.
OneCallInFlight == Cardinality({i \in DOMAIN calls : calls[i].state = "running"}) <= 1

\* A live judgment is that of a call that ended in time, the last one made,
\* and a call that succeeded in time is never followed by another.
AnswerIsTheLastCall ==
    /\ source \in Model => Usable(Last) /\ Last.model = source
    /\ \A i \in DOMAIN calls : Usable(calls[i]) => i = Len(calls)

\* A model is given up for a permanent error, or after all its attempts failed
\* or came late; never with attempts left, never with one too many.
GivenUpFairly ==
    \A m \in failed :
        LET permanent == {i \in CallsTo(m) : calls[i].state = "permanent" /\ ~calls[i].late}
        IN  \/ Cardinality(permanent) = 1 /\ Cardinality(CallsTo(m)) <= LlmMaxAttempts
            \/ permanent = {} /\ Cardinality(CallsTo(m)) = LlmMaxAttempts

\* The rubric stands in, or the error is raised, only when the live judge was
\* not asked for, could not work, or every model the settings name for it (an
\* empty fallback means MODEL_NAME) has failed.
LastResort ==
    source = "synthetic" \/ judge_pc = "raised" =>
        \/ ~settings.prefer_live \/ ~settings.credentials
        \/ /\ PrimaryFor \in failed /\ FallbackFor \in failed
           /\ (judge_pc = "raised") = ~settings.live_fallback

\* The longest a judgment can take: every attempt of every candidate as long
\* as a call can last (not as long as the timeout), and the capped delays.
Budget == Cardinality({PrimaryFor, FallbackFor})
            * (LlmMaxAttempts * MaxLatency + (LlmMaxAttempts - 1) * BackoffMax)
JudgingIsBounded == clock <= Budget

\* Whoever judges: a script that fails a deterministic check is not approved
\* and its issues say so, and a live approval of a sound script stands.
ChecksAlwaysWin ==
    judge_pc = "done" =>
        IF DeterministicChecks(script) # {}
           THEN ~evaluation.approved /\ evaluation.issues
           ELSE evaluation = judgment

\* What the rubric approves reaches the default threshold of the gate (7.0),
\* and what it does not approve has issues for the next draft to answer.
RubricIsUsable ==
    judge_pc = "done" /\ source = "synthetic" =>
        IF evaluation.approved THEN evaluation.overall >= 70 ELSE evaluation.issues

\* Over all retries, timeouts and fallbacks: one call at a time, the answer of
\* the last one, no model given up too early or too late, the rubric only when
\* all have failed, all of it within the budget; and, whoever judges, a verdict
\* that the checks back, with issues for the next draft where it refuses.
JudgeInv ==
    /\ JudgeTypeOK
    /\ OneCallInFlight /\ AnswerIsTheLastCall /\ GivenUpFairly /\ LastResort
    /\ JudgingIsBounded
    /\ ChecksAlwaysWin /\ RubricIsUsable

\* Retries and fallbacks come to an end: there is a judgment or an error.
JudgeAnswers == <>(judge_pc \in {"done", "raised"})

\* "Per-attempt timeout" (docs/plans/06_phase_failure_handling_stub.plan.md:189):
\* no attempt takes longer than LLM_TIMEOUT_SECONDS.
AttemptsEndInTime == \A i \in DOMAIN calls : calls[i].elapsed <= Timeout
-----------------------------------------------------------------------------
(***************************************************************************)
(* The inductive invariant behind JudgeInv, part by part.                  *)
(***************************************************************************)

JudgeAssumption ==
    /\ Empty \notin Model /\ "synthetic" \notin Model \cup {Empty}
    /\ Configurations \subseteq Settings /\ Scripts \subseteq ShortScript
    /\ Markers \subseteq Marker /\ LiveVerdicts \subseteq ScriptEvaluation
    /\ LlmMaxAttempts \in Nat \ {0}
    /\ {Timeout, BackoffBase, BackoffMax, MaxLatency} \subseteq Nat

InCall == judge_pc \in {"wait", "join"}
Trying == InCall \/ judge_pc \in {"submit", "sleep"}

\* Only the last call can be on its way or count, and only while it is waited
\* for; a call that came late is waited for and does not count.
CallsInv ==
    /\ InCall => calls # <<>> /\ Last.model = model /\ Last.late = (judge_pc = "join")
    /\ \A i \in DOMAIN calls :
          /\ calls[i].state = "running" => i = Len(calls) /\ InCall
          /\ Usable(calls[i]) => i = Len(calls) /\ (judge_pc = "wait" \/ source = calls[i].model)

\* The answer, and why there is one.
SourceInv ==
    /\ judge_pc \notin {"merge", "done"} => source = Empty
    /\ source \in Model => calls # <<>> /\ Usable(Last) /\ Last.model = source
    /\ judge_pc \in {"merge", "done"} => source # Empty
    /\ judge_pc = "give_up" => {PrimaryFor, FallbackFor} \subseteq failed
    /\ judge_pc = "synthetic" \/ source = "synthetic" =>
          \/ ~settings.prefer_live \/ ~settings.credentials
          \/ {PrimaryFor, FallbackFor} \subseteq failed /\ settings.live_fallback
    /\ judge_pc = "raised" => {PrimaryFor, FallbackFor} \subseteq failed /\ ~settings.live_fallback

PermanentOf(m) == {i \in CallsTo(m) : calls[i].state = "permanent" /\ ~calls[i].late}

\* The attempts are counted by the calls to the model in hand; those of its
\* calls that are over have not failed for good.
TriesInv ==
    /\ failed \subseteq {PrimaryFor, FallbackFor}
    /\ \A i \in DOMAIN calls : calls[i].model \in failed \cup {model}
    /\ judge_pc \in {"start", "route"} => calls = <<>> \/ model \in failed
    /\ Trying =>
          /\ model \in {PrimaryFor, FallbackFor} /\ model \notin failed
          /\ attempt \in 1..LlmMaxAttempts /\ (judge_pc = "sleep" => attempt < LlmMaxAttempts)
          /\ Cardinality(CallsTo(model)) = IF judge_pc = "submit" THEN attempt - 1 ELSE attempt
          /\ \A i \in PermanentOf(model) : judge_pc = "wait" /\ i = Len(calls)

\* The longest a model can take, and one attempt with the delay after it.
Span == LlmMaxAttempts * MaxLatency + (LlmMaxAttempts - 1) * BackoffMax
Lap == MaxLatency + BackoffMax

\* What the model in hand has taken so far.
InHand ==
    CASE judge_pc = "submit" -> (attempt - 1) * Lap
      [] InCall -> (attempt - 1) * Lap + Last.elapsed
      [] judge_pc = "sleep" -> (attempt - 1) * Lap + MaxLatency + BackoffMax - delay
      [] ~Trying /\ source \in Model -> Span
      [] OTHER -> 0

ClockInv ==
    /\ clock <= Cardinality(failed) * Span + InHand
    /\ source \in Model => failed # {PrimaryFor, FallbackFor}

\* The rubric and the checks are applied as they are.
VerdictInv ==
    /\ source = "synthetic" => judgment = SyntheticJudge(script, marker, 0)
    /\ judge_pc = "done" => evaluation = MergeEvaluation(judgment, DeterministicChecks(script))

JudgeIInv ==
    JudgeTypeOK /\ CallsInv /\ SourceInv /\ TriesInv /\ GivenUpFairly /\ ClockInv /\ VerdictInv
=============================================================================
