------------------------------ MODULE MCCalls ------------------------------
(***************************************************************************)
(* Those who wait for an answer, for TLC: a worker for the database when   *)
(* it claims a job, a worker for the model that judges a draft, and the    *)
(* page of a user for the API.  They share no state, so a behaviour is     *)
(* about one of them and the other two stand still in one initial state.   *)
(*                                                                         *)
(* Claim: three workers, two jobs of two attempts, two crashes.  Judge:    *)
(* two models of two attempts, a call that may outlast its timeout by a    *)
(* tick, a delay above its cap; and, judged by the rubric or by one model, *)
(* drafts on both sides of every limit.  Page: two runs, four changes of   *)
(* one and one of the other, two ticks at once, a change of the route, a   *)
(* failing request and two decisions.                                      *)
(***************************************************************************)
EXTENDS JobClaim, LiveJudge, RunPage

CONSTANTS w1, w2, w3, m1, m2, a, b

VARIABLE part

\* The hypotheses of the theorems about RunPage and LiveJudge
\* (LateAnswersProofs).
ASSUME CallsAssumption == PageAssumption /\ JudgeAssumption

-----------------------------------------------------------------------------
(***************************************************************************)
(* What the judge is given.                                                *)
(***************************************************************************)

Verdicts ==
    {[overall |-> 90, duration |-> 90, issues |-> FALSE, approved |-> TRUE],
     [overall |-> 90, duration |-> 30, issues |-> FALSE, approved |-> FALSE]}

AllSettings ==
    [model_evaluate : {m2, Empty}, model_fallback : {m1, m2, Empty}, model_name : {m1},
     credentials : BOOLEAN, live_fallback : BOOLEAN, prefer_live : BOOLEAN]

\* The models matter only to a live judge, and whether the rubric may stand in
\* for it only at the end: that is tried with two models alone.
MCSettings ==
    {s \in AllSettings :
        /\ ~s.credentials \/ ~s.prefer_live => s.model_evaluate = Empty /\ s.model_fallback = Empty
        /\ s.credentials /\ s.prefer_live /\ ~s.live_fallback =>
              s.model_evaluate = m2 /\ s.model_fallback = m1}

\* Drafts on both sides of every limit, with the durations and seconds given.
Drafts(durations, seconds) ==
    [hook : {1, 11, 12, 23, 24}, body : {1, 39, 40, 79, 80}, cta : {11, 12, 23, 24},
     duration : durations, labels : {Labels, {"hook", "cta"}}, seconds : seconds,
     revised : BOOLEAN, guided : {FALSE}]

MCScripts == Drafts({15, 20, 45, 55, 56}, {40, 60, 61})

SoundDraft ==
    [hook |-> 24, body |-> 80, cta |-> 24, duration |-> 45, labels |-> Labels,
     seconds |-> 40, revised |-> FALSE, guided |-> FALSE]

FlawedDrafts ==
    {[SoundDraft EXCEPT !.hook = h] : h \in {11, 12}}
    \cup {[SoundDraft EXCEPT !.duration = d] : d \in {15, 56}}
    \cup {[SoundDraft EXCEPT !.labels = {"hook", "cta"}], [SoundDraft EXCEPT !.seconds = 61]}

RubricAlone ==
    [model_evaluate |-> Empty, model_fallback |-> Empty, model_name |-> m1,
     credentials |-> FALSE, live_fallback |-> FALSE, prefer_live |-> FALSE]

OneModel == [RubricAlone EXCEPT !.credentials = TRUE, !.live_fallback = TRUE, !.prefer_live = TRUE]

\* A sound draft with every configuration, every draft with the rubric alone,
\* and the drafts with one flaw with one model.
Judged ==
    \/ settings \in MCSettings /\ script = SoundDraft /\ marker = "none"
    \/ settings = RubricAlone /\ script \in Drafts({15, 20, 55, 56}, {60, 61})
          /\ marker \in {"none", "reject", "retry_pass"}
    \/ settings = OneModel /\ script \in FlawedDrafts /\ marker = "none"

JudgeIdle == settings = RubricAlone /\ script = SoundDraft /\ marker = "none"

-----------------------------------------------------------------------------

Review == [final |-> "none", review |-> TRUE, fit |-> TRUE]
End(fit) == [final |-> "COMPLETED", review |-> FALSE, fit |-> fit]

\* Bound: what the rows of a run come to.  The one run is paused, its job fails
\* while the review stays open, it gets a new execution, and it ends, with or
\* without a result that is given out; the other comes to its review.
Lives ==
    [r \in {a, b} |->
        {<<NoExecution, "open">>, <<Review, "open">>}
        \cup (IF r = a THEN {<<Review, "failed">>, <<End(TRUE), "open">>, <<End(FALSE), "open">>}
                       ELSE {})]

Changes == [r \in {a, b} |-> IF r = a THEN 4 ELSE 1]

\* Bound: two decisions, or one and a failing request, with slow answers one of
\* the two; and five events in all, where a failing request and a change of the
\* other run count twice: enough for a pause, a job that fails, a decision that
\* is accepted after it, and the end.  With slow answers, three.
Few ==
    /\ sent + failures <= IF slow THEN 1 ELSE 2
    /\ sent + 2 * failures + server[a].version + 2 * server[b].version
          <= IF slow THEN 3 ELSE 5
    /\ \A r \in {a, b} : <<server[r].row, server[r].job>> \in Lives[r]

MCInit ==
    /\ part \in {"claim", "judge", "page"}
    /\ Init
    /\ IF part = "judge" THEN Judged ELSE JudgeIdle
    /\ JudgeInit
    /\ PageInit
    /\ part # "page" => ~slow

MCNext ==
    /\ UNCHANGED part
    /\ \/ part = "claim" /\ Next /\ UNCHANGED <<judgeVars, pageVars>>
       \/ part = "judge" /\ JudgeNext /\ UNCHANGED <<vars, pageVars>>
       \/ part = "page" /\ PageNext /\ Few' /\ UNCHANGED <<vars, judgeVars>>

\* The fairness of the three modules, each for its own behaviours.
MCSpec ==
    /\ MCInit /\ [][MCNext]_<<part, vars, judgeVars, pageVars>>
    /\ \A w \in Worker : WF_vars(part = "claim" /\ Work(w))
    /\ \A j \in Job : WF_vars(part = "claim" /\ BecomesDue(j))
    /\ WF_judgeVars(part = "judge" /\ JudgeNext)
    /\ WF_pageVars(part = "page" /\ StartTick)
    /\ \A i \in 1..MaxTicks : WF_pageVars(part = "page" /\ Answers(i))

-----------------------------------------------------------------------------

\* What is waited for comes: a queued job is taken, whatever workers die; a
\* judgment, whatever calls fail or come late; and a page that stays with a run
\* shows for good what the API has come to tell of it.
NothingHangs ==
    /\ part = "claim" => QueuedIsServed
    /\ part = "judge" => JudgeAnswers
    /\ part = "page" => PageCatchesUp
=============================================================================
