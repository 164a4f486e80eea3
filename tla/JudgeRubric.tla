---------------------------- MODULE JudgeRubric ----------------------------
(***************************************************************************)
(* The arithmetic of a judgment: the offline scriptwriter                  *)
(* (demo_producers.py), the synthetic rubric (judge.py) and the            *)
(* deterministic checks (evaluation_checks.py).                            *)
(*                                                                         *)
(* A text is its length, a score is in tenths (7.0 is 70).  The texts of   *)
(* issues and of feedback count as empty: they only make a body longer     *)
(* that is long enough without them.                                       *)
(***************************************************************************)
EXTENDS Integers, FiniteSets

Labels == {"hook", "body", "cta"}

\* A ShortScript; `revised` is the clause "Addressed feedback" in its body and
\* `guided` the clause about a human's guidance.
ShortScript ==
    [hook : Nat, body : Nat, cta : Nat, duration : 15..60,
     labels : SUBSET Labels, seconds : Nat, revised : BOOLEAN, guided : BOOLEAN]

Marker == {"none", "reject", "retry_pass"}

ScriptEvaluation == [overall : Nat, duration : Nat, issues : BOOLEAN, approved : BOOLEAN]

UpTo(n, limit) == IF n < limit THEN n ELSE limit

-----------------------------------------------------------------------------

\* demo_script, for a request of the given length; an issue outdoes the human
\* guidance in hook and call to action.
DemoScript(length, research, inspired, guided, revised) ==
    [hook |-> CASE revised -> 38 + UpTo(length, 28)
                [] guided /\ ~revised -> 21 + UpTo(length, 28)
                [] OTHER -> 23 + UpTo(length, 40),
     body |-> (IF research = 0 THEN 29 ELSE 30) + length + UpTo(research, 120)
                + (IF inspired THEN 48 ELSE 0) + (IF guided THEN 69 ELSE 0)
                + (IF revised THEN 83 ELSE 0),
     cta |-> CASE revised -> 53 [] guided /\ ~revised -> 42 [] OTHER -> 36,
     duration |-> 45, labels |-> Labels, seconds |-> 40,
     revised |-> revised, guided |-> guided]

\* The rubric's steps.
Graded(n, good, fair) == IF n >= good THEN 90 ELSE IF n >= fair THEN 70 ELSE 40
HookScore(s) == Graded(s.hook, 24, 12)
CtaScore(s) == Graded(s.cta, 24, 12)
DurationScore(s) == IF s.duration \in 20..55 THEN 90 ELSE 60

\* The mean of the nine scores (pacing 8.0, technical 8.0, factual 7.5 and tone
\* 8.5 are fixed), rounded to a tenth; a tie cannot occur.
Overall(s, research) ==
    LET sum == HookScore(s) + Graded(s.body, 80, 40) + 80 + 80 + 75
                 + (IF research > 0 THEN 85 ELSE 75) + DurationScore(s)
                 + CtaScore(s) + 85
    IN  (2 * sum + 9) \div 18

\* Mutant: a refusal gives no reason.
Verdict_Silent(overall, duration, approved) ==
    [overall |-> overall, duration |-> duration, issues |-> FALSE, approved |-> approved]

Verdict(overall, duration, approved) ==
    [overall |-> overall, duration |-> duration, issues |-> ~approved, approved |-> approved]

\* Mutant: the marker that wants a retry is overlooked.
SyntheticJudge_NoRetry(s, marker, research) ==
    IF marker = "reject" THEN Verdict(35, 50, FALSE)
    ELSE Verdict(Overall(s, research), DurationScore(s), TRUE)

SyntheticJudge(s, marker, research) ==
    CASE marker = "reject" -> Verdict(35, 50, FALSE)
      [] marker = "retry_pass" /\ s.revised -> Verdict(85, 90, TRUE)
      [] marker = "retry_pass" /\ ~s.revised -> Verdict(50, 60, FALSE)
      [] OTHER -> Verdict(Overall(s, research), DurationScore(s),
                          /\ Overall(s, research) >= 70
                          /\ HookScore(s) >= 60 /\ CtaScore(s) >= 60)

\* The checks a script fails (its duration has been validated by the schema);
\* every one of them is a hard failure.
DeterministicChecks(s) ==
    {c \in {"hook", "cta", "body", "labels", "seconds"} :
        CASE c = "hook" -> s.hook < 12
          [] c = "cta" -> s.cta < 12
          [] c = "body" -> s.body < 40
          [] c = "labels" -> s.labels # Labels
          [] c = "seconds" -> s.seconds > 60}

\* Mutant: the issues are added, the approval stands.
MergeEvaluation_Soft(e, failed) == [e EXCEPT !.issues = @ \/ failed # {}]

MergeEvaluation(e, failed) ==
    [e EXCEPT !.issues = @ \/ failed # {}, !.approved = @ /\ failed = {}]
=============================================================================
