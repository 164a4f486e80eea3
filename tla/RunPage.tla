------------------------------ MODULE RunPage ------------------------------
(***************************************************************************)
(* The page of a run in the web UI: frontend/src/App.tsx (the route),      *)
(* pages/Detail.tsx (polling, review) and api.ts (the requests).           *)
(*                                                                         *)
(* A tick of the poll asks for the status and then, if there is one, for   *)
(* the result.  Ticks do not wait for each other, answers come in any      *)
(* order, and the page is one component for all runs: going from one run   *)
(* to another keeps what it shows until something new arrives.             *)
(*                                                                         *)
(* What the API tells of a run comes from two rows, the latest execution   *)
(* and the newest job, which the workers change in orders of every kind: a *)
(* retried run has a new execution, a failed job leaves a review open, a   *)
(* run goes on after its clock ran out (JobSystem, RunView).  So the       *)
(* status may go from any value to any other, also back; an answer is old  *)
(* or new by the number of changes before it, its version, which only the  *)
(* model sees.                                                             *)
(***************************************************************************)
EXTENDS Naturals, FiniteSets

CONSTANTS
    Run,           \* the runs of the user
    Elsewhere,     \* the route of another page
    MaxChanges,    \* bound: the changes of a run after which no worker acts
    MaxTicks,      \* bound: the ticks at work at once
    MaxVisits,     \* bound: how often the route changes
    MaxFailures,   \* bound: the requests that fail
    MaxDecisions   \* bound: the decisions sent

VARIABLES
    slow,       \* an answer may take longer than the polling interval
    server,     \* what the API knows of each run
    route,      \* the run of the address
    visit,      \* the effect of the page; an older one is cancelled
    mount,      \* the component; another page unmounts it
    ticks,      \* the calls of tick() at work
    status, result, busy,  \* the state of the component
    decisions,  \* the calls of approve and revise at work
    sent,       \* how many there were
    failures,
    answered,   \* history: this visit has shown a status
    newest      \* history: the newest version it has shown

page == <<status, result, busy>>
pageVars == <<slow, server, route, visit, mount, ticks, page, decisions, sent,
              failures, answered, newest>>

history == <<answered, newest>>

ApiStatus == {"running", "awaiting_human", "succeeded", "failed"}

\* Of the latest execution: its final_status, whether its checkpoint awaits a
\* human, and whether get_result gives that checkpoint out (it is there, has a
\* concept if the run succeeded, and the output policy lets it pass).
ExecutionRow == [final : {"none", "COMPLETED", "FAILED"}, review : BOOLEAN, fit : BOOLEAN]

\* There is none yet, or it has stored nothing.
NoExecution == [final |-> "none", review |-> FALSE, fit |-> FALSE]

\* The newest job; "open" is queued or running.
JobStatus == {"open", "awaiting_human", "succeeded", "failed"}

Server == [version : Nat, row : ExecutionRow, job : JobStatus]

\* An answer of the API; an error (409) is NoAnswer.
Answer == [run : Run, version : Nat, status : ApiStatus]
NoAnswer == [status |-> "none"]

NoTick == [at |-> "none"]
Tick == [at : {"ask_status", "ask_result"}, visit : 0..MaxVisits, run : Run]
        \cup [at : {"status", "result"}, visit : 0..MaxVisits, run : Run,
              answer : Answer \cup {NoAnswer}]

Decision == [at : {"sent", "answered"}, id : 1..MaxDecisions, mount : 0..MaxVisits, run : Run]

PageTypeOK ==
    /\ slow \in BOOLEAN
    /\ server \in [Run -> Server]
    /\ route \in Run \cup {Elsewhere}
    /\ visit \in 0..MaxVisits /\ mount \in 0..MaxVisits
    /\ ticks \in [1..MaxTicks -> Tick \cup {NoTick}]
    /\ status \in Answer \cup {NoAnswer} /\ result \in Answer \cup {NoAnswer}
    /\ busy \in BOOLEAN
    /\ decisions \subseteq Decision
    /\ sent \in 0..MaxDecisions /\ failures \in 0..MaxFailures
    /\ answered \in BOOLEAN /\ newest \in Nat

PageInit ==
    /\ slow \in BOOLEAN
    /\ server = [r \in Run |-> [version |-> 0, row |-> NoExecution, job |-> "open"]]
    /\ route = CHOOSE r \in Run : TRUE
    /\ visit = 0 /\ mount = 0
    /\ ticks = [i \in 1..MaxTicks |-> NoTick]
    /\ status = NoAnswer /\ result = NoAnswer /\ busy = FALSE
    /\ decisions = {} /\ sent = 0 /\ failures = 0
    /\ answered = FALSE /\ newest = 0

-----------------------------------------------------------------------------
(***************************************************************************)
(* The API and the worker behind it.                                       *)
(***************************************************************************)

\* A worker starts an execution, commits a review or an end, takes a job back
\* to the queue or settles it: one row changes.
Works(r) ==
    /\ server[r].version < MaxChanges[r]
    /\ \/ \E row \in ExecutionRow \ {server[r].row} :
             server' = [server EXCEPT ![r].version = @ + 1, ![r].row = row]
       \/ \E job \in JobStatus \ {server[r].job} :
             server' = [server EXCEPT ![r].version = @ + 1, ![r].job = job]
    /\ UNCHANGED <<slow, route, visit, mount, ticks, page, decisions, sent, failures, history>>

\* get_status: the end of the execution, the end of its newest job, a review
\* that waits.
StatusOf(s) ==
    CASE s.row.final = "COMPLETED" -> "succeeded"
      [] s.row.final = "FAILED" -> "failed"
      [] s.row.final = "none" /\ s.job \in {"succeeded", "failed"} -> s.job
      [] OTHER -> IF s.row.review \/ s.job = "awaiting_human"
                     THEN "awaiting_human" ELSE "running"

Told(r) == [run |-> r, version |-> server[r].version, status |-> StatusOf(server[r])]

HasResult(a) == a.status \in {"succeeded", "awaiting_human"}

\* get_result: a checkpoint that is not fit is a 409.
ResultOf(r) == IF HasResult(Told(r)) /\ server[r].row.fit THEN Told(r) ELSE NoAnswer

\* GET /shorts/{id} and GET /shorts/{id}/result
Serve(i) ==
    LET t == ticks[i]
    IN  /\ t.at \in {"ask_status", "ask_result"}
        /\ ticks' = [ticks EXCEPT ![i] =
              [at |-> IF t.at = "ask_status" THEN "status" ELSE "result",
               visit |-> t.visit, run |-> t.run,
               answer |-> IF t.at = "ask_status" THEN Told(t.run) ELSE ResultOf(t.run)]]
        /\ UNCHANGED <<slow, server, route, visit, mount, page, decisions, sent, failures, history>>

\* POST /shorts/{id}/approve or /revise: 409 unless the checkpoint of the
\* execution awaits a decision, whatever the status says; else a new job.
ServeDecision(d) ==
    /\ d.at = "sent"
    /\ decisions' = (decisions \ {d}) \cup {[d EXCEPT !.at = "answered"]}
    /\ server' = IF server[d.run].row.review
                    THEN [server EXCEPT ![d.run].version = @ + 1, ![d.run].job = "open"]
                    ELSE server
    /\ UNCHANGED <<slow, route, visit, mount, ticks, page, sent, failures, history>>

-----------------------------------------------------------------------------
(***************************************************************************)
(* The page.                                                               *)
(***************************************************************************)

Open(v) == {i \in 1..MaxTicks : ticks[i] # NoTick /\ ticks[i].visit = v}

\* Mutant: the poll asks once.
Due_Once == ~answered /\ (slow \/ Open(visit) = {})

\* The interval fires; unless answers are slow the tick before has ended.
Due == slow \/ Open(visit) = {}

StartTick ==
    /\ route # Elsewhere
    /\ Due
    /\ \E i \in 1..MaxTicks :
          /\ ticks[i] = NoTick
          /\ ticks' = [ticks EXCEPT ![i] = [at |-> "ask_status", visit |-> visit, run |-> route]]
    /\ UNCHANGED <<slow, server, route, visit, mount, page, decisions, sent, failures, history>>

\* Mutant: the answer to a page that has gone is taken.
Current_Any(t) == route # Elsewhere

\* ~cancelled
Current(t) == route # Elsewhere /\ t.visit = visit

ShowStatus(i) ==
    LET t == ticks[i]
    IN  /\ t.at = "status"
        /\ \/ /\ ~Current(t)
              /\ ticks' = [ticks EXCEPT ![i] = NoTick]
              /\ UNCHANGED <<status, history>>
           \/ /\ Current(t)
              /\ status' = t.answer
              /\ answered' = TRUE
              /\ newest' = IF t.answer.version > newest THEN t.answer.version ELSE newest
              /\ ticks' = [ticks EXCEPT ![i] =
                    IF HasResult(t.answer)
                       THEN [at |-> "ask_result", visit |-> t.visit, run |-> t.run]
                       ELSE NoTick]
        /\ UNCHANGED <<slow, server, route, visit, mount, result, busy, decisions, sent, failures>>

\* A 409 takes the result away.
ShowResult(i) ==
    LET t == ticks[i]
    IN  /\ t.at = "result"
        /\ result' = IF Current(t) THEN t.answer ELSE result
        /\ ticks' = [ticks EXCEPT ![i] = NoTick]
        /\ UNCHANGED <<slow, server, route, visit, mount, status, busy, decisions, sent,
                       failures, history>>

\* Any other error is only told.
RequestFails(i) ==
    /\ ticks[i] # NoTick
    /\ failures < MaxFailures
    /\ failures' = failures + 1
    /\ ticks' = [ticks EXCEPT ![i] = NoTick]
    /\ UNCHANGED <<slow, server, route, visit, mount, page, decisions, sent, history>>

\* Mutant: the buttons stay in use while a decision is on its way.
Clickable_Busy == route # Elsewhere /\ status.status = "awaiting_human"

Clickable == route # Elsewhere /\ status.status = "awaiting_human" /\ ~busy

\* onApprove and onRevise: the decision is for the run of the address.
Decide ==
    /\ Clickable
    /\ sent < MaxDecisions
    /\ sent' = sent + 1
    /\ decisions' = decisions \cup
          {[at |-> "sent", id |-> sent', mount |-> mount, run |-> route]}
    /\ busy' = TRUE
    /\ UNCHANGED <<slow, server, route, visit, mount, ticks, status, result, failures, history>>

\* setBusy(false), which does nothing to a component that has gone.
DecisionEnds(d) ==
    /\ d.at = "answered"
    /\ decisions' = decisions \ {d}
    /\ busy' = (busy /\ (route = Elsewhere \/ d.mount # mount))
    /\ UNCHANGED <<slow, server, route, visit, mount, ticks, status, result, sent, failures, history>>

\* The hash changes: to another run of the same component, or away from it
\* and to a new one.
Navigate(r) ==
    /\ r # route
    /\ visit < MaxVisits
    /\ route' = r
    /\ visit' = visit + 1
    /\ IF r = Elsewhere \/ route = Elsewhere
          THEN /\ mount' = visit'
               /\ status' = NoAnswer /\ result' = NoAnswer /\ busy' = FALSE
          ELSE UNCHANGED <<mount, status, result, busy>>
    /\ answered' = FALSE /\ newest' = 0
    /\ UNCHANGED <<slow, server, ticks, decisions, sent, failures>>

Answers(i) == Serve(i) \/ ShowStatus(i) \/ ShowResult(i)

PageNext ==
    \/ StartTick
    \/ \E i \in 1..MaxTicks : Answers(i) \/ RequestFails(i)
    \/ Decide
    \/ \E d \in decisions : ServeDecision(d) \/ DecisionEnds(d)
    \/ \E r \in Run : Works(r)
    \/ \E r \in Run \cup {Elsewhere} : Navigate(r)

PageSpec == PageInit /\ [][PageNext]_pageVars

\* The interval keeps firing and the API keeps answering.  Neither the worker
\* nor the user has to do anything.
PageFairSpec ==
    /\ PageSpec
    /\ WF_pageVars(StartTick)
    /\ \A i \in 1..MaxTicks : WF_pageVars(Answers(i))

-----------------------------------------------------------------------------
(***************************************************************************)
(* Properties.                                                             *)
(***************************************************************************)

\* From the first answer of a visit on, the status on the page, and with it
\* the buttons, are of the run in its address, however many answers for other
\* runs are still on their way.
StatusOfItsRoute == answered => status.run = route

\* With answers faster than the interval, the page never shows an older answer
\* of the API than one it has shown, even where the API's own status goes back.
PageGoesForward == ~slow /\ answered => status.version = newest

\* With such answers, a status that comes with a result is shown with that
\* result or a newer one of the same run, once its tick is over.
ResultFollowsStatus ==
    /\ ~slow /\ failures = 0 /\ answered /\ Open(visit) = {}
    /\ HasResult(status) /\ result # NoAnswer
    => result.run = route /\ result.version >= status.version

\* A page sends one decision at a time, also when it has come to show another
\* run since; only a page that was left and opened again can send a second.
OneDecisionPerPage ==
    \A m \in 0..MaxVisits : Cardinality({d \in decisions : d.mount = m}) <= 1

\* What the page shows and sends, over all orders in which answers arrive and
\* the user goes from run to run.
PageInv ==
    /\ PageTypeOK
    /\ StatusOfItsRoute /\ PageGoesForward /\ ResultFollowsStatus /\ OneDecisionPerPage

\* However late and in whatever order the answers come: once the API has no
\* more news, a page that stays with a run comes to show for good what the API
\* tells of it, with the result where there is one, and without where not.
PageCatchesUp ==
    <>[][FALSE]_server =>
        \A r \in Run :
            <>[](route = r) =>
                <>[](status = Told(r) /\ (HasResult(status) => result = ResultOf(r)))

\* A decision is made on the status of the run it is for.
DecidesOnItsOwn == [][Decide => status.run = route]_pageVars

\* What is shown with the buttons is the script of the review they answer.
ReviewIsOfItsScript == [][Decide => result = status]_pageVars

\* No answer ever takes the page back to an older one.
PageNeverGoesBack == answered => status.version = newest

-----------------------------------------------------------------------------
(***************************************************************************)
(* The inductive invariant behind PageInv, part by part.                   *)
(***************************************************************************)

PageAssumption ==
    /\ Run # {} /\ Elsewhere \notin Run /\ MaxChanges \in [Run -> Nat]
    /\ {MaxTicks, MaxVisits, MaxFailures, MaxDecisions} \subseteq Nat

\* A component that is not busy has no decision of its own at work.
MountInv ==
    /\ mount <= visit
    /\ \A d \in decisions : d.mount <= mount
    /\ \A d, e \in decisions : d.mount = e.mount => d = e
    /\ route # Elsewhere /\ ~busy => \A d \in decisions : d.mount # mount

\* A call of tick() asks for the run of its visit; what it was told is of that
\* run, and not of a later version than the API has come to.
AnswerOf(i) ==
    ticks[i] # NoTick =>
        /\ ticks[i].visit <= visit
        /\ ticks[i].visit = visit => ticks[i].run = route
        /\ ticks[i].at = "status" => ticks[i].answer # NoAnswer
        /\ ticks[i].at \in {"status", "result"} /\ ticks[i].answer # NoAnswer =>
              /\ ticks[i].answer.run = ticks[i].run
              /\ ticks[i].answer.version <= Told(ticks[i].run).version

AnswerInv == \A i \in 1..MaxTicks : AnswerOf(i)

\* What is shown since the last change of the route.
ShownInv ==
    /\ answered => route \in Run /\ status # NoAnswer /\ status.run = route
    /\ ~answered => newest = 0
    /\ answered => newest <= Told(route).version

\* Answers faster than the interval: one tick of this visit at a time, whose
\* answer is not older than what is shown.
OneTick == \A i, j \in Open(visit) : i = j

AsksResult(i) == i \in Open(visit) /\ ticks[i].at \in {"ask_result", "result"}

NewerThanShown(i) ==
    /\ ticks[i].at \in {"ask_result", "result"} => answered \/ route = Elsewhere
    /\ ticks[i].at \in {"status", "result"} /\ ticks[i].answer # NoAnswer =>
          ticks[i].answer.version >= newest

\* Unless its tick is still to bring it, the result is not older than the status.
ResultIsThere ==
    /\ failures = 0 /\ answered /\ HasResult(status) /\ result # NoAnswer
    /\ \A i \in 1..MaxTicks : ~AsksResult(i)
    => result.run = route /\ result.version >= status.version

FastInv ==
    ~slow =>
        /\ OneTick
        /\ answered => status.version = newest
        /\ \A i \in Open(visit) : NewerThanShown(i)
        /\ ResultIsThere

PageIInv == PageTypeOK /\ MountInv /\ AnswerInv /\ ShownInv /\ FastInv
=============================================================================
