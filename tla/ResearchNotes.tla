--------------------------- MODULE ResearchNotes ---------------------------
(***************************************************************************)
(* The research node of one run (nodes.py) with what it may call: the      *)
(* tools of the shorts catalog (mcp_client.py), or the research agent of   *)
(* another process (a2a_research/), which calls the same tools.            *)
(*                                                                         *)
(* A tool call runs in a thread of its own.  Its caller stops waiting for  *)
(* the result after Timeout, but the `with` of the thread pool waits for   *)
(* the thread.  Time is a number of ticks; texts are left out.             *)
(***************************************************************************)
EXTENDS Naturals, FiniteSets

CONSTANTS
    Timeout,      \* mcp_tool_timeout_sec
    MaxLatency,   \* bound: a catalog query ends after that many ticks
    A2ATimeout    \* a2a_timeout_sec

ASSUME ResearchAssumption == {Timeout, MaxLatency, A2ATimeout} \subseteq Nat

Tool == {"search_shorts", "list_recent_shorts"}

VARIABLES
    settings,  \* as the environment has them
    node,      \* where research_node is
    tools,     \* the catalog calls of research_catalog_notes, wherever it runs
    peer,      \* the research agent
    waited,    \* ticks since the node has begun
    notes,     \* the tools whose hits the notes contain
    result,    \* what the node returns
    overdue    \* history: the tools whose call outlived the timeout

calls == <<tools, notes, overdue>>
researchVars == <<settings, node, calls, peer, waited, result>>

Settings == [a2a : BOOLEAN, required : BOOLEAN, catalog : BOOLEAN, allowed : SUBSET Tool]

Idle == [at |-> "idle", age |-> 0, late |-> FALSE]

ResearchTypeOK ==
    /\ settings \in Settings
    /\ node \in {"begin", "catalog", "asking", "done"}
    /\ tools \in [at : Tool \cup {"idle", "over"}, age : 0..MaxLatency, late : BOOLEAN]
    /\ peer \in {"idle", "working", "done"}
    /\ waited \in 0..(2 * MaxLatency + A2ATimeout)
    /\ notes \subseteq Tool
    /\ result \in [status : {"none", "RESEARCHING", "FAILED"},
                   research : {"none", "demo", "a2a", "empty"}, hits : SUBSET Tool]
    /\ overdue \subseteq Tool

ResearchInit ==
    /\ settings \in Settings
    /\ node = "begin"
    /\ tools = Idle
    /\ peer = "idle"
    /\ waited = 0
    /\ notes = {}
    /\ result = [status |-> "none", research |-> "none", hits |-> {}]
    /\ overdue = {}

-----------------------------------------------------------------------------
(***************************************************************************)
(* research_catalog_notes: one tool after the other.                       *)
(***************************************************************************)

FirstCall == [Idle EXCEPT !.at = IF settings.catalog THEN "search_shorts" ELSE "over"]

\* Mutant: a call that took too long is made again.
NextCall_Retry ==
    IF tools.late THEN [Idle EXCEPT !.at = tools.at]
    ELSE [Idle EXCEPT !.at = IF tools.at = "search_shorts" THEN "list_recent_shorts" ELSE "over"]

NextCall == [Idle EXCEPT !.at = IF tools.at = "search_shorts" THEN "list_recent_shorts" ELSE "over"]

Calling == tools.at \in Tool

\* A tool that is not on the allowlist is not called.
CallRefused ==
    /\ Calling
    /\ tools.at \notin settings.allowed
    /\ tools' = NextCall
    /\ UNCHANGED <<settings, node, peer, waited, notes, result, overdue>>

\* future.result(timeout) gives up.
CallTimesOut ==
    /\ Calling
    /\ tools.at \in settings.allowed
    /\ tools.age >= Timeout
    /\ ~tools.late
    /\ tools' = [tools EXCEPT !.late = TRUE]
    /\ overdue' = overdue \cup {tools.at}
    /\ UNCHANGED <<settings, node, peer, waited, notes, result>>

\* Mutant: the answer is used although its timeout is over.
Usable_Late == TRUE

Usable == ~tools.late

\* The thread ends: with hits, without, or by an exception.
CallEnds ==
    /\ Calling
    /\ tools.at \in settings.allowed
    /\ \E hits \in BOOLEAN :
          notes' = IF hits /\ Usable THEN notes \cup {tools.at} ELSE notes
    /\ tools' = NextCall
    /\ UNCHANGED <<settings, node, peer, waited, result, overdue>>

-----------------------------------------------------------------------------
(***************************************************************************)
(* research_node.                                                          *)
(***************************************************************************)

Return(status, research, hits) ==
    /\ node' = "done"
    /\ result' = [status |-> status, research |-> research, hits |-> hits]

Begin ==
    /\ node = "begin"
    /\ IF settings.a2a
          THEN node' = "asking" /\ UNCHANGED tools
          ELSE node' = "catalog" /\ tools' = FirstCall
    /\ UNCHANGED <<settings, peer, waited, notes, result, overdue>>

\* Without hits the notes are those of demo_research alone.
CatalogNotes ==
    /\ node = "catalog"
    /\ tools.at = "over"
    /\ Return("RESEARCHING", "demo", notes)
    /\ UNCHANGED <<settings, calls, peer, waited>>

\* The request reaches the agent: do_POST, produce_research.
PeerBegins ==
    /\ node = "asking"
    /\ peer = "idle"
    /\ peer' = "working"
    /\ tools' = FirstCall
    /\ UNCHANGED <<settings, node, waited, notes, result, overdue>>

\* A ResearchResponse; when the client has gone nobody reads it.
PeerAnswers ==
    /\ peer = "working"
    /\ tools.at = "over"
    /\ peer' = "done"
    /\ IF node = "asking" THEN Return("RESEARCHING", "a2a", notes) ELSE UNCHANGED <<node, result>>
    /\ UNCHANGED <<settings, calls, waited>>

\* Mutant: an agent that does not answer fails the run.
Degrade_Fail == Return("FAILED", "none", {})

\* Mutant: an agent that is not required is asked until it answers.
Degrade_AskAgain ==
    IF settings.required THEN Return("FAILED", "none", {})
    ELSE node' = "begin" /\ UNCHANGED result

\* _research_via_a2a: without its peer the run goes on with empty research,
\* unless the peer is required.
Degrade ==
    IF settings.required THEN Return("FAILED", "none", {}) ELSE Return("RESEARCHING", "empty", {})

\* A2AResearchError: no connection, a status of 400 and up, a malformed answer.
AskFails ==
    /\ node = "asking"
    /\ peer' \in {peer, IF peer = "working" /\ tools.at = "over" THEN "done" ELSE peer}
    /\ Degrade
    /\ UNCHANGED <<settings, calls, waited>>

\* urlopen gives up; the agent is not told.
AskTimesOut ==
    /\ node = "asking"
    /\ waited = A2ATimeout
    /\ Degrade
    /\ UNCHANGED <<settings, calls, peer, waited>>

\* Time goes by for whoever waits.  A timeout is not missed, and a query ends.
Tick ==
    /\ node \in {"catalog", "asking"}
    /\ node = "asking" => waited < A2ATimeout
    /\ Calling => tools.age < MaxLatency /\ (tools.age < Timeout \/ tools.late)
    /\ Calling \/ node = "asking"
    /\ waited' = waited + 1
    /\ tools' = IF Calling THEN [tools EXCEPT !.age = @ + 1] ELSE tools
    /\ UNCHANGED <<settings, node, peer, notes, result, overdue>>

Progress ==
    \/ CallRefused \/ CallTimesOut \/ CallEnds
    \/ Begin \/ CatalogNotes \/ PeerBegins \/ PeerAnswers \/ AskFails \/ AskTimesOut

ResearchNext == Progress \/ Tick

ResearchSpec == ResearchInit /\ [][ResearchNext]_researchVars

\* Threads run and time goes by; a query ends within its latency, so no step
\* is owed to it in particular.
ResearchFairSpec == ResearchSpec /\ WF_researchVars(ResearchNext)

-----------------------------------------------------------------------------
(***************************************************************************)
(* Properties.                                                             *)
(***************************************************************************)

\* "MCP must not break research" (nodes.py:48): only a peer that is required
\* and does not answer fails the node, whatever the tools do.
OnlyRequiredFails ==
    /\ result.status = "FAILED" => settings.a2a /\ settings.required
    /\ result.research = "empty" => settings.a2a

\* A hit of a call that outlived its timeout is in nobody's notes, neither in
\* the node's nor in those the agent sends, and none of a tool not allowed.
LateHitsAreDropped ==
    /\ notes \cap overdue = {}
    /\ result.hits \subseteq settings.allowed \ overdue

\* The node is no slower than its calls: two queries, or one answer.
BoundedByCalls ==
    waited <= IF settings.a2a THEN A2ATimeout ELSE 2 * MaxLatency

\* Slow tools, late hits and lost agents cost the run neither more than its
\* calls take nor, unless the agent is required, its research node.
ResearchInv == ResearchTypeOK /\ OnlyRequiredFails /\ LateHitsAreDropped /\ BoundedByCalls

\* The node ends, and with it the run can go on.
ResearchEnds == <>(node = "done")

\* "Client-side timeout per call" and "Timeout: cancel"
\* (docs/plans/12_phase_mcp_integration_940c4e9c.plan.md:171,181): two calls
\* take the node no longer than two timeouts.
BoundedByTimeouts ==
    ~settings.a2a => waited <= 2 * Timeout

-----------------------------------------------------------------------------
(***************************************************************************)
(* The inductive invariant.                                                *)
(***************************************************************************)

Unfinished == IF tools.late THEN {tools.at} ELSE {}

\* The tools are called in order, each once, and a late one is marked as such.
CallsInv ==
    /\ tools.at = "idle" => tools = Idle /\ notes = {} /\ overdue = {}
    /\ tools.at = "search_shorts" => notes = {} /\ overdue = Unfinished
    /\ tools.at = "list_recent_shorts" =>
          /\ notes \subseteq {"search_shorts"}
          /\ overdue \subseteq {"search_shorts"} \cup Unfinished
    /\ tools.at = "over" => ~tools.late
    /\ notes \subseteq settings.allowed
    /\ notes \cap overdue = {}

\* Either the node calls the tools or the agent does.
NodeInv ==
    /\ node = "begin" => tools.at = "idle" /\ peer = "idle" /\ waited = 0
    /\ node = "catalog" => ~settings.a2a
    /\ node = "asking" => settings.a2a
    /\ peer # "idle" => settings.a2a
    /\ settings.a2a /\ peer = "idle" => tools.at = "idle"
    /\ ~settings.a2a /\ node = "done" => tools.at = "over"
    /\ result.hits \subseteq notes

\* How long the calls until now can have taken.
WaitedSoFar ==
    CASE tools.at = "idle" -> 0
      [] tools.at = "search_shorts" -> tools.age
      [] tools.at = "list_recent_shorts" -> MaxLatency + tools.age
      [] tools.at = "over" -> 2 * MaxLatency

WaitInv == waited <= IF settings.a2a THEN A2ATimeout ELSE WaitedSoFar

ResearchIInv ==
    ResearchTypeOK /\ OnlyRequiredFails /\ CallsInv /\ NodeInv /\ WaitInv
=============================================================================
