--------------------------- MODULE MCOfflineNodes ---------------------------
(***************************************************************************)
(* The nodes of the graph that need no model, for TLC: the writer and the  *)
(* judge with the offline producers, and the research node with what it    *)
(* calls.  Of the research the run takes the length alone, so a behaviour  *)
(* is about one of the two and the other one stands still in one state.    *)
(*                                                                         *)
(* Offline run: requests around every limit the lengths depend on (a body  *)
(* of 40 or 80 characters with and without notes, a hook cut at 28 or 40), *)
(* the scores the rubric can give, the default threshold 7.0, two attempts *)
(* and two rounds.  Research: every combination of settings, a query that  *)
(* may take thrice its timeout, an agent slower than its client's patience.*)
(***************************************************************************)
EXTENDS OfflineRun, ResearchNotes

VARIABLE part

MCScores == {35, 50, 76, 77, 78, 79, 80, 81, 82, 83, 84, 85}

\* The hypotheses of the theorems about OfflineRun (GraphRunsProofs).
ASSUME NodesAssumption == OfflineAssumption

RunIdle ==
    /\ request = [length |-> 10, marker |-> "none"] /\ research = 0
    /\ ~memory_context /\ ~hitl_required

NotesIdle == settings = [a2a |-> FALSE, required |-> FALSE, catalog |-> FALSE, allowed |-> {}]

MCInit ==
    /\ part \in {"offline", "research"}
    /\ OfflineInit /\ ResearchInit
    /\ part = "offline" => NotesIdle
    /\ part = "research" => RunIdle

MCNext ==
    /\ UNCHANGED part
    /\ \/ part = "offline" /\ OfflineNext /\ UNCHANGED researchVars
       \/ part = "research" /\ ResearchNext /\ UNCHANGED <<vars, offline>>

\* The fairness of ResearchNotes.
MCSpec ==
    /\ MCInit /\ [][MCNext]_<<part, vars, offline, researchVars>>
    /\ WF_researchVars(part = "research" /\ ResearchNext)

-----------------------------------------------------------------------------

\* Whatever the tools and the agent do, the research node returns (nodes.py).
NodeReturns == part = "research" => ResearchEnds
=============================================================================
