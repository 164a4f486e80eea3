--------------------------- MODULE MCShortsGraph ---------------------------
(***************************************************************************)
(* One run of the Shorts graph, for TLC: alone, or with the rows and the   *)
(* memory it leaves (RunRecord).  A run that is alone has one undisturbed  *)
(* process, and its record stands still.                                   *)
(*                                                                         *)
(* Two attempts and two review rounds; scores below, at and above the      *)
(* threshold and the memory minimum (two that pass, so that an approved    *)
(* script need not be the best); with a record, a finished thread that is  *)
(* finalized twice, and the crashes and failing writes each .cfg allows.   *)
(***************************************************************************)
EXTENDS RunRecord

VARIABLE part

MCScores == {1, 2, 3}

MCInit == RecordInit /\ part \in {"graph", "record"}

MCNext ==
    /\ UNCHANGED part
    /\ \/ part = "graph" /\ Next /\ UNCHANGED <<doing, record>>
       \/ part = "record" /\ RecordNext

\* The fairness of ShortsGraph.
MCSpec ==
    /\ MCInit /\ [][MCNext]_<<part, vars, doing, record>>
    /\ WF_vars(part = "graph" /\ Step)

-----------------------------------------------------------------------------

\* A run whose reviewer answers ends (AnsweredRunEnds), in a process that is
\* not disturbed.
UndisturbedRunEnds == part = "graph" => AnsweredRunEnds
=============================================================================
