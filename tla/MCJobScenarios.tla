--------------------------- MODULE MCJobScenarios ---------------------------
(***************************************************************************)
(* JobSystem for TLC, in three scenarios that bound it differently:        *)
(*   pair    two workers, a crash, a failing database call and a timeout;  *)
(*   single  one worker, a crash, two failing calls and a timeout;         *)
(*   calm    one worker and a database that works: four decisions, two     *)
(*           crashes, two timeouts.                                        *)
(* Some properties hold with one worker only, some only while the database *)
(* works: they say so by the scenario.                                     *)
(***************************************************************************)
EXTENDS JobSystem

CONSTANTS w1, w2

ASSUME ScenarioAssumption == w1 \in Worker

VARIABLE scenario

Scenarios ==
    [pair |-> [workers |-> {w1, w2}, jobs |-> 3, crashes |-> 1, faults |-> 1, timeouts |-> 1],
     single |-> [workers |-> {w1}, jobs |-> 3, crashes |-> 1, faults |-> 2, timeouts |-> 1],
     calm |-> [workers |-> {w1}, jobs |-> 5, crashes |-> 2, faults |-> 0, timeouts |-> 2]]

Within(bound) ==
    /\ job_count <= bound.jobs /\ crashes <= bound.crashes
    /\ faults <= bound.faults /\ timeouts <= bound.timeouts
    /\ \A k \in Worker \ bound.workers : At(k, "idle")

MCInit == Init /\ scenario \in DOMAIN Scenarios

MCNext ==
    /\ UNCHANGED scenario
    /\ Next
    /\ Within(Scenarios[scenario])'

MCSpec == MCInit /\ [][MCNext]_<<vars, scenario>>

-----------------------------------------------------------------------------

OneWorker == scenario # "pair"
Calm == scenario = "calm"

\* With one worker, what the tables call a success is a released and stored
\* result (DeliveredIsReal); and while no write fails, the API offers for
\* review what the thread waits on (PreviewIsCurrent).
TablesAreTrue ==
    /\ OneWorker => DeliveredIsReal
    /\ Calm => PreviewIsCurrent

\* Behind one worker every thread keeps the promise of ReviewedRun, step by
\* step (ThreadsKeepPromise; its threads start as the promise asks for).
OneWorkerKeepsPromise ==
    [][OneWorker => \A e \in ExecutionId : Run(e)!Next \/ UNCHANGED Run(e)!vars]_threads

\* With one worker and no failing write, a success that a client saw stays
\* (SucceededStays).
CalmSucceededStays ==
    [][Calm /\ job_count > 0 /\ ApiStatus = "succeeded" => ApiStatus' = "succeeded"]_vars
=============================================================================
