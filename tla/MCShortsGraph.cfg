SPECIFICATION MCSpec
CONSTANTS
    MaxIterations = 2
    MaxHumanRounds = 2
    Threshold = 2
    Scores <- MCScores
    MinScore = 2
    MaxRows = 2
    MaxCrashes = 1
    MaxFaults = 1
INVARIANTS
    TypeOK
    BestSoFar
    ReviewedScriptIsSettled
    BoundedWork
    RecordInv
    BestRowIsBest
    MemoryIsEarned
PROPERTIES
    FailureIsFinal
    ImplementsPromise
    UndisturbedRunEnds
    RecordedResultStays
CHECK_DEADLOCK FALSE
