SPECIFICATION MCSpec
CONSTANTS
    MaxIterations = 2
    MaxHumanRounds = 1
    Threshold = 2
    Scores <- MCScores
    MinScore = 2
    MaxRows = 2
    MaxCrashes = 0
    MaxFaults = 1
INVARIANTS
    PauseIsVisible
CHECK_DEADLOCK FALSE
