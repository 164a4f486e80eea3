SPECIFICATION MCSpec
CONSTANTS
    MaxIterations = 2
    MaxHumanRounds = 1
    Threshold = 2
    Scores <- MCScores
    Cases = 2
    MaxRuns = 2
    MinScore = 1
    RequireApproved = TRUE
    MinPassDelta <- MCMinPassDelta
    MinQualityDelta <- MCMinQualityDelta
    MaxFailure = 1500
    MaxFailureDelta = 500
INVARIANTS
    ViewIsConsistent
    StatusIsTrue
    CasesAreCounted
    GateIsFair
PROPERTY EveryEvaluationEnds
CHECK_DEADLOCK FALSE
