SPECIFICATION MCSpec
CONSTANTS
    MaxIterations = 2
    MaxHumanRounds = 2
    Threshold = 70
    Scores <- MCScores
    RequestLengths = {1, 10, 11, 28, 41, 51}
    ResearchLengths = {0, 200}
    Timeout = 1
    MaxLatency = 3
    A2ATimeout = 4
INVARIANTS
    OfflineInv
    ResearchInv
PROPERTIES
    NodeReturns
CHECK_DEADLOCK FALSE
