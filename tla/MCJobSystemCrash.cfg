SPECIFICATION FairSpec
CONSTANTS
    w1 = w1
    w2 = w2
    Worker = {w1}
    MaxJobs = 2
    MaxAttempts = 2
    MaxHumanRounds = 1
    EnvHitl = TRUE
    MaxCrashes = 1
    MaxFaults = 0
    MaxTimeouts = 0
PROPERTIES
    EveryJobSettles
CHECK_DEADLOCK FALSE
