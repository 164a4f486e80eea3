SPECIFICATION SteadySpec
CONSTANTS
    w1 = w1
    w2 = w2
    Worker = {w1, w2}
    MaxJobs = 3
    MaxAttempts = 2
    MaxHumanRounds = 1
    EnvHitl = TRUE
    MaxCrashes = 0
    MaxFaults = 1
    MaxTimeouts = 1
PROPERTIES
    EveryJobSettles
CHECK_DEADLOCK FALSE
