SPECIFICATION Spec
CONSTANTS
    w1 = w1
    w2 = w2
    Worker = {w1}
    MaxJobs = 2
    MaxAttempts = 2
    MaxHumanRounds = 1
    EnvHitl = FALSE
    MaxCrashes = 0
    MaxFaults = 0
    MaxTimeouts = 0
INVARIANTS
    HumanDecided
CHECK_DEADLOCK FALSE
