SPECIFICATION Spec
CONSTANTS
    w1 = w1
    w2 = w2
    Worker = {w1}
    MaxJobs = 3
    MaxAttempts = 2
    MaxHumanRounds = 1
    EnvHitl = TRUE
    MaxCrashes = 0
    MaxFaults = 0
    MaxTimeouts = 0
PROPERTIES
    SeenIsDecided
CHECK_DEADLOCK FALSE
