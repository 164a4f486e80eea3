SPECIFICATION MCSpec
CONSTANTS
    w1 = w1
    w2 = w2
    Worker = {w1, w2}
    MaxJobs = 5
    MaxAttempts = 2
    MaxHumanRounds = 1
    EnvHitl = TRUE
    MaxCrashes = 2
    MaxFaults = 2
    MaxTimeouts = 2
INVARIANTS
    TypeOK
    ClaimedOnce
    HumanDecided
    TablesAreTrue
PROPERTIES
    SettledJobsStay
    OneWorkerKeepsPromise
    CalmSucceededStays
CHECK_DEADLOCK FALSE
