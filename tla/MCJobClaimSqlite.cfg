SPECIFICATION Spec
CONSTANTS
    Worker = {w1, w2}
    Nobody = nobody
    NJobs = 2
    MaxAttempts = 2
    Outcome = {"succeeded", "failed", "awaiting_human"}
    Backend = "sqlite"
    MaxCrashes = 0
PROPERTIES
    ClaimIsAtomic
CHECK_DEADLOCK FALSE
