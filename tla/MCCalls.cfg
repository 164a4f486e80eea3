SPECIFICATION MCSpec
CONSTANTS
    w1 = w1
    w2 = w2
    w3 = w3
    m1 = m1
    m2 = m2
    a = a
    b = b
    Worker = {w1, w2, w3}
    Nobody = nobody
    NJobs = 2
    MaxAttempts = 2
    Outcome = {"succeeded", "failed", "awaiting_human"}
    Backend = "postgresql"
    MaxCrashes = 2
    Model = {m1, m2}
    Empty = Empty
    LlmMaxAttempts = 2
    Timeout = 1
    BackoffBase = 2
    BackoffMax = 1
    MaxLatency = 2
    Configurations <- MCSettings
    Scripts <- MCScripts
    Markers = {"none", "reject", "retry_pass"}
    LiveVerdicts <- Verdicts
    Run = {a, b}
    Elsewhere = Elsewhere
    MaxChanges <- Changes
    MaxTicks = 2
    MaxVisits = 1
    MaxFailures = 1
    MaxDecisions = 2
INVARIANTS
    ClaimInv
    JudgeInv
    
PROPERTIES
    ImplementsBoard
    
CHECK_DEADLOCK FALSE
