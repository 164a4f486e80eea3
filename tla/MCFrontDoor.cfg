SPECIFICATION MCSpec
CONSTANTS
    c1 = c1
    c2 = c2
    k1 = k1
    empty = empty
    none = none
    r1 = r1
    r2 = r2
    r3 = r3
    nothing = nothing
    t1 = t1
    t2 = t2
    Client = {c1, c2}
    Key = {k1, empty}
    NoKey = none
    EmptyKey = empty
    Request = {r1, r2, r3}
    Nothing = nothing
    MaxCrashes = 1
    Thread = {t1, t2}
    Limit = 2
    Window = 4
    Second = 2
    MaxDelay = 1
    MaxClock = 7
    MaxIterations = 2
    MaxHumanRounds = 2
    Threshold = 70
    Feedback <- MCFeedback
    MaxMishaps = 2
INVARIANTS
    IntakeInv
    RateInv
    BriefInv
PROPERTIES
    KeepsPromise
    RequestsAreAnswered
    RefusedForGrants
    BriefImplementsPromise
CHECK_DEADLOCK FALSE
