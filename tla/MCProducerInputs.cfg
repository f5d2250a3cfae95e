SPECIFICATION Spec
CONSTANTS
    r1 = r1
    r2 = r2
    r3 = r3
    None = None
    Requests <- MCRequests
    DefenseLocator <- MCDefenseLocator
    CheckLocator <- MCCheckLocator
    Published <- MCPublished
    Rewritten <- MCRewritten
    Rooted <- MCRooted
    Registered <- MCRegistered
    Timeouts = {30}
    Latencies = {1, 40}
    UpstreamMode = TRUE
    MaxAttempts = 2
    MaxRewrites = 1
CHECK_DEADLOCK FALSE
INVARIANTS
    HydratedIsNamed
    SoundIsNotRefused
    VerdictsStandOnReads
    NothingInlineRuns
