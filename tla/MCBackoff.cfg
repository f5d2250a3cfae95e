SPECIFICATION Spec
CONSTANTS
    Dispatchers = {d1, d2}
    NoDispatcher = NoDispatcher
    d1 = d1
    d2 = d2
    Second = 5
    Limit = 64
    Schedule <- MCSchedule
    LastDelay = 3
    Lease = 2
    Headers <- MCHeaders
    MaxClaims = 4
CHECK_DEADLOCK FALSE
SYMMETRY MCSymmetry
INVARIANT ScheduleIsKept
PROPERTY QuietIsKept
