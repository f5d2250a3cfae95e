SPECIFICATION ServiceLiveSpec
CONSTANTS
    Runs = {r1}
    CallbackRuns = {r1}
    ForeignRuns = {}
    Workers = {w1, w2}
    Publishers = {w1}
    Dispatchers = {d1, d2}
    Authorized = {d1, d2}
    NoWorker = NoWorker
    NoRun = NoRun
    NoDispatcher = NoDispatcher
    Foreign = Foreign
    MaxAttempts = 1
    MaxVerifications = 1
    MaxFaults = 1
    MaxDeliveryFaults = 2
INVARIANTS
    WakeupSeesOutcome
    DeliveredWasAccepted
    DuplicatesAreFaults
    EventFollowsLedger
PROPERTIES
    SettledIsFinal
    CallerIsWoken
