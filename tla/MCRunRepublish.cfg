SPECIFICATION Spec
CONSTANTS
    Runs = {r1}
    CallbackRuns = {r1}
    ForeignRuns = {}
    Workers = {w1, w2}
    Publishers = {w1, w2}
    NoWorker = NoWorker
    NoRun = NoRun
    Foreign = Foreign
    MaxAttempts = 2
    MaxVerifications = 2
    MaxFaults = 2
INVARIANT
    RecoveryRepublishes
