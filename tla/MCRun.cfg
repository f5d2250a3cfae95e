SPECIFICATION FairSpec
CONSTANTS
    Runs = {r1}
    CallbackRuns = {r1}
    ForeignRuns = {r1}
    Workers = {w1, w2}
    Publishers = {w1}
    NoWorker = NoWorker
    NoRun = NoRun
    Foreign = Foreign
    MaxAttempts = 2
    MaxVerifications = 2
    MaxFaults = 2
INVARIANTS
    TypeOK
    CompletedIsPublished
    CanceledNeverPublished
    AtMostOneMerge
    ExactlyOneRecovery
    ExecutionBudget
    PublishersAgree
    StartNeverRefused
PROPERTIES
    TerminalIsFinal
    EveryRunEnds
    ImplementsContract
