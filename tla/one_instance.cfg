SPECIFICATION FairSpec
CONSTANTS
    None = None
    Instances = {i1}
    Messages = {m1}
    Contents = {f1}
    Sizes = {1, 2}
    MaxInputBytes = 1
    FaultKinds = {"crash", "shutdown", "listen", "boot", "deadline", "database", "encoding"}
    MaxFaults = 3
    RetryLimit = 1
INVARIANTS
    TypeOK
    AckedOnlyWithResult
    DeadLetterJustified
    ProgressAfterResult
    WorkDirsReclaimed
PROPERTIES
    EventuallySettled
    ShutdownCompletes
