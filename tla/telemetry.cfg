SPECIFICATION TelemetrySpec
CONSTANTS
    None = None
    Instances = {i1}
    Messages = {m1}
    Contents = {f1}
    Sizes = {1, 2}
    MaxInputBytes = 1
    FaultKinds = {"crash", "shutdown", "listen", "boot", "deadline", "database", "encoding", "overrun"}
    MaxFaults = 2
    RetryLimit = 1
INVARIANTS
    OneOutcomePerDelivery
    JobRecordsMatchResults
    HandoffTruthful
PROPERTY EveryDeliveryReported
