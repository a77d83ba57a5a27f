SPECIFICATION Spec
CONSTANTS
    None = None
    Instances = {i1, i2}
    Messages = {m1}
    Contents = {f1}
    Sizes = {1, 2}
    MaxInputBytes = 1
    FaultKinds = {"deadline", "overrun", "shutdown", "database", "disk"}
    MaxFaults = 2
    RetryLimit = 1
SYMMETRY Symmetry
INVARIANTS OneResultPerDelivery CompletedIsAccepted
PROPERTIES RefinesJobDelivery
