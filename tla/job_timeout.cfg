SPECIFICATION Spec
CONSTANTS
    None = None
    Instances = {i1}
    Messages = {m1}
    Contents = {f1}
    Sizes = {1}
    MaxInputBytes = 1
    FaultKinds = {"deadline"}
    MaxFaults = 2
    RetryLimit = 1
SYMMETRY Symmetry
INVARIANTS RetryableUntilResult
