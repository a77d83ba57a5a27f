SPECIFICATION Spec
CONSTANTS
    None = None
    Instances = {i1}
    Messages = {m1}
    Contents = {f1}
    Sizes = {1}
    MaxInputBytes = 1
    FaultKinds = {"database"}
    MaxFaults = 1
    RetryLimit = 1
SYMMETRY Symmetry
INVARIANTS StableResult
