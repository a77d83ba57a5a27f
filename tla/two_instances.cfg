SPECIFICATION Spec
CONSTANTS
    None = None
    Instances = {i1, i2}
    Messages = {m1}
    Contents = {f1, f2}
    Sizes = {1}
    MaxInputBytes = 1
    FaultKinds = {"crash", "shutdown", "listen", "deadline", "database"}
    MaxFaults = 2
    RetryLimit = 1
SYMMETRY Symmetry
INVARIANTS ExclusiveDelivery ResultMatchesStore
PROPERTIES SettledOutputFrozen
