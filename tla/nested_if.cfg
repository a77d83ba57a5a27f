SPECIFICATION Spec
CONSTANTS
    MaxNodes = 5
    MaxFiles = 2
INVARIANTS
    NestedIfsReported
    PassMeansFlat
CHECK_DEADLOCK FALSE
