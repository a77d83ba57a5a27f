SPECIFICATION Spec
CONSTANTS
    Procs = {p1}
    Roots <- BareRoots
    MaxRuns = 1
    MaxFaults = 0
INVARIANT RefusedOnlyOutside
CHECK_DEADLOCK FALSE
