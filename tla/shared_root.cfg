SPECIFICATION Spec
CONSTANTS
    Procs = {p1, p2}
    Roots <- UsualRoots
    MaxRuns = 3
    MaxFaults = 2
SYMMETRY Symmetry
INVARIANTS
    WorkDirsTypeOK
    UploadedIsHashed
    StaleReclaimed
    RefusedOnlyOutside
CHECK_DEADLOCK FALSE
