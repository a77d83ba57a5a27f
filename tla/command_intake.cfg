SPECIFICATION Spec
CONSTANTS
    Texts <- MCTexts
    Parse <- MCParse
    TrimSpace <- MCTrimSpace
    ObjectKey <- MCObjectKey
    MediaTypes <- MCMediaTypes
    Glb <- MCGlb
    Blank = ""
    Nil = Nil
    Percents <- AllPercents
    Thousandths <- HandThousandths
    MaxFlags = 4
    SomeJobs <- MCSomeJobs
    SomeEvents <- MCSomeEvents
INVARIANTS
    ArgsTypeOK
    OutputNeverSource
    EventsNameTheJob
    AcceptedIsRunnable
    RequestHonoured
    LoosenedOnlyBelowTen
    AcceptedIsConsistent
CHECK_DEADLOCK FALSE
