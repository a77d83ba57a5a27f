SPECIFICATION Spec
CONSTANTS
    Lines <- MCLines
    MaxLines = 5
    ParseInt <- MCParseInt
    Split <- MCSplit
INVARIANTS
    CountsMatchReport
    DracoReported
CHECK_DEADLOCK FALSE
