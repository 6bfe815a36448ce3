SPECIFICATION FairSpec
CONSTANTS
    r1 = r1
    r2 = r2
    Configs <- MCConfigs
    Reqs <- MCReqs
    ShutdownTimeout = 1
CHECK_DEADLOCK FALSE
INVARIANTS
    TypeOK
    NeverServesUngated
    CutOnlyAtDeadline
    StoppedMeansClosed
PROPERTY StopsInTheEnd
