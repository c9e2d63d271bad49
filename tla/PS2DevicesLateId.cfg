\* The identification byte that a mouse sends after a reset comes a little later.
SPECIFICATION Spec
CONSTANTS
    FIRST = first
    SECOND = second
    NPOS = npos
    Values <- MCValues
    Attempts = 3
    Layouts <- MCUsual
    Circumstances <- MCSlow
INVARIANTS
    LateBytesAreNoFailure
CHECK_DEADLOCK FALSE
