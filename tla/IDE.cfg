\* Disks and packet drives in every place; three calls that take up to two parts, of
\* addresses of each mode, and one failure.
SPECIFICATION Spec
CONSTANTS
    WordsPerSector = 2
    MaxPart = 2
    Wide = 8
    Heads = 2
    Sectors = 2
    Layouts <- MCLayouts
    Lbas = {0, 6, 9}
    Counts = {1, 3}
    MaxCalls = 3
    MaxFailures = 1
INVARIANTS
    TypeOK
PROPERTIES
    TransfersRight
    WaitsEnd
\* A packet read may wait for ever, and clients stop.
CHECK_DEADLOCK FALSE
