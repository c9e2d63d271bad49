\* Two disks on one channel, of which the second is asked for.
SPECIFICATION Spec
CONSTANTS
    WordsPerSector = 1
    MaxPart = 2
    Wide = 8
    Heads = 2
    Sectors = 2
    Layouts <- MCTwoDisks
    Lbas = {2}
    Counts = {1}
    MaxCalls = 1
    MaxFailures = 0
PROPERTIES
    ReachesItsDrive
CHECK_DEADLOCK FALSE
