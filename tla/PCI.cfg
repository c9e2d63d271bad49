\* Memory that the larger machines exhaust in the enumeration or in the drivers; no bus is empty
\* behind its bridge.
SPECIFICATION DriversSpec
CONSTANTS
    FrameSize = 8
    EntrySize = 1
    SizeMod = 1024
    MemTop = 113
    Regions <- MCRegions
    Value = {}
    EntryByte = entry
    Garbage = garbage
    Request = {}
    MaxLive = 0
    Buses = 3
    Slots = 3
    Functions = 3
    HostBuses = 2
    Machines <- MCOccupied
    Drives <- MCDrives
INVARIANTS
    EnumerationTypeOK
    ListIsRight
    ListsAreHeld
    OnlyReplacedListsLeak
    ControllersKept
\* KernelMain goes on when it has read from the drives.
CHECK_DEADLOCK FALSE
