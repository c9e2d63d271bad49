\* Up to two live blocks in frames of two one-byte entries: the table
\* never outgrows one frame.
SPECIFICATION Spec
CONSTANTS
    FrameSize = 2
    EntrySize = 1
    SizeMod = 64
    MemTop = 11
    Regions <- MCRegions
    Value = {v}
    EntryByte = entry
    Garbage = garbage
    Request = {1, 2, 3}
    MaxLive = 2
INVARIANTS
    TypeOK
    BlocksDisjoint
    FramesAccounted
    TableIntact
PROPERTIES
    ImplementsFrameHeap
