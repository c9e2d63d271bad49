\* One entry per frame of the table: it moves at every allocation, and shrinks with
\* blocks still live, so that its moves can overrun.
SPECIFICATION Spec
CONSTANTS
    FrameSize = 1
    EntrySize = 1
    SizeMod = 64
    MemTop = 10
    Regions <- MCRegionsOne
    Value = {v}
    EntryByte = entry
    Garbage = garbage
    Request = {1}
    MaxLive = 3
PROPERTIES
    OnlyAShrinkingTableOverruns
    ConcatJoins
