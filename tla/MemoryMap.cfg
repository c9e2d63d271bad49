\* Sixteen frames of four bytes, every overlap case, up to three BIOS entries, a kernel
\* of three sectors that are read in two parts.
SPECIFICATION BootSpec
CONSTANTS
    FrameSize = 4
    DescriptorSize = 1
    RegionSize = 1
    AddressMod = 64
    MemoryMapAddress = 14
    BiosMaps <- MCBiosMaps
    extraMemRegs <- MCExtra
    ArdSize = 2
    Reports <- MCReports
    SectorSize = 2
    MaxSectors = 2
    Heads = 2
    kernelSectorLba = 3
    BaseAddress = 8
    FileLengths = {5, 6}
    Segment = 64
    Paragraph = 4
INVARIANTS
    OnlyFreeMemory
    NoFrameIsLost
    KernelFindsWhatItNeeds
\* KernelMain goes on to other work when the regions are ready.
CHECK_DEADLOCK FALSE
