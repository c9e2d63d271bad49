--------------------------------- MODULE Boot ---------------------------------
(***************************************************************************)
(* The second stage of the boot loader, src/bootloader-main/source/main.c, *)
(* up to the kernel's use of what it leaves in memory, which MemoryMap     *)
(* models: it reads the kernel in parts through the BIOS, asks the BIOS    *)
(* for the memory map entry by entry, and hands over the map's address and *)
(* number of entries.                                                      *)
(*                                                                         *)
(* A step is one call of the BIOS.  A call fails or it does all it has to. *)
(***************************************************************************)
EXTENDS MemoryMap

CONSTANTS
    ArdSize,            \* sizeof(Ard), an entry of the BIOS
    Reports,            \* what the BIOS reports: [list, ending], where ending says
                        \* whether it marks the last entry ("zero") or lets the call
                        \* after it fail ("error"); no list ends before its first entry
    SectorSize,         \* 512
    MaxSectors,         \* MAX_SECTORS_COUNT_PER_OPERATION, 63, also the sectors of a track
    Heads,              \* 16
    kernelSectorLba,    \* where the kernel begins on the disk
    BaseAddress,        \* where the kernel is linked to, KERNEL_BASE_SEG_VALUE:0
    FileLengths,        \* of the kernel; each of them ends in the same sector
    Segment,            \* 2^16, the offsets in a segment
    Paragraph           \* 2^4, the distance of two segments

ASSUME LoaderAssumption ==
    /\ ArdSize \in Nat /\ RegionSize <= ArdSize     \* the kernel transforms the entries in place
    /\ SectorSize \in Nat \ {0} /\ MaxSectors \in Nat \ {0} /\ Heads \in Nat \ {0}
    /\ kernelSectorLba \in Nat /\ BaseAddress \in Nat /\ FileLengths \subseteq Nat
    /\ Segment \in Nat \ {0} /\ Paragraph \in Nat \ {0} /\ Segment % Paragraph = 0

ASSUME ReportsAssumption ==
    \A r \in Reports : /\ r.list \in Seq(MapEntry) /\ r.list # <<>> /\ r.ending \in {"zero", "error"}
                       /\ \A k \in 1 .. Len(r.list) : r.list[k].Length > 0

SectorsOf(length) == (length + SectorSize - 1) \div SectorSize

\* The kernel's end on a sector is where main.c:51-53 puts the map, and neither the kernel
\* nor the map passes the end of its segment, where AddValueToSegOff goes on one paragraph
\* later (segoff.c:4).
ASSUME KernelAssumption ==
    \A length \in FileLengths :
        /\ MemoryMapAddress = BaseAddress + SectorsOf(length) * SectorSize
        /\ (BaseAddress % Segment) + SectorsOf(length) * SectorSize <= Segment
        /\ \A r \in Reports : (MemoryMapAddress % Segment) + ArdSize * Len(r.list) < Segment

VARIABLES
    stage,          \* "load", "map", "kernel", or "stop": STOP_EXECUTION
    FileLength,     \* in the kernel's header
    at,             \* [seg, off] of ReadSectors, then of GetMemoryMap
    placed,         \* history: each sector that has been read, [lba, address]
    report,         \* what the BIOS reports
    prevOffset,
    table,          \* the entries in memory from MemoryMapAddress on
    entriesCount

loader == <<stage, FileLength, at, placed, report, prevOffset, table, entriesCount>>

-----------------------------------------------------------------------------

AddValueToSegOff(place, value) ==
    [seg |-> IF place.off >= Segment - value THEN place.seg + 1 ELSE place.seg,
     off |-> (place.off + value) % Segment]

Address(place) == place.seg * Paragraph + place.off

SegOff(address) == [seg |-> (address \div Segment) * (Segment \div Paragraph), off |-> address % Segment]

LbaToChs(value) ==
    LET tmp == value \div MaxSectors
    IN [sectorNumber |-> (value % MaxSectors) + 1, headIndex |-> tmp % Heads, cylinderIndex |-> tmp \div Heads]

\* The sector of the disk that the BIOS finds there.
LbaOf(chs) == (chs.cylinderIndex * Heads + chs.headIndex) * MaxSectors + chs.sectorNumber - 1

Sectors == SectorsOf(FileLength)

\* ReadSectorsLow for the next part, of MaxSectors or of the remainder.
Part == IF Sectors - Len(placed) >= MaxSectors THEN MaxSectors ELSE Sectors - Len(placed)

ReadPart ==
    /\ stage = "load" /\ Part > 0
    /\ LET first == LbaOf(LbaToChs(kernelSectorLba + Len(placed)))
       IN placed' = placed \o [k \in 1 .. Part |-> [lba     |-> first + k - 1,
                                                   address |-> Address(at) + (k - 1) * SectorSize]]
    /\ at' = AddValueToSegOff(at, MaxSectors * SectorSize)
    /\ UNCHANGED <<vars, stage, FileLength, report, prevOffset, table, entriesCount>>

Stop == stage' = "stop" /\ UNCHANGED <<vars, FileLength, at, placed, report, prevOffset, table, entriesCount>>

\* The header, a part, or the user's configuration after them cannot be read.
FailRead == stage = "load" /\ Stop

EndLoad ==
    /\ stage = "load" /\ Part = 0
    /\ stage' = "map" /\ at' = SegOff(BaseAddress + Sectors * SectorSize)
    /\ report' \in Reports
    /\ UNCHANGED <<vars, FileLength, placed, prevOffset, table, entriesCount>>

\* What is in memory where a failing call should have written: nobody has written there,
\* and the attributes have been set before the call.
Unwritten == [BaseAddress |-> 0, Length |-> 0, Type |-> 0, Extended |-> TRUE]

\* What the kernel is handed for a report is one of BiosMaps; it finds nothing before that.
ASSUME HandedAssumption ==
    {<<>>} \cup {IF r.ending = "zero" THEN r.list ELSE Append(r.list, Unwritten) : r \in Reports}
        \subseteq BiosMaps

\* GetMemoryMapElement: what it writes and what it returns, zero at the end.
Element(k) ==
    IF k < Len(report.list)
    THEN [entry |-> report.list[k + 1],
          next  |-> IF report.ending = "zero" /\ k + 1 = Len(report.list) THEN 0 ELSE k + 1]
    ELSE [entry |-> Unwritten, next |-> 0]

\* A first call that ends the list is an error, also when it has got an entry.
FirstElement ==
    /\ stage = "map" /\ table = <<>>
    /\ IF Element(0).next = 0 THEN Stop
       ELSE /\ table' = <<Element(0).entry>> /\ prevOffset' = Element(0).next
            /\ entriesCount' = entriesCount + 1
            /\ at' = AddValueToSegOff(at, ArdSize)
            /\ UNCHANGED <<vars, stage, FileLength, placed, report>>

Counted_NotLast(element) == IF element.next = 0 THEN 0 ELSE 1

\* The last call counts, also when it has failed.
Counted(element) == 1

NextElement ==
    /\ stage = "map" /\ table # <<>> /\ prevOffset # 0
    /\ LET element == Element(prevOffset)
       IN /\ table' = Append(table, element.entry) /\ prevOffset' = element.next
          /\ entriesCount' = entriesCount + Counted(element)
          /\ at' = IF element.next = 0 THEN at ELSE AddValueToSegOff(at, ArdSize)
    /\ UNCHANGED <<vars, stage, FileLength, placed, report>>

\* SwitchToProtectedMode: the kernel begins with the map it is given.
EnterKernel ==
    /\ stage = "map" /\ table # <<>> /\ prevOffset = 0
    /\ stage' = "kernel"
    /\ bios' = [k \in 1 .. entriesCount |-> table[k]]
    /\ UNCHANGED <<pc, regs, rmRegs, i, j, swapped, data,
                   FileLength, at, placed, report, prevOffset, table, entriesCount>>

BootInit ==
    /\ bios = <<>> /\ Init
    /\ stage = "load" /\ FileLength \in FileLengths
    /\ at = SegOff(BaseAddress) /\ placed = <<>>
    /\ report = [list |-> <<>>, ending |-> "error"]
    /\ prevOffset = 0 /\ table = <<>> /\ entriesCount = 0

BootNext ==
    \/ ReadPart \/ FailRead \/ EndLoad \/ FirstElement \/ NextElement \/ EnterKernel
    \/ stage = "kernel" /\ Next /\ UNCHANGED loader

BootSpec == BootInit /\ [][BootNext]_<<vars, loader>>

-----------------------------------------------------------------------------
\* Properties

\* The kernel starts only when every sector of it is where it was linked to, and the map
\* it then finds, in the number of entries that it is told, is all that the BIOS has
\* reported and nothing else that has a length, whichever way the BIOS ends the list
\* (main.c:25-54, disk.c:17-44, meminfo.c:6-17).
KernelFindsWhatItNeeds ==
    stage = "kernel" =>
        /\ placed = [k \in 1 .. Len(placed) |-> [lba     |-> kernelSectorLba + k - 1,
                                                 address |-> BaseAddress + (k - 1) * SectorSize]]
        /\ FileLength <= Len(placed) * SectorSize
        /\ Address(at) = MemoryMapAddress + ArdSize * (entriesCount - 1)
        /\ Len(report.list) <= Len(bios)
        /\ \A k \in 1 .. Len(bios) :
              IF k <= Len(report.list) THEN bios[k] = report.list[k] ELSE bios[k].Length = 0

=============================================================================
