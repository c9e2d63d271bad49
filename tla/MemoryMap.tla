------------------------------ MODULE MemoryMap ------------------------------
(***************************************************************************)
(* How the kernel turns the BIOS memory map into the regions that physical *)
(* memory is allocated from: KernelMain calls TransformBIOSMemoryMap, cuts *)
(* the reserved ranges out with RemoveMemoryRegions, and InstallPMM cuts   *)
(* out the table of regions itself and lays the frame descriptors and the  *)
(* data frames of every region (src/kernel/source/kernel.c:7-26,           *)
(* memory.c:10-143).                                                       *)
(*                                                                         *)
(* The loops work in place on an array that shrinks, is sorted, and grows  *)
(* while it is walked: one iteration is one step.  The Length field of a   *)
(* region is only read after the last loop of RemoveMemoryRegions has set  *)
(* it from Size, so it is the operator FramesCount here.                   *)
(***************************************************************************)
EXTENDS Integers, Sequences

CONSTANTS
    FrameSize,          \* MEMORY_FRAME_SIZE
    DescriptorSize,     \* sizeof(MEMORY_FRAME_DESCRIPTOR)
    RegionSize,         \* sizeof(MEMORY_REGION_DESCRIPTOR)
    AddressMod,         \* 2^32, the modulus of SIZE_T
    BiosMaps,           \* the memory maps a BIOS may report
    extraMemRegs,       \* the ranges KernelMain reserves
    MemoryMapAddress    \* where the boot loader put the map: the kernel's end

ASSUME SizesAssumption ==
    /\ FrameSize \in Nat \ {0} /\ DescriptorSize \in Nat \ {0} /\ RegionSize \in Nat
    /\ AddressMod \in Nat /\ AddressMod % FrameSize = 0 /\ MemoryMapAddress \in 0 .. AddressMod - 1

USABLE == 1
RESERVED == 2
RECLAIMABLE == 3

Allocatable(reg) == reg.Type \in {USABLE, RECLAIMABLE}

Bytes(address, size) == address .. address + size - 1

\* An entry of a memory map, and a range of addresses in the form of a region.
MapEntry == [BaseAddress : Nat, Length : Nat, Type : Nat, Extended : BOOLEAN]

Region == [Address : Nat, Size : Nat, Type : Nat]

\* The entries of a map are disjoint, memory begins on a frame boundary, and none of
\* it ends at the very top of the address space (firmware is there).
ASSUME BiosAssumption ==
    \A map \in BiosMaps :
        /\ map \in Seq(MapEntry)
        /\ \A k \in 1 .. Len(map) :
              /\ \A l \in 1 .. Len(map) \ {k} :
                    \/ map[k].BaseAddress + map[k].Length <= map[l].BaseAddress
                    \/ map[l].BaseAddress + map[l].Length <= map[k].BaseAddress
              /\ Allocatable(map[k]) /\ map[k].BaseAddress < AddressMod =>
                    /\ map[k].BaseAddress % FrameSize = 0
                    /\ map[k].BaseAddress + map[k].Length < AddressMod

\* A reserved range starts on a frame boundary and may end anywhere.
ASSUME ReservedAssumption ==
    /\ extraMemRegs \in Seq(Region)
    /\ \A k \in 1 .. Len(extraMemRegs) :
          /\ extraMemRegs[k].Address % FrameSize = 0
          /\ extraMemRegs[k].Address + extraMemRegs[k].Size < AddressMod

\* There is room below the top of the address space for the array of regions, which has
\* at most one for each entry of the map, each reserved range and the array itself.
ASSUME RoomAssumption ==
    \A map \in BiosMaps :
        MemoryMapAddress + RegionSize * (Len(map) + Len(extraMemRegs) + 2) < AddressMod

VARIABLES
    pc,         \* the loop KernelMain is in; "removeMap" is that of InstallPMM's call
    bios,       \* the map the BIOS reported
    regs,       \* the array of regions
    rmRegs,     \* the ranges RemoveMemoryRegions is removing
    i, j,       \* the indices of the loop, from 1
    swapped,    \* the flag of the sort
    data        \* the address of each region's first data frame

vars == <<pc, bios, regs, rmRegs, i, j, swapped, data>>

-----------------------------------------------------------------------------
\* Rounding

AlignUp(value) == (((value + FrameSize - 1) % AddressMod) \div FrameSize) * FrameSize

AlignDown(value) == (value \div FrameSize) * FrameSize

\* The frames of a region: each takes a descriptor and its data.
FramesCount(reg) == reg.Size \div (DescriptorSize + FrameSize)

-----------------------------------------------------------------------------
\* TransformBIOSMemoryMap

\* An entry below the top of the address space, cut there, in whole frames; without
\* the extended attribute its type does not count and it is reserved.
Transformed(ard) ==
    LET end  == ard.BaseAddress + ard.Length
        size == IF end > AddressMod THEN AddressMod - ard.BaseAddress ELSE ard.Length
    IN [Address |-> AlignUp(ard.BaseAddress),
        Size    |-> AlignDown(size % AddressMod),
        Type    |-> IF ard.Extended THEN ard.Type ELSE RESERVED]

TransformEntry ==
    /\ pc = "transform" /\ i <= Len(bios)
    /\ regs' = IF bios[i].BaseAddress >= AddressMod \/ Transformed(bios[i]).Size = 0
               THEN regs
               ELSE Append(regs, Transformed(bios[i]))
    /\ i' = i + 1
    /\ UNCHANGED <<pc, bios, rmRegs, j, swapped, data>>

BeginSort ==
    /\ pc = "transform" /\ i > Len(bios)
    /\ pc' = "sort" /\ i' = 1 /\ j' = 1 /\ swapped' = FALSE
    /\ UNCHANGED <<bios, regs, rmRegs, data>>

CompareNeighbours ==
    /\ pc = "sort" /\ i < Len(regs) /\ j <= Len(regs) - i
    /\ LET swap == regs[j].Address >= regs[j + 1].Address
       IN /\ regs' = IF swap THEN [regs EXCEPT ![j] = regs[j + 1], ![j + 1] = regs[j]] ELSE regs
          /\ swapped' = (swapped \/ swap)
    /\ j' = j + 1
    /\ UNCHANGED <<pc, bios, rmRegs, i, data>>

\* The outer loop is over, or the pass that ends swapped nothing.
Sorted == i >= Len(regs) \/ (j > Len(regs) - i /\ ~swapped)

NextPass ==
    /\ pc = "sort" /\ ~Sorted /\ j > Len(regs) - i
    /\ i' = i + 1 /\ j' = 1 /\ swapped' = FALSE
    /\ UNCHANGED <<pc, bios, regs, rmRegs, data>>

EndSort ==
    /\ pc = "sort" /\ Sorted
    /\ pc' = "remove" /\ rmRegs' = extraMemRegs /\ i' = 1 /\ j' = 1
    /\ UNCHANGED <<bios, regs, swapped, data>>

-----------------------------------------------------------------------------
\* RemoveMemoryRegions

End(reg) == (reg.Address + reg.Size) % AddressMod

\* GetMemoryRegionOverlapType, whose cases overlap: the first that holds is taken.
OverlapType(reg, ovl) ==
    LET start == reg.Address    end == End(reg)
        ovlStart == ovl.Address ovlEnd == End(ovl)
    IN IF ovlStart <= start /\ ovlEnd > start /\ ovlEnd < end THEN "start"
       ELSE IF ovlStart < end /\ ovlStart > start /\ ovlEnd >= end THEN "end"
       ELSE IF ovlStart >= start /\ ovlEnd <= end THEN "inside"
       ELSE IF ovlStart <= start /\ ovlEnd >= end THEN "outside"
       ELSE "none"

Left(reg, rm) == [reg EXCEPT !.Size = (rm.Address - reg.Address) % AddressMod]

Right_KeepsSize(reg, rm) == [reg EXCEPT !.Address = End(rm)]

Right(reg, rm) ==
    [reg EXCEPT !.Address = End(rm), !.Size = (End(reg) - End(rm)) % AddressMod]

Reserved(reg) == [reg EXCEPT !.Type = RESERVED]

Overlap(reg, rm) == IF rm.Size = 0 THEN "none" ELSE OverlapType(reg, rm)

Cut_NoSplit(reg, rm) ==
    CASE Overlap(reg, rm) = "none"              -> <<reg>>
      [] Overlap(reg, rm) = "start"             -> <<Right(reg, rm)>>
      [] Overlap(reg, rm) \in {"end", "inside"} -> <<Left(reg, rm)>>
      [] Overlap(reg, rm) = "outside"           -> <<Reserved(reg)>>

\* The regions that take the place of reg when rm is cut out of it.
Cut(reg, rm) ==
    CASE Overlap(reg, rm) = "none"    -> <<reg>>
      [] Overlap(reg, rm) = "start"   -> <<Right(reg, rm)>>
      [] Overlap(reg, rm) = "end"     -> <<Left(reg, rm)>>
      [] Overlap(reg, rm) = "inside"  -> <<Left(reg, rm), Right(reg, rm)>>
      [] Overlap(reg, rm) = "outside" -> <<Reserved(reg)>>

Removing == pc \in {"remove", "removeMap"}

\* The type is looked at before the loop over the ranges, not in it: a region that
\* "outside" has made reserved is still compared with the ranges that follow.
SkipRegion ==
    /\ Removing /\ i <= Len(regs) /\ j = 1 /\ ~Allocatable(regs[i])
    /\ i' = i + 1
    /\ UNCHANGED <<pc, bios, regs, rmRegs, j, swapped, data>>

\* The right part of a split moves the rest of the array up and is met at i + 1.
RemoveRange ==
    /\ Removing /\ i <= Len(regs) /\ j <= Len(rmRegs)
    /\ j > 1 \/ Allocatable(regs[i])
    /\ regs' = SubSeq(regs, 1, i - 1) \o Cut(regs[i], rmRegs[j]) \o SubSeq(regs, i + 1, Len(regs))
    /\ j' = j + 1
    /\ UNCHANGED <<pc, bios, rmRegs, i, swapped, data>>

NextRegion ==
    /\ Removing /\ i <= Len(regs) /\ j > Len(rmRegs)
    /\ i' = i + 1 /\ j' = 1
    /\ UNCHANGED <<pc, bios, regs, rmRegs, swapped, data>>

Aligned(reg) == [reg EXCEPT !.Address = AlignUp(@), !.Size = AlignDown(@)]

\* memMapReg of InstallPMM: the array itself, with room for two entries more.
MapRegion(count) ==
    [Address |-> MemoryMapAddress, Size |-> RegionSize * (count + 2), Type |-> RESERVED]

\* The last loop of RemoveMemoryRegions.
AlignRegions == regs' = [k \in 1 .. Len(regs) |-> Aligned(regs[k])]

\* KernelMain's call is followed by InstallPMM's, which removes the array.
EndRemove ==
    /\ pc = "remove" /\ i > Len(regs) /\ AlignRegions
    /\ pc' = "removeMap" /\ rmRegs' = <<MapRegion(Len(regs))>> /\ i' = 1 /\ j' = 1
    /\ UNCHANGED <<bios, swapped, data>>

EndRemoveMap ==
    /\ pc = "removeMap" /\ i > Len(regs) /\ AlignRegions
    /\ pc' = "install"
    /\ UNCHANGED <<bios, rmRegs, i, j, swapped, data>>

-----------------------------------------------------------------------------
\* The rest of InstallPMM: the data frames follow the descriptors, on a boundary.

FirstData(reg) == reg.Address + AlignUp(FramesCount(reg) * DescriptorSize)

Install ==
    /\ pc = "install"
    /\ data' = [k \in 1 .. Len(regs) |-> FirstData(regs[k])]
    /\ pc' = "done"
    /\ UNCHANGED <<bios, regs, rmRegs, i, j, swapped>>

Init ==
    /\ pc = "transform" /\ bios \in BiosMaps
    /\ regs = <<>> /\ rmRegs = <<>> /\ data = <<>>
    /\ i = 1 /\ j = 1 /\ swapped = FALSE

Next ==
    \/ TransformEntry \/ BeginSort
    \/ CompareNeighbours \/ NextPass \/ EndSort
    \/ SkipRegion \/ RemoveRange \/ NextRegion \/ EndRemove \/ EndRemoveMap
    \/ Install

Spec == Init /\ [][Next]_vars

-----------------------------------------------------------------------------
\* Properties

\* The memory the BIOS offers in entry k, and the memory that is taken: the reserved
\* ranges, and the entries the array of regions really has at the end.
Offered(k) ==
    IF bios[k].Extended /\ Allocatable(bios[k])
    THEN Bytes(bios[k].BaseAddress, bios[k].Length) \cap (0 .. AddressMod - 1)
    ELSE {}

Taken ==
    Bytes(MemoryMapAddress, RegionSize * Len(regs))
        \cup UNION {Bytes(extraMemRegs[k].Address, extraMemRegs[k].Size) : k \in 1 .. Len(extraMemRegs)}

Usable == {k \in 1 .. Len(regs) : Allocatable(regs[k])}

\* What the allocator writes in region k: its descriptors, and its data frames.
Descriptors(k) == Bytes(regs[k].Address, FramesCount(regs[k]) * DescriptorSize)

DataFrames(k) == Bytes(data[k], FramesCount(regs[k]) * FrameSize)

\* Everything the allocator will write lies in memory the BIOS offered, and neither in
\* the kernel, the BIOS data areas and the other reserved ranges, nor in the array of
\* regions: the overlap cases and the separate rounding of address and size leave no
\* byte of a reserved range in a region (memory.c:86-143).  Nothing is in two regions:
\* sorting and splitting leave them apart and in the order of their addresses, descriptors
\* and data included, so that the first fit is the lowest one (memory.c:64-81, 124-131, 19-33).
OnlyFreeMemory ==
    pc = "done" =>
        \A k \in Usable :
            /\ Descriptors(k) \cup DataFrames(k) \subseteq UNION {Offered(l) : l \in 1 .. Len(bios)}
            /\ (Descriptors(k) \cup DataFrames(k)) \cap Taken = {}
            /\ FramesCount(regs[k]) > 0 => data[k] % FrameSize = 0
            /\ Descriptors(k) \cap DataFrames(k) = {}
            /\ \A l \in Usable :
                  k < l => \A a \in Descriptors(k) \cup DataFrames(k) :
                              \A b \in Descriptors(l) \cup DataFrames(l) : a < b

\* Cutting and rounding lose no memory: every whole frame of an offered entry that
\* meets no removed range is in a region the allocator uses (memory.c:100-143).
NoFrameIsLost ==
    pc = "done" =>
        \A f \in 0 .. AddressMod \div FrameSize - 1 :
            LET frame == Bytes(f * FrameSize, FrameSize)
                removed == Taken \cup Bytes(MemoryMapAddress, rmRegs[1].Size)
            IN (frame \cap removed = {} /\ \E l \in 1 .. Len(bios) : frame \subseteq Offered(l))
               => \E k \in Usable : frame \subseteq Bytes(regs[k].Address, regs[k].Size)

=============================================================================
