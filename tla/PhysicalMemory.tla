--------------------------- MODULE PhysicalMemory ---------------------------
(***************************************************************************)
(* The physical memory manager of the kernel, src/kernel/source/memory.c,  *)
(* after InstallPMM: first-fit allocation of runs of frames, the table of  *)
(* allocations that the manager keeps in frames of its own, and the bytes  *)
(* that its copies move.  The drivers are the environment: they call       *)
(* AllocatePhysicalMemory, ReallocatePhysicalMemory, ConcatMemory and      *)
(* FreePhysicalMemory, and write into the blocks they hold.                *)
(*                                                                         *)
(* The kernel calls the manager from its main flow only, never from an     *)
(* interrupt handler, so one call is one step.  SIZE_T is 32 bits wide:    *)
(* sums and roundings are taken modulo SizeMod.                            *)
(***************************************************************************)
EXTENDS Integers, Sequences, FiniteSets, FiniteSetsExt, SequencesExt

CONSTANTS
    FrameSize,      \* MEMORY_FRAME_SIZE, in bytes
    EntrySize,      \* sizeof(MEMORY_ALLOCATION_DATA), in bytes
    SizeMod,        \* 2^32, the modulus of SIZE_T
    MemTop,         \* the modelled memory is the bytes 0 .. MemTop - 1
    Regions,        \* the regions InstallPMM left: [Type, Data, Length], Data
                    \* being the address of the region's first data frame
    Value,          \* the bytes a driver writes
    EntryByte,      \* a byte of a table entry
    Garbage,        \* a byte nobody has written yet
    Request,        \* the sizes drivers ask for, in bytes
    MaxLive         \* bound: the live blocks drivers hold at once

ASSUME SizesAssumption ==
    /\ FrameSize \in Nat \ {0} /\ EntrySize \in Nat \ {0}
    /\ MemTop \in Nat /\ SizeMod \in Nat /\ MaxLive \in Nat

\* No driver asks for zero bytes, and no size is so large that rounding it up to
\* frames passes the top of SIZE_T.
ASSUME RequestAssumption ==
    /\ Request \subseteq 1 .. SizeMod - FrameSize
    /\ \A m, k \in Request : m + k <= SizeMod - FrameSize
    /\ EntrySize * MaxLive <= SizeMod - 2 * FrameSize

NULL == 0
USABLE == 1
RESERVED == 2
RECLAIMABLE == 3

ASSUME RegionsAssumption ==
    /\ Regions \in Seq([Type : {USABLE, RESERVED, RECLAIMABLE}, Data : Nat \ {0}, Length : Nat])
    /\ \A i \in 1 .. Len(Regions) : Regions[i].Data + Regions[i].Length * FrameSize <= MemTop
    \* the data frames of two regions do not overlap
    /\ \A i, j \in 1 .. Len(Regions) :
          i # j => \/ Regions[i].Data + Regions[i].Length * FrameSize <= Regions[j].Data
                   \/ Regions[j].Data + Regions[j].Length * FrameSize <= Regions[i].Data

Byte == Value \cup {EntryByte, Garbage}

\* The regions frames are taken from.
Allocatable == {i \in 1 .. Len(Regions) : Regions[i].Type \in {USABLE, RECLAIMABLE}}

\* A frame is named by its region and its index in the region's descriptors.
Frame == UNION {{i} \X (0 .. Regions[i].Length - 1) : i \in 1 .. Len(Regions)}

FrameAddress(f) == Regions[f[1]].Data + f[2] * FrameSize

VARIABLES
    descriptors,    \* the MEMORY_FRAME_DESCRIPTOR of every frame
    Allocations,    \* the table's first NumberOfAllocations entries
    AllocData,      \* the block the table is stored in, NoBlock at first
    memory          \* every byte of memory

vars == <<descriptors, Allocations, AllocData, memory>>

NoBlock == [DataAddress |-> NULL, DataSize |-> 0, RegionIndex |-> 0, FrameIndex |-> 0]

Block == [DataAddress : Nat, DataSize : Nat, RegionIndex : Nat, FrameIndex : Nat]

FirstFrame(b) == <<b.RegionIndex, b.FrameIndex>>

-----------------------------------------------------------------------------
\* Frames

\* Seeded faults: an operator whose name ends in _ and a word is a plausible wrong
\* version of the operator it precedes.  No specification uses it; it shows that
\* the properties tell the two versions apart.

AlignUp_Missing(value) == value % SizeMod

\* ALIGN_UP(value, MEMORY_FRAME_SIZE)
AlignUp(value) == (((value + FrameSize - 1) % SizeMod) \div FrameSize) * FrameSize

\* The frames of the run of "pages" frames that starts at frame j of region i.
Run(i, j, pages) == {i} \X (j .. j + pages - 1)

\* The frames a run of "pages" free frames can start at in the descriptors d.
Places(d, pages) ==
    {f \in Frame :
        /\ f[1] \in Allocatable
        /\ f[2] + pages <= Regions[f[1]].Length
        /\ \A g \in Run(f[1], f[2], pages) : d[g].Flags = 0}

\* The one the scan of the regions, and of each region's frames, meets first.
FirstFit(d, pages) ==
    LET region == Min({f[1] : f \in Places(d, pages)})
    IN <<region, Min({f[2] : f \in {g \in Places(d, pages) : g[1] = region}})>>

MarkBusy_HeadOnly(d, head, pages) ==
    [d EXCEPT ![head] = [BusyFramesCount |-> pages, Flags |-> 1]]

MarkBusy(d, head, pages) ==
    [f \in Frame |->
        [BusyFramesCount |-> IF f = head THEN pages ELSE d[f].BusyFramesCount,
         Flags |-> IF f \in Run(head[1], head[2], pages) THEN 1 ELSE d[f].Flags]]

\* The descriptors and the block after the call; NoBlock when nothing fits.
AllocatePhysicalFrames(d, bytesCount) ==
    LET size  == AlignUp(bytesCount)
        pages == size \div FrameSize
        head  == FirstFit(d, pages)
    IN IF Places(d, pages) = {}
       THEN [descriptors |-> d, block |-> NoBlock]
       ELSE [descriptors |-> MarkBusy(d, head, pages),
             block |-> [DataAddress |-> FrameAddress(head), DataSize |-> size,
                        RegionIndex |-> head[1], FrameIndex |-> head[2]]]

\* How many frames FreePhysicalFrames frees: what the head's descriptor says.
FramesCount(d, b) == IF b = NoBlock THEN 0 ELSE d[FirstFrame(b)].BusyFramesCount

FreePhysicalFrames_KeepsCount(d, b) ==
    IF b = NoBlock THEN d
    ELSE [f \in Frame |->
            [d[f] EXCEPT !.Flags =
                IF f \in Run(b.RegionIndex, b.FrameIndex, FramesCount(d, b)) THEN 0 ELSE @]]

FreePhysicalFrames(d, b) ==
    IF b = NoBlock THEN d
    ELSE [f \in Frame |->
            [BusyFramesCount |-> IF f = FirstFrame(b) THEN 0 ELSE d[f].BusyFramesCount,
             Flags |-> IF f \in Run(b.RegionIndex, b.FrameIndex, FramesCount(d, b))
                       THEN 0 ELSE d[f].Flags]]

-----------------------------------------------------------------------------
\* Bytes

\* What a read of address a finds; the memory beyond the model is garbage.
Read(m, a) == IF a \in 0 .. MemTop - 1 THEN m[a] ELSE Garbage

CopyMemory_OneMore(m, destination, source, count) ==
    [a \in 0 .. MemTop - 1 |->
        IF a \in destination .. destination + count
        THEN Read(m, source + (a - destination)) ELSE m[a]]

CopyMemory(m, destination, source, count) ==
    [a \in 0 .. MemTop - 1 |->
        IF a \in destination .. destination + count - 1
        THEN Read(m, source + (a - destination)) ELSE m[a]]

FillMemory(m, destination, value, count) ==
    [a \in 0 .. MemTop - 1 |->
        IF a \in destination .. destination + count - 1 THEN value ELSE m[a]]
-----------------------------------------------------------------------------
\* The table of allocations.  A state of the manager is a record with a field
\* for each variable, so that one call can build on another.

Current == [descriptors |-> descriptors, Allocations |-> Allocations,
            AllocData |-> AllocData, memory |-> memory]

TableSize_OneEntryLate(n) == AlignUp((EntrySize * Max({n - 1, 0})) % SizeMod)

\* The bytes that n entries of the table take, in whole frames.
TableSize(n) == AlignUp((EntrySize * n) % SizeMod)

\* The table moves to a block of bytesCount bytes: the new block is taken before
\* the old one is released, and as many bytes are copied as the OLD block has.
ReallocatePhysicalFrames(s, bytesCount) ==
    LET new    == AllocatePhysicalFrames(s.descriptors, bytesCount)
        moved  == CopyMemory(s.memory, new.block.DataAddress,
                             s.AllocData.DataAddress, s.AllocData.DataSize)
        freed  == FreePhysicalFrames(new.descriptors, s.AllocData)
    IN CASE new.block = NoBlock -> [ok |-> FALSE, s |-> s]
         [] new.block # NoBlock /\ s.AllocData = NoBlock ->
              [ok |-> TRUE, s |-> [s EXCEPT !.descriptors = new.descriptors, !.AllocData = new.block]]
         [] new.block # NoBlock /\ s.AllocData # NoBlock
                                /\ FramesCount(new.descriptors, s.AllocData) = 0 ->
              [ok |-> FALSE, s |-> [s EXCEPT !.descriptors = FreePhysicalFrames(freed, new.block),
                                             !.memory = moved]]
         [] OTHER ->
              [ok |-> TRUE, s |-> [s EXCEPT !.descriptors = freed, !.AllocData = new.block,
                                            !.memory = moved]]

\* The state after the call and the address it returns.
AllocatePhysicalMemory(s, count) ==
    LET n     == Len(s.Allocations)
        data  == AllocatePhysicalFrames(s.descriptors, count)
        taken == [s EXCEPT !.descriptors = data.descriptors]
        table == IF TableSize(n + 1) > TableSize(n)
                 THEN ReallocatePhysicalFrames(taken, TableSize(n + 1))
                 ELSE [ok |-> TRUE, s |-> taken]
        entry == table.s.AllocData.DataAddress + n * EntrySize
    IN CASE data.block = NoBlock -> [s |-> s, memory |-> NULL]
         [] data.block # NoBlock /\ ~table.ok ->
              [s |-> [table.s EXCEPT !.descriptors = FreePhysicalFrames(@, data.block)],
               memory |-> NULL]
         [] OTHER ->
              [s |-> [table.s EXCEPT !.Allocations = Append(@, data.block),
                                     !.memory = FillMemory(@, entry, EntryByte, EntrySize)],
               memory |-> data.block.DataAddress]

\* The entries whose block starts at "address".
EntriesAt(s, address) ==
    {i \in 1 .. Len(s.Allocations) : s.Allocations[i].DataAddress = address}

\* The first entry for the address leaves the table and its frames are released.
\* The branch that would move the table asks for a table that needs more room
\* with one entry less, which never happens: the table is never moved here.
FreePhysicalMemory(s, address) ==
    LET n      == Len(s.Allocations)
        i      == Min(EntriesAt(s, address))
        table  == s.AllocData.DataAddress
        closed == [s EXCEPT !.Allocations = RemoveAt(@, i),
                            !.memory = CopyMemory(@, table + (i - 1) * EntrySize,
                                                  table + i * EntrySize, EntrySize * (n - i))]
        shrunk == IF TableSize(n - 1) > TableSize(n)
                  THEN ReallocatePhysicalFrames(closed, TableSize(n - 1))
                  ELSE [ok |-> TRUE, s |-> closed]
    IN CASE EntriesAt(s, address) = {} -> s
         [] EntriesAt(s, address) # {} /\ ~shrunk.ok ->
              [shrunk.s EXCEPT !.Allocations = Append(@, s.Allocations[n])]
         [] OTHER ->
              [shrunk.s EXCEPT !.descriptors = FreePhysicalFrames(@, s.Allocations[i])]

\* The rest of ReallocatePhysicalMemory, after the new block was asked for.
MoveTo(new, address, count) ==
    IF new.memory = NULL \/ address = NULL THEN new.s
    ELSE FreePhysicalMemory(
            [new.s EXCEPT !.memory = CopyMemory(@, new.memory, address, count)], address)

ReallocatePhysicalMemory(s, address, count) ==
    MoveTo(AllocatePhysicalMemory(s, count), address, count)

\* The rest of ConcatMemory.
JoinIn_Over(new, first, second, firstSize, secondSize) ==
    IF new.memory = NULL THEN new
    ELSE [new EXCEPT !.s.memory =
            CopyMemory(CopyMemory(@, new.memory, first, firstSize), new.memory, second, secondSize)]

JoinIn(new, first, second, firstSize, secondSize) ==
    IF new.memory = NULL THEN new
    ELSE [new EXCEPT !.s.memory =
            CopyMemory(CopyMemory(@, new.memory, first, firstSize),
                       new.memory + firstSize, second, secondSize)]

ConcatMemory(s, first, second, firstSize, secondSize) ==
    JoinIn(AllocatePhysicalMemory(s, (firstSize + secondSize) % SizeMod),
           first, second, firstSize, secondSize)
-----------------------------------------------------------------------------
\* The drivers' calls

\* The block that starts at address a, for an address drivers hold.
BlockAt(a) == Allocations[Min(EntriesAt(Current, a))]

Live == {Allocations[i].DataAddress : i \in 1 .. Len(Allocations)}

Become(s) ==
    /\ descriptors' = s.descriptors
    /\ Allocations' = s.Allocations
    /\ AllocData' = s.AllocData
    /\ memory' = s.memory

Allocate(count) ==
    /\ Len(Allocations) < MaxLive
    /\ Become(AllocatePhysicalMemory(Current, count).s)

\* NULL asks for a first block, as pci.c:123 and ide.c:33 do.
Reallocate(address, count) ==
    /\ Len(Allocations) < MaxLive
    /\ address \in Live \cup {NULL}
    /\ Become(ReallocatePhysicalMemory(Current, address, count))

\* firstSize may be zero, with a NULL block, as in the first call of pci.c:29.
Concat(first, second, firstSize, secondSize) ==
    /\ Len(Allocations) < MaxLive
    /\ firstSize <= IF first = NULL THEN 0 ELSE BlockAt(first).DataSize
    /\ secondSize <= BlockAt(second).DataSize
    /\ Become(ConcatMemory(Current, first, second, firstSize, secondSize).s)

\* Any frame address, one that was freed before included.
Free(address) == Become(FreePhysicalMemory(Current, address))

\* A driver fills the block it holds.
Fill(address, value) ==
    /\ memory' = FillMemory(memory, address, value, BlockAt(address).DataSize)
    /\ UNCHANGED <<descriptors, Allocations, AllocData>>

Init ==
    /\ descriptors = [f \in Frame |-> [BusyFramesCount |-> 0, Flags |-> 0]]
    /\ Allocations = <<>>
    /\ AllocData = NoBlock
    /\ memory = [a \in 0 .. MemTop - 1 |-> Garbage]

Next ==
    \/ \E count \in Request : Allocate(count)
    \/ \E address \in Live \cup {NULL}, count \in Request : Reallocate(address, count)
    \/ \E first \in Live \cup {NULL}, second \in Live :
          \E firstSize \in Request \cup {0}, secondSize \in Request :
             Concat(first, second, firstSize, secondSize)
    \/ \E f \in Frame : Free(FrameAddress(f))
    \/ \E address \in Live, value \in Value : Fill(address, value)

Spec == Init /\ [][Next]_vars
-----------------------------------------------------------------------------
\* Properties

\* A block of whole frames, inside one allocatable region, at the address of
\* its first frame.
IsBlock(b) ==
    /\ FirstFrame(b) \in Frame
    /\ b.RegionIndex \in Allocatable
    /\ \E pages \in 1 .. Regions[b.RegionIndex].Length - b.FrameIndex :
          b.DataSize = pages * FrameSize
    /\ b.DataAddress = FrameAddress(FirstFrame(b))

\* Types of the variables; the blocks of the table and the table's own are runs of
\* frames that lie inside one region (memory.c:261-264).
TypeOK ==
    /\ descriptors \in [Frame -> [BusyFramesCount : Nat, Flags : {0, 1}]]
    /\ Allocations \in Seq(Block)
    /\ \A i \in 1 .. Len(Allocations) : IsBlock(Allocations[i])
    /\ AllocData \in Block
    /\ AllocData = NoBlock \/ IsBlock(AllocData)
    /\ memory \in [0 .. MemTop - 1 -> Byte]

\* The number of frames of a block, and the frames themselves.
Pages(b) == b.DataSize \div FrameSize
FramesOf(b) == Run(b.RegionIndex, b.FrameIndex, Pages(b))

\* No frame belongs to two blocks: not to two drivers, nor to a driver and to
\* the table (AllocatePhysicalFrames, memory.c:233-273, against every order of
\* calls that release frames).
BlocksDisjoint ==
    /\ \A i, j \in 1 .. Len(Allocations) :
          i # j => FramesOf(Allocations[i]) \cap FramesOf(Allocations[j]) = {}
    /\ \A i \in 1 .. Len(Allocations) : FramesOf(Allocations[i]) \cap FramesOf(AllocData) = {}

\* The blocks there are: the table's entries and the table's own block.
Blocks == {Allocations[i] : i \in 1 .. Len(Allocations)} \cup ({AllocData} \ {NoBlock})

\* The descriptors say what the table says, so that no path leaks a frame, the
\* failure of the table's growth (memory.c:162-165) and the release of the old
\* table (memory.c:279-285) included: a frame is busy exactly when a block has
\* it, and a run's length stands in its head and nowhere else.
Accounts(d, S) ==
    \A f \in Frame :
        /\ d[f].Flags = 1 <=> \E b \in S : f \in FramesOf(b)
        /\ \A b \in S : f = FirstFrame(b) => d[f].BusyFramesCount = Pages(b)
        /\ (\A b \in S : f # FirstFrame(b)) => d[f].BusyFramesCount = 0

FramesAccounted == Accounts(descriptors, Blocks)

\* The table's block has room for every entry, and the entries are still there:
\* no driver's write and no copy has fallen on them (memory.c:157-172).
TableIntact ==
    /\ Len(Allocations) * EntrySize <= AllocData.DataSize
    /\ \A x \in 0 .. Len(Allocations) * EntrySize - 1 :
          memory[AllocData.DataAddress + x] = EntryByte

\* The bytes of the block at address a.
Contents(a) == [x \in 0 .. BlockAt(a).DataSize - 1 |-> memory[a + x]]

Heap == INSTANCE FrameHeap
            WITH Handle <- {FrameAddress(f) : f \in Frame},
                 Size <- {pages * FrameSize : pages \in 1 .. MemTop},
                 Request <- Request \cup {m + k : m, k \in Request},
                 heap <- [a \in Live |-> Contents(a)]

\* The manager implements the heap of blocks: whatever the frames, the table and
\* its moves do, no call changes the bytes of a block other than the one it
\* releases, and a reallocation keeps the bytes asked for that the old block had.
ImplementsFrameHeap == Heap!Spec

\* A joined block holds the bytes of the first block, then those of the second,
\* although the table may grow and move in between (ConcatMemory, memory.c:189-199).
ConcatJoins ==
    [][\A first \in Live \cup {NULL}, second \in Live :
          \A m \in Request \cup {0}, k \in Request :
             /\ Concat(first, second, m, k) /\ Len(Allocations') > Len(Allocations)
             /\ AllocData'.DataSize >= AllocData.DataSize
             => LET joined == Allocations'[Len(Allocations')].DataAddress
                IN \A x \in 0 .. m + k - 1 :
                      memory'[joined + x] = IF x < m THEN memory[first + x]
                                                     ELSE memory[second + (x - m)]]_vars

\* The only thing that may change the bytes of a driver's block behind its back
\* is a move of the table to a block smaller than its old one, whose copy of the
\* old size (memory.c:280) then runs past the new block.
OnlyAShrinkingTableOverruns ==
    [][\/ AllocData'.DataSize < AllocData.DataSize
       \/ \E a \in Live, v \in Value : Fill(a, v)
       \/ \A i \in 1 .. Len(Allocations), j \in 1 .. Len(Allocations') :
             Allocations[i] = Allocations'[j] =>
                \A x \in 0 .. Allocations[i].DataSize - 1 :
                   LET a == Allocations[i].DataAddress + x IN memory'[a] = memory[a]]_vars
=============================================================================
