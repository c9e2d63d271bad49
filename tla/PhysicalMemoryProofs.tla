------------------------ MODULE PhysicalMemoryProofs ------------------------
(***************************************************************************)
(* What TLAPS proves of PhysicalMemory, for all regions, sizes and         *)
(* requests: the typing of the state, that blocks never share a frame, and *)
(* that the descriptors account for exactly the blocks of the table; then, *)
(* of the bytes that move, that the table of allocations stays intact,     *)
(* that the only call that can change a block behind its owner's back is   *)
(* one that moves the table to a smaller block, and that in all other      *)
(* behaviours the manager implements FrameHeap.                            *)
(***************************************************************************)
EXTENDS PhysicalMemory, WellFoundedInduction, SequenceTheorems, TLAPS

-----------------------------------------------------------------------------
\* Arithmetic

LEMMA DivMul ==
    ASSUME NEW a \in Nat, NEW c \in Nat \ {0}
    PROVE  (a * c) \div c = a
  BY SMT

LEMMA DivBounds ==
    ASSUME NEW x \in Nat, NEW c \in Nat \ {0}
    PROVE  /\ x \div c \in Nat
           /\ (x \div c) * c <= x
           /\ x < (x \div c) * c + c
  BY SMT

LEMMA DivMonotone ==
    ASSUME NEW x \in Nat, NEW y \in Nat, NEW c \in Nat \ {0}, x <= y
    PROVE  x \div c <= y \div c
  BY SMT

LEMMA ModSmall ==
    ASSUME NEW x \in Nat, NEW m \in Nat, x < m
    PROVE  x % m = x
  BY SMT

\* Rounding up to frames neither loses bytes nor adds a whole frame.
LEMMA AlignUpRounds ==
    ASSUME NEW x \in 0 .. SizeMod - FrameSize
    PROVE  /\ AlignUp(x) \div FrameSize \in Nat
           /\ AlignUp(x) = (AlignUp(x) \div FrameSize) * FrameSize
           /\ x <= AlignUp(x) /\ AlignUp(x) < x + FrameSize
  <1> DEFINE y == x + FrameSize - 1
             q == y \div FrameSize
  <1>1. y \in Nat /\ y < SizeMod /\ FrameSize \in Nat \ {0} /\ SizeMod \in Nat
    BY SizesAssumption
  <1>2. y % SizeMod = y
    BY <1>1, ModSmall
  <1>3. q \in Nat /\ q * FrameSize <= y /\ y < q * FrameSize + FrameSize
    BY <1>1, DivBounds
  <1>4. AlignUp(x) = q * FrameSize
    BY <1>2 DEF AlignUp
  <1>5. AlignUp(x) \div FrameSize = q
    BY <1>1, <1>3, <1>4, DivMul
  <1>6. x <= q * FrameSize /\ q * FrameSize < x + FrameSize
    <2> HIDE DEF q
    <2>1. q * FrameSize \in Int
      BY <1>1, <1>3
    <2>2. x \in Int
      OBVIOUS
    <2> DEFINE z == q * FrameSize
    <2>3. z \in Int /\ z <= x + FrameSize - 1 /\ x + FrameSize - 1 < z + FrameSize
      BY <1>3, <2>1
    <2> HIDE DEF z
    <2>4. x <= z /\ z < x + FrameSize
      BY <1>1, <2>2, <2>3
    <2> QED
      BY <2>4 DEF z
  <1> QED
    BY <1>3, <1>4, <1>5, <1>6

\* A non-empty request takes at least one frame.
LEMMA PagesPositive ==
    ASSUME NEW x \in 1 .. SizeMod - FrameSize
    PROVE  AlignUp(x) \div FrameSize \in Nat \ {0}
  <1> DEFINE p == AlignUp(x) \div FrameSize
  <1>1. p \in Nat /\ AlignUp(x) = p * FrameSize /\ x <= AlignUp(x)
    <2>1. x \in 0 .. SizeMod - FrameSize
      BY SizesAssumption
    <2> QED
      BY <2>1, AlignUpRounds
  <1>2. CASE p = 0
    <2>1. AlignUp(x) = 0
      BY <1>1, <1>2, SizesAssumption
    <2> QED
      BY <1>1, <2>1
  <1> QED
    BY <1>1, <1>2

\* The least element of a set of naturals, as the scans of memory.c find it.
LEMMA MinNat ==
    ASSUME NEW S \in SUBSET Nat, S # {}
    PROVE  Min(S) \in S /\ \A x \in S : Min(S) <= x
  <1>1. PICK x \in S : \A y \in S : <<y, x>> \notin OpToRel(<, Nat)
    <2>1. S \subseteq Nat
      OBVIOUS
    <2> QED
      BY <2>1, NatLessThanWellFounded, WFMin
  <1>2. \A y \in S : x <= y
    <2> TAKE y \in S
    <2>1. ~ (y < x)
      BY <1>1 DEF OpToRel
    <2> QED
      BY <2>1
  <1> QED
    BY <1>2 DEF Min
-----------------------------------------------------------------------------
\* Frames, runs and blocks

\* A frame is a region's index and an index into that region's descriptors.
LEMMA FrameIs ==
    ASSUME NEW i, NEW j
    PROVE  <<i, j>> \in Frame <=>
              i \in 1 .. Len(Regions) /\ j \in 0 .. Regions[i].Length - 1
  BY DEF Frame

LEMMA FrameParts ==
    ASSUME NEW f \in Frame
    PROVE  /\ f = <<f[1], f[2]>>
           /\ f[1] \in 1 .. Len(Regions)
           /\ f[2] \in 0 .. Regions[f[1]].Length - 1
  BY DEF Frame

LEMMA RegionsTyped ==
    /\ Len(Regions) \in Nat
    /\ \A i \in 1 .. Len(Regions) :
          Regions[i].Data \in Nat /\ Regions[i].Length \in Nat
  <1> DEFINE S == [Type : {USABLE, RESERVED, RECLAIMABLE}, Data : Nat \ {0}, Length : Nat]
  <1>1. Regions \in Seq(S)
    BY RegionsAssumption
  <1>2. Len(Regions) \in Nat
    BY <1>1
  <1>3. \A i \in 1 .. Len(Regions) : Regions[i] \in S
    BY <1>1, ElementOfSeq
  <1> QED
    BY <1>2, <1>3

LEMMA RunIs ==
    ASSUME NEW f \in Frame, NEW i, NEW j, NEW pages
    PROVE  f \in Run(i, j, pages) <=> f[1] = i /\ f[2] \in j .. j + pages - 1
  <1>1. f = <<f[1], f[2]>>
    BY FrameParts
  <1> QED
    BY <1>1 DEF Run

\* A run that ends inside its region consists of frames.
LEMMA RunInside ==
    ASSUME NEW f \in Frame, NEW pages \in Nat, f[2] + pages <= Regions[f[1]].Length,
           NEW g \in Run(f[1], f[2], pages)
    PROVE  g \in Frame
  <1>1. PICK k \in f[2] .. f[2] + pages - 1 : g = <<f[1], k>>
    BY DEF Run
  <1>2. /\ f[1] \in 1 .. Len(Regions)
        /\ f[2] \in 0 .. Regions[f[1]].Length - 1
        /\ Regions[f[1]].Length \in Nat
    BY FrameParts, RegionsTyped
  <1>3. k \in 0 .. Regions[f[1]].Length - 1
    BY <1>2
  <1> QED
    BY <1>1, <1>2, <1>3, FrameIs

LEMMA FrameAddressTyped ==
    ASSUME NEW f \in Frame
    PROVE  FrameAddress(f) \in Nat
  BY FrameParts, RegionsTyped, SizesAssumption DEF FrameAddress

\* A block has at least one frame, and ends inside its region.
LEMMA BlockPages ==
    ASSUME NEW b \in Block, IsBlock(b)
    PROVE  /\ Pages(b) \in Nat \ {0}
           /\ FirstFrame(b) \in Frame
           /\ b.FrameIndex + Pages(b) <= Regions[b.RegionIndex].Length
           /\ FirstFrame(b) \in FramesOf(b)
           /\ FramesOf(b) = Run(b.RegionIndex, b.FrameIndex, Pages(b))
           /\ b # NoBlock
  <1>1. FirstFrame(b) \in Frame /\ b.RegionIndex \in Nat /\ b.FrameIndex \in Nat
    BY DEF IsBlock, Block
  <1>2. /\ b.RegionIndex \in 1 .. Len(Regions)
        /\ b.FrameIndex \in 0 .. Regions[b.RegionIndex].Length - 1
        /\ Regions[b.RegionIndex].Length \in Nat
    BY <1>1, FrameIs, RegionsTyped DEF FirstFrame
  <1>3. PICK pages \in 1 .. Regions[b.RegionIndex].Length - b.FrameIndex :
           b.DataSize = pages * FrameSize
    BY DEF IsBlock
  <1>4. pages \in Nat
    BY <1>2
  <1>5. Pages(b) = pages
    BY <1>3, <1>4, DivMul, SizesAssumption DEF Pages
  <1>6. FirstFrame(b) \in FramesOf(b)
    BY <1>2, <1>3, <1>5 DEF FirstFrame, FramesOf, Run
  <1>7. b # NoBlock
    BY <1>2 DEF NoBlock
  <1> QED
    BY <1>1, <1>2, <1>3, <1>5, <1>6, <1>7 DEF FramesOf

\* The scan finds a place whenever there is one (memory.c:241-257).
LEMMA FirstFitIsAPlace ==
    ASSUME NEW d, NEW pages, Places(d, pages) # {}
    PROVE  FirstFit(d, pages) \in Places(d, pages)
  <1> DEFINE regions == {f[1] : f \in Places(d, pages)}
             region  == Min(regions)
             inside  == {g \in Places(d, pages) : g[1] = region}
             indices == {f[2] : f \in inside}
  <1>1. Places(d, pages) \subseteq Frame
    BY DEF Places
  <1>2. regions \in SUBSET Nat /\ regions # {}
    BY <1>1, FrameParts, RegionsTyped
  <1>3. region \in regions
    BY <1>2, MinNat
  <1>4. indices \in SUBSET Nat /\ indices # {}
    <2>1. inside # {}
      BY <1>3
    <2>2. \A f \in inside : f[2] \in Nat
      BY <1>1, FrameParts, RegionsTyped
    <2> QED
      BY <2>1, <2>2
  <1>5. Min(indices) \in indices
    BY <1>4, MinNat
  <1>6. PICK g \in Places(d, pages) : g[1] = region /\ g[2] = Min(indices)
    BY <1>5
  <1>7. g = <<region, Min(indices)>>
    BY <1>1, <1>6, FrameParts
  <1> QED
    BY <1>6, <1>7 DEF FirstFit
-----------------------------------------------------------------------------
\* Descriptors and the blocks they account for

Descriptors == [Frame -> [BusyFramesCount : Nat, Flags : {0, 1}]]

\* The strengthening that is inductive: the descriptors d account for exactly
\* the blocks of S, which lie in the regions and share no frame.
Owns(d, S) ==
    /\ d \in Descriptors
    /\ S \subseteq Block
    /\ \A b \in S : IsBlock(b)
    /\ \A b, c \in S : b # c => FramesOf(b) \cap FramesOf(c) = {}
    /\ Accounts(d, S)

\* Marking a run of free frames busy adds a block to those accounted for
\* (memory.c:257-266).
LEMMA AllocateOwns ==
    ASSUME NEW d, NEW S, Owns(d, S), NEW n \in 1 .. SizeMod - FrameSize,
           NEW a, a = AllocatePhysicalFrames(d, n), a.block # NoBlock
    PROVE  /\ a.block \in Block
           /\ IsBlock(a.block)
           /\ a.block \notin S
           /\ Owns(a.descriptors, S \cup {a.block})
  <1> DEFINE p == AlignUp(n) \div FrameSize
             h == FirstFit(d, p)
             b == a.block
  <1>1. p \in Nat \ {0} /\ AlignUp(n) = p * FrameSize
    <2>1. n \in 0 .. SizeMod - FrameSize
      BY SizesAssumption
    <2> QED
      BY <2>1, AlignUpRounds, PagesPositive
  <1>2. Places(d, p) # {}
    BY DEF AllocatePhysicalFrames
  <1>3. /\ a.descriptors = MarkBusy(d, h, p)
        /\ b = [DataAddress |-> FrameAddress(h), DataSize |-> AlignUp(n),
                RegionIndex |-> h[1], FrameIndex |-> h[2]]
    BY <1>2 DEF AllocatePhysicalFrames
  <1> HIDE DEF p, h
  <1>4. /\ h \in Frame
        /\ h[1] \in Allocatable
        /\ h[2] + p <= Regions[h[1]].Length
        /\ \A g \in Run(h[1], h[2], p) : d[g].Flags = 0
    BY <1>2, FirstFitIsAPlace DEF Places, h
  <1>5. /\ h = <<h[1], h[2]>>
        /\ h[1] \in 1 .. Len(Regions)
        /\ h[2] \in 0 .. Regions[h[1]].Length - 1
        /\ Regions[h[1]].Length \in Nat
        /\ FrameAddress(h) \in Nat
    BY <1>4, FrameParts, RegionsTyped, FrameAddressTyped
  <1>6. b \in Block
    BY <1>1, <1>3, <1>5, SizesAssumption DEF Block
  <1>7. FirstFrame(b) = h
    BY <1>3, <1>5 DEF FirstFrame
  <1>8. IsBlock(b)
    <2>1. p \in 1 .. Regions[h[1]].Length - h[2]
      BY <1>1, <1>4, <1>5
    <2> QED
      BY <1>1, <1>3, <1>4, <1>7, <2>1 DEF IsBlock
  <1>9. Pages(b) = p /\ FramesOf(b) = Run(h[1], h[2], p)
    <2>1. Pages(b) = p
      BY <1>1, <1>3, DivMul, SizesAssumption DEF Pages
    <2> QED
      BY <1>3, <2>1 DEF FramesOf
  <1>10. FramesOf(b) \subseteq Frame
    BY <1>1, <1>4, <1>9, RunInside
  \* no frame of the run is in a block of S: those frames are all busy
  <1>11. \A c \in S : FramesOf(b) \cap FramesOf(c) = {}
    <2> SUFFICES ASSUME NEW c \in S, NEW f \in FramesOf(b), f \in FramesOf(c)
                 PROVE  FALSE
      OBVIOUS
    <2>1. f \in Frame /\ d[f].Flags = 0
      BY <1>4, <1>9, <1>10
    <2>2. d[f].Flags = 1
      BY <2>1 DEF Owns, Accounts
    <2> QED
      BY <2>1, <2>2
  <1>12. h \in FramesOf(b)
    BY <1>6, <1>7, <1>8, BlockPages
  <1>13. b \notin S
    BY <1>11, <1>12
  <1>14. a.descriptors \in Descriptors
    <2> SUFFICES ASSUME NEW f \in Frame
                 PROVE  MarkBusy(d, h, p)[f] \in [BusyFramesCount : Nat, Flags : {0, 1}]
      BY <1>3 DEF MarkBusy, Descriptors
    <2> QED
      BY <1>1 DEF MarkBusy, Owns, Descriptors
  <1>15. Accounts(a.descriptors, S \cup {b})
    <2> SUFFICES ASSUME NEW f \in Frame
                 PROVE  /\ a.descriptors[f].Flags = 1 <=> \E c \in S \cup {b} : f \in FramesOf(c)
                        /\ \A c \in S \cup {b} : f = FirstFrame(c) =>
                              a.descriptors[f].BusyFramesCount = Pages(c)
                        /\ (\A c \in S \cup {b} : f # FirstFrame(c)) =>
                              a.descriptors[f].BusyFramesCount = 0
      BY DEF Accounts
    <2>1. /\ a.descriptors[f].BusyFramesCount = IF f = h THEN p ELSE d[f].BusyFramesCount
          /\ a.descriptors[f].Flags = IF f \in FramesOf(b) THEN 1 ELSE d[f].Flags
      BY <1>3, <1>9 DEF MarkBusy
    <2>2. /\ d[f].Flags = 1 <=> \E c \in S : f \in FramesOf(c)
          /\ \A c \in S : f = FirstFrame(c) => d[f].BusyFramesCount = Pages(c)
          /\ (\A c \in S : f # FirstFrame(c)) => d[f].BusyFramesCount = 0
      BY DEF Owns, Accounts
    <2>3. \A c \in S : h # FirstFrame(c)
      BY <1>11, <1>12, BlockPages DEF Owns
    <2>4. a.descriptors[f].Flags = 1 <=> \E c \in S \cup {b} : f \in FramesOf(c)
      BY <2>1, <2>2
    <2>5. \A c \in S \cup {b} : f = FirstFrame(c) => a.descriptors[f].BusyFramesCount = Pages(c)
      BY <1>7, <1>9, <2>1, <2>2, <2>3
    <2>6. (\A c \in S \cup {b} : f # FirstFrame(c)) => a.descriptors[f].BusyFramesCount = 0
      BY <1>7, <2>1, <2>2
    <2> QED
      BY <2>4, <2>5, <2>6
  <1>16. \A c, e \in S \cup {b} : c # e => FramesOf(c) \cap FramesOf(e) = {}
    BY <1>11 DEF Owns
  <1> QED
    BY <1>6, <1>8, <1>13, <1>14, <1>15, <1>16 DEF Owns

\* A failed search leaves the descriptors as they were.
LEMMA AllocateFails ==
    ASSUME NEW d, NEW S, Owns(d, S), NEW n \in 1 .. SizeMod - FrameSize,
           AllocatePhysicalFrames(d, n).block = NoBlock
    PROVE  AllocatePhysicalFrames(d, n).descriptors = d
  <1>1. CASE Places(d, AlignUp(n) \div FrameSize) = {}
    BY <1>1 DEF AllocatePhysicalFrames
  <1>2. CASE Places(d, AlignUp(n) \div FrameSize) # {}
    <2> DEFINE h == FirstFit(d, AlignUp(n) \div FrameSize)
    <2>1. h \in Frame
      BY <1>2, FirstFitIsAPlace DEF Places
    <2>2. AllocatePhysicalFrames(d, n).block.RegionIndex = h[1]
      BY <1>2 DEF AllocatePhysicalFrames
    <2>3. h[1] \in 1 .. Len(Regions)
      BY <2>1, FrameParts
    <2> HIDE DEF h
    <2> QED
      BY <2>2, <2>3, RegionsTyped DEF NoBlock
  <1> QED
    BY <1>1, <1>2

\* Releasing a block frees its frames and no other (memory.c:290-306).
LEMMA FreeOwns ==
    ASSUME NEW d, NEW S, Owns(d, S), NEW b \in S,
           NEW e, e = FreePhysicalFrames(d, b)
    PROVE  /\ FramesCount(d, b) = Pages(b)
           /\ Owns(e, S \ {b})
  <1>1. /\ b \in Block /\ IsBlock(b)
        /\ Pages(b) \in Nat \ {0}
        /\ FirstFrame(b) \in Frame
        /\ FirstFrame(b) \in FramesOf(b)
        /\ FramesOf(b) = Run(b.RegionIndex, b.FrameIndex, Pages(b))
        /\ b # NoBlock
    BY BlockPages DEF Owns
  <1>2. FramesCount(d, b) = Pages(b)
    BY <1>1 DEF FramesCount, Owns, Accounts
  <1>3. e = [f \in Frame |->
              [BusyFramesCount |-> IF f = FirstFrame(b) THEN 0 ELSE d[f].BusyFramesCount,
               Flags |-> IF f \in FramesOf(b) THEN 0 ELSE d[f].Flags]]
    BY <1>1, <1>2 DEF FreePhysicalFrames
  <1>4. e \in Descriptors
    BY <1>3 DEF Owns, Descriptors
  <1>5. \A c \in S \ {b} : FramesOf(c) \cap FramesOf(b) = {}
    BY DEF Owns
  <1>6. \A c \in S \ {b} : FirstFrame(c) # FirstFrame(b)
    BY <1>1, <1>5, BlockPages DEF Owns
  <1>7. Accounts(e, S \ {b})
    <2> SUFFICES ASSUME NEW f \in Frame
                 PROVE  /\ e[f].Flags = 1 <=> \E c \in S \ {b} : f \in FramesOf(c)
                        /\ \A c \in S \ {b} : f = FirstFrame(c) => e[f].BusyFramesCount = Pages(c)
                        /\ (\A c \in S \ {b} : f # FirstFrame(c)) => e[f].BusyFramesCount = 0
      BY DEF Accounts
    <2>1. /\ e[f].BusyFramesCount = IF f = FirstFrame(b) THEN 0 ELSE d[f].BusyFramesCount
          /\ e[f].Flags = IF f \in FramesOf(b) THEN 0 ELSE d[f].Flags
      BY <1>3
    <2>2. /\ d[f].Flags = 1 <=> \E c \in S : f \in FramesOf(c)
          /\ \A c \in S : f = FirstFrame(c) => d[f].BusyFramesCount = Pages(c)
          /\ (\A c \in S : f # FirstFrame(c)) => d[f].BusyFramesCount = 0
      BY DEF Owns, Accounts
    <2>3. e[f].Flags = 1 <=> \E c \in S \ {b} : f \in FramesOf(c)
      BY <1>5, <2>1, <2>2
    <2>4. \A c \in S \ {b} : f = FirstFrame(c) => e[f].BusyFramesCount = Pages(c)
      BY <1>6, <2>1, <2>2
    <2>5. (\A c \in S \ {b} : f # FirstFrame(c)) => e[f].BusyFramesCount = 0
      BY <2>1, <2>2
    <2> QED
      BY <2>3, <2>4, <2>5
  <1> QED
    BY <1>2, <1>4, <1>7 DEF Owns
-----------------------------------------------------------------------------
\* The table of allocations

Memory == [0 .. MemTop - 1 -> Byte]

State == [descriptors : Descriptors, Allocations : Seq(Block),
          AllocData : Block, memory : Memory]

TableBlock(s) == {s.AllocData} \ {NoBlock}
EntryBlocks(s) == {s.Allocations[i] : i \in 1 .. Len(s.Allocations)}

\* The descriptors own exactly the blocks of X and, apart from these, the table's.
OwnsWithTable(s, X) ==
    /\ s \in State
    /\ s.AllocData \notin X
    /\ Owns(s.descriptors, X \cup TableBlock(s))

\* The inductive invariant, of a state of the manager given as a record: the
\* descriptors own exactly the entries and the table's block, and no block is
\* entered twice.
Good(s) ==
    /\ OwnsWithTable(s, EntryBlocks(s))
    /\ Len(s.Allocations) <= MaxLive
    /\ \A i, j \in 1 .. Len(s.Allocations) : i # j => s.Allocations[i] # s.Allocations[j]

LEMMA CopyMemoryTyped ==
    ASSUME NEW m \in Memory, NEW destination, NEW source, NEW count
    PROVE  CopyMemory(m, destination, source, count) \in Memory
  <1>1. \A a : Read(m, a) \in Byte
    BY DEF Read, Memory, Byte
  <1> QED
    BY <1>1 DEF CopyMemory, Memory

LEMMA FillMemoryTyped ==
    ASSUME NEW m \in Memory, NEW destination, NEW value \in Byte, NEW count
    PROVE  FillMemory(m, destination, value, count) \in Memory
  BY DEF FillMemory, Memory

\* The sizes the table asks for round up without wrapping, and a table with fewer
\* entries never needs more room: the branch of FreePhysicalMemory that would
\* move the table (memory.c:217-223) is not taken.
LEMMA TableSizes ==
    ASSUME NEW n \in 0 .. MaxLive
    PROVE  /\ TableSize(n) \in 0 .. SizeMod - FrameSize
           /\ n # 0 => TableSize(n) >= TableSize(n - 1)
           /\ EntrySize * n \in Nat /\ EntrySize * n <= TableSize(n)
           /\ TableSize(n) = AlignUp(EntrySize * n)
  <1>1. \A k \in 0 .. MaxLive : /\ EntrySize * k \in 0 .. SizeMod - 2 * FrameSize
                                /\ TableSize(k) = AlignUp(EntrySize * k)
                                /\ TableSize(k) \in 0 .. SizeMod - FrameSize
                                /\ EntrySize * k <= TableSize(k)
    <2> TAKE k \in 0 .. MaxLive
    <2>1. EntrySize * k \in Nat /\ EntrySize * k <= EntrySize * MaxLive
      BY SizesAssumption
    <2>2. EntrySize * k \in 0 .. SizeMod - 2 * FrameSize
      <3> DEFINE x == EntrySize * k
                 y == EntrySize * MaxLive
      <3>1. x \in Nat /\ x <= y /\ y \in Int /\ y <= SizeMod - 2 * FrameSize
        BY <2>1, SizesAssumption, RequestAssumption
      <3> HIDE DEF x, y
      <3>2. x \in 0 .. SizeMod - 2 * FrameSize
        BY <3>1, SizesAssumption
      <3> QED
        BY <3>2 DEF x
    <2>3. EntrySize * k < SizeMod
      BY <2>2, SizesAssumption
    <2>4. (EntrySize * k) % SizeMod = EntrySize * k
      BY <2>1, <2>3, ModSmall, SizesAssumption
    <2>5. TableSize(k) = AlignUp(EntrySize * k)
      BY <2>4 DEF TableSize
    <2>6. EntrySize * k \in 0 .. SizeMod - FrameSize
      BY <2>2, SizesAssumption
    <2>7. /\ EntrySize * k <= AlignUp(EntrySize * k)
          /\ AlignUp(EntrySize * k) < EntrySize * k + FrameSize
          /\ AlignUp(EntrySize * k) \in Int
      <3>1. /\ AlignUp(EntrySize * k) \div FrameSize \in Nat
            /\ AlignUp(EntrySize * k) = (AlignUp(EntrySize * k) \div FrameSize) * FrameSize
            /\ EntrySize * k <= AlignUp(EntrySize * k)
            /\ AlignUp(EntrySize * k) < EntrySize * k + FrameSize
        BY <2>6, AlignUpRounds
      <3>2. AlignUp(EntrySize * k) \in Int
        BY <3>1, SizesAssumption
      <3> QED
        BY <3>1, <3>2
    <2>8. TableSize(k) \in 0 .. SizeMod - FrameSize
      <3> DEFINE x == EntrySize * k
                 y == AlignUp(EntrySize * k)
      <3>1. x \in 0 .. SizeMod - 2 * FrameSize /\ x <= y /\ y < x + FrameSize /\ y \in Int
        BY <2>2, <2>7
      <3> HIDE DEF x, y
      <3>2. y \in 0 .. SizeMod - FrameSize
        BY <3>1, SizesAssumption
      <3> QED
        BY <2>5, <3>2 DEF y
    <2> QED
      BY <2>2, <2>5, <2>7, <2>8
  <1>2. ASSUME n # 0
        PROVE  TableSize(n) >= TableSize(n - 1)
    <2> DEFINE x == EntrySize * (n - 1)
               y == EntrySize * n
    <2>1. n - 1 \in 0 .. MaxLive /\ n \in 0 .. MaxLive
      BY <1>2, SizesAssumption
    <2>2. x <= y /\ EntrySize \in Nat
      BY <1>2, SizesAssumption
    <2>3. /\ x \in 0 .. SizeMod - 2 * FrameSize
          /\ y \in 0 .. SizeMod - 2 * FrameSize
          /\ TableSize(n - 1) = AlignUp(x)
          /\ TableSize(n) = AlignUp(y)
      BY <1>1, <2>1
    <2> HIDE DEF x, y
    <2>4. /\ x + FrameSize - 1 \in Nat /\ y + FrameSize - 1 \in Nat
          /\ x + FrameSize - 1 <= y + FrameSize - 1
          /\ x + FrameSize - 1 < SizeMod /\ y + FrameSize - 1 < SizeMod
      BY <2>2, <2>3, SizesAssumption
    <2>5. /\ (x + FrameSize - 1) % SizeMod = x + FrameSize - 1
          /\ (y + FrameSize - 1) % SizeMod = y + FrameSize - 1
      BY <2>4, ModSmall, SizesAssumption
    <2> DEFINE p == (x + FrameSize - 1) \div FrameSize
               q == (y + FrameSize - 1) \div FrameSize
    <2>6. p \in Nat /\ q \in Nat /\ p <= q
      BY <2>4, DivMonotone, DivBounds, SizesAssumption
    <2>7. AlignUp(x) = p * FrameSize /\ AlignUp(y) = q * FrameSize
      BY <2>5 DEF AlignUp
    <2> HIDE DEF p, q
    <2>8. p * FrameSize <= q * FrameSize
      BY <2>6, SizesAssumption
    <2> QED
      BY <2>3, <2>7, <2>8
  <1> QED
    BY <1>1, <1>2
\* The updates of a state of the manager, named so that a proof can cite what
\* they leave in its fields.
WithDescriptors(s, d) == [s EXCEPT !.descriptors = d]
WithMemory(s, m) == [s EXCEPT !.memory = m]
WithEntries(s, q, m) == [s EXCEPT !.Allocations = q, !.memory = m]
WithFirstTable(s, d, b) == [s EXCEPT !.descriptors = d, !.AllocData = b]
WithTable(s, d, b, m) == [s EXCEPT !.descriptors = d, !.AllocData = b, !.memory = m]

LEMMA WithDescriptorsFields ==
    ASSUME NEW s \in State, NEW d \in Descriptors,
           NEW t, t = WithDescriptors(s, d)
    PROVE  /\ t \in State
           /\ t.descriptors = d /\ t.Allocations = s.Allocations
           /\ t.AllocData = s.AllocData /\ t.memory = s.memory
  BY DEF State, WithDescriptors

LEMMA WithMemoryFields ==
    ASSUME NEW s \in State, NEW m \in Memory,
           NEW t, t = WithMemory(s, m)
    PROVE  /\ t \in State
           /\ t.descriptors = s.descriptors /\ t.Allocations = s.Allocations
           /\ t.AllocData = s.AllocData /\ t.memory = m
  BY DEF State, WithMemory

LEMMA WithEntriesFields ==
    ASSUME NEW s \in State, NEW q \in Seq(Block), NEW m \in Memory,
           NEW t, t = WithEntries(s, q, m)
    PROVE  /\ t \in State
           /\ t.descriptors = s.descriptors /\ t.Allocations = q
           /\ t.AllocData = s.AllocData /\ t.memory = m
  BY DEF State, WithEntries

LEMMA WithFirstTableFields ==
    ASSUME NEW s \in State, NEW d \in Descriptors, NEW b \in Block,
           NEW t, t = WithFirstTable(s, d, b)
    PROVE  /\ t \in State
           /\ t.descriptors = d /\ t.Allocations = s.Allocations
           /\ t.AllocData = b /\ t.memory = s.memory
  BY DEF State, WithFirstTable

LEMMA WithTableFields ==
    ASSUME NEW s \in State, NEW d \in Descriptors, NEW b \in Block, NEW m \in Memory,
           NEW t, t = WithTable(s, d, b, m)
    PROVE  /\ t \in State
           /\ t.descriptors = d /\ t.Allocations = s.Allocations
           /\ t.AllocData = b /\ t.memory = m
  BY DEF State, WithTable

\* The table has moved to the block c of n bytes, and the memory m has become k.
TableMoved(m, b, k, c, n) ==
    /\ c # NoBlock /\ c.DataSize = AlignUp(n)
    /\ k = IF b = NoBlock THEN m
           ELSE CopyMemory(m, c.DataAddress, b.DataAddress, b.DataSize)

\* Moving the table, whichever blocks X the descriptors also own: either nothing
\* changes or the new block takes the place of the old (memory.c:275-288).
LEMMA TableMoves ==
    ASSUME NEW s, NEW X, OwnsWithTable(s, X),
           NEW n \in 1 .. SizeMod - FrameSize,
           NEW r, r = ReallocatePhysicalFrames(s, n)
    PROVE  /\ OwnsWithTable(r.s, X)
           /\ r.s.Allocations = s.Allocations
           /\ \/ r.ok = FALSE /\ r.s = s
              \/ r.ok = TRUE /\ TableMoved(s.memory, s.AllocData, r.s.memory, r.s.AllocData, n)
  <1> DEFINE new   == AllocatePhysicalFrames(s.descriptors, n)
             moved == CopyMemory(s.memory, new.block.DataAddress,
                                 s.AllocData.DataAddress, s.AllocData.DataSize)
             freed == FreePhysicalFrames(new.descriptors, s.AllocData)
             S     == X \cup TableBlock(s)
  <1>1. moved \in Memory
    BY CopyMemoryTyped DEF State, OwnsWithTable
  <1>2. CASE new.block = NoBlock
    <2>1. r = [ok |-> FALSE, s |-> s]
      BY <1>2 DEF ReallocatePhysicalFrames
    <2> QED
      BY <2>1
  <1>3. CASE new.block # NoBlock
    <2>1. /\ new.block \in Block /\ IsBlock(new.block) /\ new.block \notin S
          /\ Owns(new.descriptors, S \cup {new.block})
      BY <1>3, AllocateOwns DEF OwnsWithTable
    <2>4. new.block.DataSize = AlignUp(n)
      BY <1>3 DEF AllocatePhysicalFrames
    <2>0. s \in State
      BY DEF OwnsWithTable
    <2> HIDE DEF new
    <2>2. CASE s.AllocData = NoBlock
      <3>1. r = [ok |-> TRUE,
                 s |-> [s EXCEPT !.descriptors = new.descriptors, !.AllocData = new.block]]
        BY <1>3, <2>2 DEF ReallocatePhysicalFrames, new
      <3>2. S = X
        BY <2>2 DEF TableBlock
      <3>3. new.descriptors \in Descriptors
        BY <2>1 DEF Owns
      <3>4. /\ r.s.descriptors = new.descriptors /\ r.s.AllocData = new.block
            /\ r.s.Allocations = s.Allocations /\ r.ok = TRUE
            /\ r.s \in State /\ r.s.memory = s.memory
        <4>1. r.s = WithFirstTable(s, new.descriptors, new.block) /\ r.ok = TRUE
          BY <3>1 DEF WithFirstTable
        <4> QED
          BY <2>0, <2>1, <3>3, <4>1, WithFirstTableFields
      <3>5. TableBlock(r.s) = {new.block}
        BY <1>3, <3>4 DEF TableBlock
      <3> QED
        BY <1>3, <2>1, <2>2, <2>4, <3>2, <3>4, <3>5 DEF OwnsWithTable, TableMoved
    <2>3. CASE s.AllocData # NoBlock
      <3>1. s.AllocData \in S /\ S = X \cup {s.AllocData} /\ IsBlock(s.AllocData)
            /\ s.AllocData \in Block
        BY <2>3 DEF TableBlock, Owns, OwnsWithTable
      <3>2. /\ FramesCount(new.descriptors, s.AllocData) = Pages(s.AllocData)
            /\ Owns(freed, (S \cup {new.block}) \ {s.AllocData})
        <4>1. s.AllocData \in S \cup {new.block}
          BY <3>1
        <4> QED
          BY <2>1, <4>1, FreeOwns
      <3>3. FramesCount(new.descriptors, s.AllocData) # 0
        BY <3>1, <3>2, BlockPages
      <3>4. r = [ok |-> TRUE, s |-> [s EXCEPT !.descriptors = freed, !.AllocData = new.block,
                                              !.memory = moved]]
        BY <1>3, <2>3, <3>3 DEF ReallocatePhysicalFrames, new
      <3>5. freed \in Descriptors
        BY <3>2 DEF Owns
      <3> HIDE DEF freed, moved
      <3>6. /\ r.s.descriptors = freed /\ r.s.AllocData = new.block
            /\ r.s.Allocations = s.Allocations /\ r.ok = TRUE
            /\ r.s \in State /\ r.s.memory = moved
        <4>1. r.s = WithTable(s, freed, new.block, moved) /\ r.ok = TRUE
          BY <3>4 DEF WithTable
        <4> QED
          BY <1>1, <2>0, <2>1, <3>5, <4>1, WithTableFields
      <3>7. (S \cup {new.block}) \ {s.AllocData} = X \cup {new.block}
        BY <2>1, <3>1 DEF OwnsWithTable
      <3>8. TableBlock(r.s) = {new.block}
        BY <1>3, <3>6 DEF TableBlock
      <3>9. OwnsWithTable(r.s, X)
        BY <2>1, <3>2, <3>6, <3>7, <3>8 DEF OwnsWithTable
      <3>10. TableMoved(s.memory, s.AllocData, r.s.memory, r.s.AllocData, n)
        BY <1>3, <2>3, <2>4, <3>6 DEF TableMoved, moved, new
      <3> QED
        BY <3>6, <3>9, <3>10
    <2> QED
      BY <2>2, <2>3
  <1> QED
    BY <1>2, <1>3

\* AllocatePhysicalMemory (memory.c:153-175): on every path, the two failures
\* included, the table and the descriptors still agree.
LEMMA AllocateGood ==
    ASSUME NEW s, Good(s), Len(s.Allocations) < MaxLive,
           NEW count \in 1 .. SizeMod - FrameSize,
           NEW r, r = AllocatePhysicalMemory(s, count)
    PROVE  Good(r.s)
  <1> DEFINE n     == Len(s.Allocations)
             data  == AllocatePhysicalFrames(s.descriptors, count)
             taken == [s EXCEPT !.descriptors = data.descriptors]
             table == IF TableSize(n + 1) > TableSize(n)
                      THEN ReallocatePhysicalFrames(taken, TableSize(n + 1))
                      ELSE [ok |-> TRUE, s |-> taken]
             entry == table.s.AllocData.DataAddress + n * EntrySize
             S     == EntryBlocks(s) \cup TableBlock(s)
  <1>1. CASE data.block = NoBlock
    <2>1. r = [s |-> s, memory |-> NULL]
      BY <1>1 DEF AllocatePhysicalMemory
    <2> QED
      BY <2>1
  <1>2. CASE data.block # NoBlock
    <2> DEFINE b == data.block
               X == EntryBlocks(s) \cup {b}
    <2>1. /\ b \in Block /\ IsBlock(b) /\ b \notin S
          /\ Owns(data.descriptors, S \cup {b})
      BY <1>2, AllocateOwns DEF Good, OwnsWithTable
    <2>2. /\ taken \in State
          /\ taken.Allocations = s.Allocations /\ taken.AllocData = s.AllocData
          /\ taken.descriptors = data.descriptors
      <3>1. data.descriptors \in Descriptors
        BY <2>1 DEF Owns
      <3> QED
        BY <3>1 DEF State, Good, OwnsWithTable
    <2>3. TableBlock(taken) = TableBlock(s) /\ S \cup {b} = X \cup TableBlock(taken)
      BY <2>2 DEF TableBlock
    <2>4. taken.AllocData \notin X
      BY <1>2, <2>1, <2>2 DEF Good, OwnsWithTable, TableBlock
    <2>5. OwnsWithTable(taken, X)
      BY <2>1, <2>2, <2>3, <2>4 DEF OwnsWithTable
    <2>6. n \in 0 .. MaxLive /\ n + 1 \in 0 .. MaxLive /\ n \in Nat
      BY SizesAssumption DEF Good, OwnsWithTable, State
    <2>7. OwnsWithTable(table.s, X) /\ table.s.Allocations = s.Allocations
      <3>1. CASE TableSize(n + 1) > TableSize(n)
        <4>1. TableSize(n + 1) \in 1 .. SizeMod - FrameSize
          BY <2>6, <3>1, TableSizes, SizesAssumption
        <4>2. table = ReallocatePhysicalFrames(taken, TableSize(n + 1))
          BY <3>1
        <4> HIDE DEF table, taken, X
        <4>3. OwnsWithTable(table.s, X) /\ table.s.Allocations = taken.Allocations
          BY <2>5, <4>1, <4>2, TableMoves
        <4> QED
          BY <2>2, <4>3
      <3>2. CASE ~ (TableSize(n + 1) > TableSize(n))
        <4>1. table.s = taken
          BY <3>2
        <4> HIDE DEF table, taken, X
        <4> QED
          BY <2>2, <2>5, <4>1
      <3> QED
        BY <3>1, <3>2
    <2>8. CASE ~ table.ok
      <3> DEFINE freed == FreePhysicalFrames(table.s.descriptors, b)
      <3>1. r = [s |-> [table.s EXCEPT !.descriptors = freed], memory |-> NULL]
        BY <1>2, <2>8 DEF AllocatePhysicalMemory
      <3>2. Owns(freed, (X \cup TableBlock(table.s)) \ {b})
        BY <2>7, FreeOwns DEF OwnsWithTable
      <3> HIDE DEF table, freed
      <3>3. freed \in Descriptors
        BY <3>2 DEF Owns
      <3>4. /\ r.s \in State /\ r.s.Allocations = s.Allocations
            /\ r.s.AllocData = table.s.AllocData /\ r.s.descriptors = freed
        BY <2>7, <3>1, <3>3 DEF State, OwnsWithTable
      <3>5. TableBlock(r.s) = TableBlock(table.s) /\ EntryBlocks(r.s) = EntryBlocks(s)
        BY <3>4 DEF TableBlock, EntryBlocks
      <3>6. (X \cup TableBlock(table.s)) \ {b} = EntryBlocks(r.s) \cup TableBlock(r.s)
        BY <2>1, <2>7, <3>5 DEF TableBlock, OwnsWithTable
      <3> QED
        BY <2>7, <3>2, <3>4, <3>5, <3>6 DEF Good, OwnsWithTable
    <2>9. CASE table.ok
      <3> DEFINE filled == FillMemory(table.s.memory, entry, EntryByte, EntrySize)
      <3>1. r = [s |-> [table.s EXCEPT !.Allocations = Append(@, b), !.memory = filled],
                 memory |-> b.DataAddress]
        BY <1>2, <2>9 DEF AllocatePhysicalMemory
      <3>2. filled \in Memory
        BY <2>7, FillMemoryTyped DEF State, Byte, OwnsWithTable
      <3> HIDE DEF table, filled, data
      <3>3. s.Allocations \in Seq(Block)
        BY DEF Good, OwnsWithTable, State
      <3>4. /\ Append(s.Allocations, b) \in Seq(Block)
            /\ Len(Append(s.Allocations, b)) = n + 1
            /\ \A i \in 1 .. n : Append(s.Allocations, b)[i] = s.Allocations[i]
            /\ Append(s.Allocations, b)[n + 1] = b
        BY <2>1, <3>3, AppendProperties
      <3>5. /\ r.s \in State /\ r.s.Allocations = Append(s.Allocations, b)
            /\ r.s.AllocData = table.s.AllocData /\ r.s.descriptors = table.s.descriptors
        <4>1. r.s = WithEntries(table.s, Append(s.Allocations, b), filled)
          BY <2>7, <3>1 DEF WithEntries
        <4>2. table.s \in State
          BY <2>7 DEF OwnsWithTable
        <4> DEFINE q == Append(s.Allocations, b)
        <4>3. q \in Seq(Block) /\ r.s = WithEntries(table.s, q, filled)
          BY <3>4, <4>1
        <4> HIDE DEF q
        <4>4. /\ r.s \in State /\ r.s.Allocations = q
              /\ r.s.AllocData = table.s.AllocData /\ r.s.descriptors = table.s.descriptors
          BY <3>2, <4>2, <4>3, WithEntriesFields
        <4> QED
          BY <4>4 DEF q
      <3>6. EntryBlocks(r.s) = X /\ TableBlock(r.s) = TableBlock(table.s)
        <4>1. TableBlock(r.s) = TableBlock(table.s)
          BY <3>5 DEF TableBlock
        <4>2. \A i \in 1 .. n + 1 : Append(s.Allocations, b)[i] \in X
          BY <2>6, <3>4 DEF EntryBlocks
        <4>3. \A c \in X : \E i \in 1 .. n + 1 : Append(s.Allocations, b)[i] = c
          BY <2>6, <3>4 DEF EntryBlocks
        <4> QED
          BY <3>4, <3>5, <4>1, <4>2, <4>3 DEF EntryBlocks
      <3>7. \A i, j \in 1 .. n + 1 :
               i # j => Append(s.Allocations, b)[i] # Append(s.Allocations, b)[j]
        <4>1. \A i \in 1 .. n : s.Allocations[i] # b
          BY <2>1 DEF EntryBlocks
        <4>2. \A i, j \in 1 .. n : i # j => s.Allocations[i] # s.Allocations[j]
          BY DEF Good, OwnsWithTable
        <4> QED
          BY <2>6, <3>4, <4>1, <4>2
      <3> QED
        <4>1. Len(r.s.Allocations) = n + 1 /\ n + 1 <= MaxLive
          BY <2>6, <3>4, <3>5, SizesAssumption
        <4>2. OwnsWithTable(r.s, EntryBlocks(r.s))
          BY <2>7, <3>5, <3>6 DEF OwnsWithTable
        <4>3. \A i, j \in 1 .. Len(r.s.Allocations) :
                 i # j => r.s.Allocations[i] # r.s.Allocations[j]
          BY <3>5, <3>7, <4>1
        <4> QED
          BY <4>1, <4>2, <4>3 DEF Good
    <2> QED
      BY <2>8, <2>9
  <1> QED
    BY <1>1, <1>2

LEMMA RemoveAtIs ==
    ASSUME NEW S, NEW q \in Seq(S), NEW i \in 1 .. Len(q)
    PROVE  /\ RemoveAt(q, i) \in Seq(S)
           /\ Len(RemoveAt(q, i)) = Len(q) - 1
           /\ \A j \in 1 .. Len(q) - 1 :
                 RemoveAt(q, i)[j] = IF j < i THEN q[j] ELSE q[j + 1]
  <1> DEFINE front == SubSeq(q, 1, i - 1)
             back  == SubSeq(q, i + 1, Len(q))
  <1>1. \A j \in 1 .. Len(q) : q[j] \in S
    BY ElementOfSeq
  <1>2. Len(q) \in Nat /\ i \in Nat
    OBVIOUS
  <1>3. /\ front \in Seq(S)
        /\ Len(front) = i - 1
        /\ \A j \in 1 .. i - 1 : front[j] = q[j]
    <2>1. \A j \in 1 .. i - 1 : q[j] \in S
      BY <1>1, <1>2
    <2>2. 1 \in Int /\ i - 1 \in Int
      BY <1>2
    <2>3. /\ front \in Seq(S)
          /\ Len(front) = IF 1 <= i - 1 THEN (i - 1) - 1 + 1 ELSE 0
          /\ \A j \in 1 .. (i - 1) - 1 + 1 : front[j] = q[1 + j - 1]
      BY <2>1, <2>2, SubSeqProperties
    <2> QED
      BY <1>2, <2>3
  <1>4. /\ back \in Seq(S)
        /\ Len(back) = Len(q) - i
        /\ \A j \in 1 .. Len(q) - i : back[j] = q[i + j]
    <2>1. \A j \in i + 1 .. Len(q) : q[j] \in S
      BY <1>1, <1>2
    <2>2. i + 1 \in Int /\ Len(q) \in Int
      BY <1>2
    <2>3. /\ back \in Seq(S)
          /\ Len(back) = IF i + 1 <= Len(q) THEN Len(q) - (i + 1) + 1 ELSE 0
          /\ \A j \in 1 .. Len(q) - (i + 1) + 1 : back[j] = q[(i + 1) + j - 1]
      BY <2>1, <2>2, SubSeqProperties
    <2> QED
      BY <1>2, <2>3
  <1>5. RemoveAt(q, i) = front \o back
    BY DEF RemoveAt
  <1> HIDE DEF front, back
  <1>6. /\ front \o back \in Seq(S)
        /\ Len(front \o back) = Len(q) - 1
        /\ \A j \in 1 .. Len(q) - 1 :
              (front \o back)[j] = IF j <= i - 1 THEN front[j] ELSE back[j - (i - 1)]
    <2>1. /\ front \o back \in Seq(S)
          /\ Len(front \o back) = Len(front) + Len(back)
          /\ \A j \in 1 .. Len(front) + Len(back) :
                (front \o back)[j] = IF j <= Len(front) THEN front[j] ELSE back[j - Len(front)]
      BY <1>3, <1>4, ConcatProperties
    <2>2. Len(front) + Len(back) = Len(q) - 1 /\ Len(front) = i - 1
      BY <1>2, <1>3, <1>4
    <2> QED
      BY <2>1, <2>2
  <1>7. ASSUME NEW j \in 1 .. Len(q) - 1
        PROVE  (front \o back)[j] = IF j < i THEN q[j] ELSE q[j + 1]
    <2>1. CASE j < i
      <3>1. j <= i - 1 /\ j \in 1 .. i - 1
        BY <1>2, <2>1
      <3> QED
        BY <1>3, <1>6, <2>1, <3>1
    <2>2. CASE ~ (j < i)
      <3>1. ~ (j <= i - 1) /\ j - (i - 1) \in 1 .. Len(q) - i /\ i + (j - (i - 1)) = j + 1
        BY <1>2, <2>2
      <3>2. (front \o back)[j] = back[j - (i - 1)]
        BY <1>6, <3>1
      <3>3. back[j - (i - 1)] = q[i + (j - (i - 1))]
        BY <1>4, <3>1
      <3> QED
        BY <2>2, <3>1, <3>2, <3>3
    <2> QED
      BY <2>1, <2>2
  <1> QED
    BY <1>5, <1>6, <1>7

\* The entry i has left the table, those behind it having moved up.
Removed(s, r, i) ==
    /\ r.Allocations = RemoveAt(s.Allocations, i)
    /\ r.AllocData = s.AllocData
    /\ r.memory = CopyMemory(s.memory, s.AllocData.DataAddress + (i - 1) * EntrySize,
                             s.AllocData.DataAddress + i * EntrySize,
                             EntrySize * (Len(s.Allocations) - i))
    /\ EntryBlocks(r) = EntryBlocks(s) \ {s.Allocations[i]}

\* FreePhysicalMemory (memory.c:201-231): the first entry for the address, and
\* with it exactly its frames, leaves the table; an unknown address changes nothing.
LEMMA FreeIs ==
    ASSUME NEW s, Good(s), NEW address
    PROVE  /\ Good(FreePhysicalMemory(s, address))
           /\ IF EntriesAt(s, address) = {}
              THEN FreePhysicalMemory(s, address) = s
              ELSE \E i \in EntriesAt(s, address) :
                      Removed(s, FreePhysicalMemory(s, address), i)
  <1> DEFINE n      == Len(s.Allocations)
             i      == Min(EntriesAt(s, address))
             table  == s.AllocData.DataAddress
             copied == CopyMemory(s.memory, table + (i - 1) * EntrySize,
                                  table + i * EntrySize, EntrySize * (n - i))
             q      == RemoveAt(s.Allocations, i)
             b      == s.Allocations[i]
             r      == FreePhysicalMemory(s, address)
  <1>1. CASE EntriesAt(s, address) = {}
    <2>1. r = s
      BY <1>1 DEF FreePhysicalMemory
    <2> QED
      BY <1>1, <2>1
  <1>2. CASE EntriesAt(s, address) # {}
    <2>1. s \in State /\ s.Allocations \in Seq(Block) /\ n \in Nat /\ n <= MaxLive
      BY DEF Good, OwnsWithTable, State
    <2>2. i \in 1 .. n /\ i \in EntriesAt(s, address)
      <3>1. EntriesAt(s, address) \in SUBSET Nat
        BY DEF EntriesAt
      <3>2. i \in EntriesAt(s, address)
        BY <1>2, <3>1, MinNat
      <3> QED
        BY <3>2 DEF EntriesAt
    <2>3. ~ (TableSize(n - 1) > TableSize(n))
      <3>1. n \in 0 .. MaxLive /\ n - 1 \in 0 .. MaxLive /\ n # 0
        BY <2>1, <2>2, SizesAssumption
      <3>2. TableSize(n) >= TableSize(n - 1) /\ TableSize(n) \in Int /\ TableSize(n - 1) \in Int
        BY <3>1, TableSizes
      <3> QED
        BY <3>2
    <2>4. copied \in Memory
      BY <2>1, CopyMemoryTyped DEF State
    <2> DEFINE t == WithEntries(s, q, copied)
               d == FreePhysicalFrames(t.descriptors, b)
    <2>5. r = WithDescriptors(t, d)
      BY <1>2, <2>3 DEF FreePhysicalMemory, WithEntries, WithDescriptors
    <2> HIDE DEF r, copied, i
    <2>6. /\ q \in Seq(Block) /\ Len(q) = n - 1
          /\ \A j \in 1 .. n - 1 : q[j] = IF j < i THEN s.Allocations[j] ELSE s.Allocations[j + 1]
      BY <2>1, <2>2, RemoveAtIs
    <2> HIDE DEF q
    <2>7. /\ t \in State /\ t.descriptors = s.descriptors /\ t.Allocations = q
          /\ t.AllocData = s.AllocData /\ t.memory = copied
      BY <2>1, <2>4, <2>6, WithEntriesFields
    <2> HIDE DEF t
    <2>8. b \in EntryBlocks(s)
      BY <2>2 DEF EntryBlocks
    <2>9. Owns(d, (EntryBlocks(s) \cup TableBlock(s)) \ {b})
      <3>1. Owns(t.descriptors, EntryBlocks(s) \cup TableBlock(s))
        BY <2>7 DEF Good, OwnsWithTable
      <3>2. b \in EntryBlocks(s) \cup TableBlock(s)
        BY <2>8
      <3> HIDE DEF b
      <3> QED
        BY <3>1, <3>2, FreeOwns
    <2> HIDE DEF d
    <2>10. d \in Descriptors
      BY <2>9 DEF Owns
    <2>11. /\ r \in State /\ r.descriptors = d /\ r.Allocations = q
           /\ r.AllocData = s.AllocData /\ r.memory = copied
      <3>1. t \in State /\ d \in Descriptors /\ r = WithDescriptors(t, d)
        BY <2>5, <2>7, <2>10
      <3>2. /\ r \in State /\ r.descriptors = d /\ r.Allocations = t.Allocations
            /\ r.AllocData = t.AllocData /\ r.memory = t.memory
        BY <3>1, WithDescriptorsFields
      <3> QED
        BY <2>7, <3>2
    <2>12. \A j, k \in 1 .. n - 1 : j # k => q[j] # q[k]
      BY <2>1, <2>2, <2>6 DEF Good
    <2>13. EntryBlocks(r) = EntryBlocks(s) \ {b}
      <3>1. \A j \in 1 .. n - 1 : q[j] \in EntryBlocks(s) /\ q[j] # b
        BY <2>1, <2>2, <2>6 DEF Good, EntryBlocks
      <3>2. ASSUME NEW c \in EntryBlocks(s), c # b
            PROVE  \E j \in 1 .. n - 1 : q[j] = c
        <4>1. PICK k \in 1 .. n : s.Allocations[k] = c
          BY DEF EntryBlocks
        <4>2. CASE k < i
          BY <2>1, <2>2, <2>6, <4>1, <4>2
        <4>3. CASE k > i
          <5>1. k - 1 \in 1 .. n - 1 /\ ~ (k - 1 < i) /\ (k - 1) + 1 = k
            BY <2>1, <2>2, <4>3
          <5>2. q[k - 1] = s.Allocations[k]
            BY <2>6, <5>1
          <5> QED
            BY <4>1, <5>1, <5>2
        <4>4. k # i
          BY <3>2, <4>1
        <4> QED
          BY <2>1, <2>2, <4>2, <4>3, <4>4
      <3> QED
        <4>1. EntryBlocks(r) = {q[j] : j \in 1 .. n - 1}
          BY <2>6, <2>11 DEF EntryBlocks
        <4> HIDE DEF b, n
        <4> QED
          BY <3>1, <3>2, <4>1
    <2>14. TableBlock(r) = TableBlock(s) /\ b \notin TableBlock(s)
      BY <2>8, <2>11 DEF TableBlock, Good, OwnsWithTable
    <2>15. OwnsWithTable(r, EntryBlocks(r))
      <3>1. (EntryBlocks(s) \cup TableBlock(s)) \ {b} = EntryBlocks(r) \cup TableBlock(r)
        BY <2>13, <2>14
      <3>2. r.AllocData \notin EntryBlocks(r)
        BY <2>11, <2>13 DEF Good, OwnsWithTable
      <3>3. Owns(r.descriptors, EntryBlocks(r) \cup TableBlock(r))
        BY <2>9, <2>11, <3>1
      <3> QED
        BY <2>11, <3>2, <3>3 DEF OwnsWithTable
    <2>16. Good(r)
      <3>1. Len(r.Allocations) = n - 1 /\ n - 1 <= MaxLive
        BY <2>1, <2>6, <2>11, SizesAssumption
      <3>2. \A j, k \in 1 .. Len(r.Allocations) : j # k => r.Allocations[j] # r.Allocations[k]
        BY <2>11, <2>12, <3>1
      <3> QED
        BY <2>15, <3>1, <3>2 DEF Good
    <2>17. Removed(s, r, i)
      BY <2>11, <2>13 DEF Removed, q, copied
    <2> QED
      BY <1>2, <2>2, <2>16, <2>17 DEF r
  <1> QED
    BY <1>1, <1>2

LEMMA FreeGood ==
    ASSUME NEW s, Good(s), NEW address
    PROVE  Good(FreePhysicalMemory(s, address))
  BY FreeIs

-----------------------------------------------------------------------------
\* The drivers' calls

LEMMA MemoryGood ==
    ASSUME NEW s, Good(s), NEW m \in Memory
    PROVE  Good(WithMemory(s, m))
  <1> DEFINE t == WithMemory(s, m)
  <1>1. s \in State
    BY DEF Good, OwnsWithTable
  <1>2. /\ t \in State /\ t.descriptors = s.descriptors
        /\ t.Allocations = s.Allocations /\ t.AllocData = s.AllocData
    BY <1>1, WithMemoryFields
  <1> HIDE DEF t
  <1>3. EntryBlocks(t) = EntryBlocks(s) /\ TableBlock(t) = TableBlock(s)
    BY <1>2 DEF EntryBlocks, TableBlock
  <1>4. Good(t)
    BY <1>2, <1>3 DEF Good, OwnsWithTable
  <1> QED
    BY <1>4 DEF t

LEMMA ReallocateGood ==
    ASSUME NEW s, Good(s), Len(s.Allocations) < MaxLive,
           NEW address, NEW count \in 1 .. SizeMod - FrameSize
    PROVE  Good(ReallocatePhysicalMemory(s, address, count))
  <1> DEFINE new    == AllocatePhysicalMemory(s, count)
             m      == CopyMemory(new.s.memory, new.memory, address, count)
             copied == WithMemory(new.s, m)
  <1>1. Good(new.s)
    BY AllocateGood
  <1>2. m \in Memory
    BY <1>1, CopyMemoryTyped DEF Good, OwnsWithTable, State
  <1>3. Good(copied)
    <2> HIDE DEF new, m
    <2> QED
      BY <1>1, <1>2, MemoryGood
  <1>4. Good(FreePhysicalMemory(copied, address))
    BY <1>3, FreeGood
  <1>5. ReallocatePhysicalMemory(s, address, count) \in {new.s, FreePhysicalMemory(copied, address)}
    BY DEF ReallocatePhysicalMemory, MoveTo, WithMemory
  <1> HIDE DEF new, copied
  <1> QED
    BY <1>1, <1>4, <1>5

LEMMA ConcatGood ==
    ASSUME NEW s, Good(s), Len(s.Allocations) < MaxLive,
           NEW first, NEW second,
           NEW firstSize \in Request \cup {0}, NEW secondSize \in Request
    PROVE  Good(ConcatMemory(s, first, second, firstSize, secondSize).s)
  <1> DEFINE count  == (firstSize + secondSize) % SizeMod
             new    == AllocatePhysicalMemory(s, count)
             prefix == CopyMemory(new.s.memory, new.memory, first, firstSize)
             whole  == CopyMemory(prefix, new.memory + firstSize, second, secondSize)
             r      == ConcatMemory(s, first, second, firstSize, secondSize)
  <1>1. count \in 1 .. SizeMod - FrameSize
    <2>1. /\ firstSize + secondSize \in 1 .. SizeMod - FrameSize
          /\ firstSize + secondSize \in Nat
          /\ firstSize + secondSize < SizeMod
      BY SizesAssumption, RequestAssumption
    <2>2. (firstSize + secondSize) % SizeMod = firstSize + secondSize
      BY <2>1, ModSmall, SizesAssumption
    <2> QED
      BY <2>1, <2>2
  <1> HIDE DEF count
  <1>2. Good(new.s)
    BY <1>1, AllocateGood
  <1>3. whole \in Memory
    BY <1>2, CopyMemoryTyped DEF Good, OwnsWithTable, State
  <1>4. Good(WithMemory(new.s, whole))
    <2> HIDE DEF new, whole
    <2> QED
      BY <1>2, <1>3, MemoryGood
  <1>5. r \in {new, [new EXCEPT !.s.memory = whole]}
    BY DEF ConcatMemory, JoinIn, count
  <1>6. new = [s |-> new.s, memory |-> new.memory]
    BY DEF AllocatePhysicalMemory
  <1>7. r.s = new.s \/ r.s = WithMemory(new.s, whole)
    <2>1. CASE r = new
      BY <2>1
    <2>2. CASE r = [new EXCEPT !.s.memory = whole]
      <3> HIDE DEF r, whole
      <3>1. DOMAIN new = {"s", "memory"}
        BY <1>6
      <3> HIDE DEF new
      <3> QED
        BY <2>2, <3>1 DEF WithMemory
    <2> QED
      BY <1>5, <2>1, <2>2
  <1> HIDE DEF r, new, whole
  <1>8. Good(r.s)
    BY <1>2, <1>4, <1>7
  <1> QED
    BY <1>8 DEF r
-----------------------------------------------------------------------------
\* The invariant and what follows from it

IInv == Good(Current)

LEMMA InitGood == Init => IInv
  <1> SUFFICES ASSUME Init PROVE Good(Current)
    BY DEF IInv
  <1>1. Current \in State
    <2>1. descriptors \in Descriptors
      BY DEF Init, Descriptors
    <2>2. memory \in Memory
      BY DEF Init, Memory, Byte
    <2>3. Allocations \in Seq(Block) /\ AllocData \in Block
      BY DEF Init, NoBlock, Block, NULL
    <2> QED
      BY <2>1, <2>2, <2>3 DEF Current, State
  <1>2. EntryBlocks(Current) = {} /\ TableBlock(Current) = {} /\ Len(Current.Allocations) = 0
    BY DEF Current, EntryBlocks, TableBlock, Init
  <1>3. Owns(Current.descriptors, {})
    BY <1>1 DEF Owns, Accounts, Current, Init, State
  <1> QED
    BY <1>1, <1>2, <1>3, SizesAssumption DEF Good, OwnsWithTable

\* A step that ends in a good state establishes the invariant again.
LEMMA BecomeGood ==
    ASSUME NEW s, Good(s), Become(s)
    PROVE  IInv'
  <1>1. s \in State
    BY DEF Good, OwnsWithTable
  <1>2. s = [descriptors |-> s.descriptors, Allocations |-> s.Allocations,
             AllocData |-> s.AllocData, memory |-> s.memory]
    BY <1>1 DEF State
  <1>3. Current' = s
    BY <1>2 DEF Current, Become
  <1>4. IInv' <=> Good(Current')
    BY DEF IInv, Good, OwnsWithTable, Owns, EntryBlocks, TableBlock, Accounts, State,
           Current
  <1> QED
    BY <1>3, <1>4

LEMMA NextGood == IInv /\ [Next]_vars => IInv'
  <1> SUFFICES ASSUME IInv, [Next]_vars PROVE IInv'
    OBVIOUS
  <1>1. Good(Current) /\ Current.Allocations = Allocations /\ Current \in State
    BY DEF IInv, Current, Good, OwnsWithTable
  <1>2. Request \subseteq 1 .. SizeMod - FrameSize
    BY RequestAssumption
  <1>3. ASSUME NEW count \in Request, Allocate(count)
        PROVE  IInv'
    <2>1. Good(AllocatePhysicalMemory(Current, count).s)
      BY <1>1, <1>2, <1>3, AllocateGood DEF Allocate
    <2> QED
      BY <1>3, <2>1, BecomeGood DEF Allocate
  <1>4. ASSUME NEW address, NEW count \in Request, Reallocate(address, count)
        PROVE  IInv'
    <2>1. Good(ReallocatePhysicalMemory(Current, address, count))
      BY <1>1, <1>2, <1>4, ReallocateGood DEF Reallocate
    <2> QED
      BY <1>4, <2>1, BecomeGood DEF Reallocate
  <1>5. ASSUME NEW first, NEW second, NEW firstSize \in Request \cup {0},
               NEW secondSize \in Request, Concat(first, second, firstSize, secondSize)
        PROVE  IInv'
    <2>1. Good(ConcatMemory(Current, first, second, firstSize, secondSize).s)
      BY <1>1, <1>5, ConcatGood DEF Concat
    <2> QED
      BY <1>5, <2>1, BecomeGood DEF Concat
  <1>6. ASSUME NEW address, Free(address)
        PROVE  IInv'
    BY <1>1, <1>6, FreeGood, BecomeGood DEF Free
  <1>7. ASSUME NEW address, NEW value \in Value, Fill(address, value)
        PROVE  IInv'
    <2> DEFINE m == FillMemory(memory, address, value, BlockAt(address).DataSize)
    <2>1. m \in Memory
      BY <1>1, FillMemoryTyped DEF State, Current, Byte
    <2>2. Good(WithMemory(Current, m))
      <3> HIDE DEF m
      <3> QED
        BY <1>1, <2>1, MemoryGood
    <2>3. Become(WithMemory(Current, m))
      BY <1>7 DEF Fill, Become, WithMemory, Current
    <2> QED
      BY <2>2, <2>3, BecomeGood
  <1>8. CASE UNCHANGED vars
    <2>1. Become(Current)
      BY <1>8 DEF vars, Become, Current
    <2> QED
      BY <1>1, <2>1, BecomeGood
  <1> QED
    BY <1>3, <1>4, <1>5, <1>6, <1>7, <1>8 DEF Next

LEMMA InvariantImplies == IInv => TypeOK /\ BlocksDisjoint /\ FramesAccounted
  <1> SUFFICES ASSUME IInv PROVE TypeOK /\ BlocksDisjoint /\ FramesAccounted
    OBVIOUS
  <1>1. /\ descriptors \in Descriptors /\ Allocations \in Seq(Block)
        /\ AllocData \in Block /\ memory \in Memory
    BY DEF IInv, Good, OwnsWithTable, State, Current
  <1>2. Blocks = EntryBlocks(Current) \cup TableBlock(Current)
    BY DEF Blocks, EntryBlocks, TableBlock, Current
  <1>3. Owns(descriptors, Blocks)
    BY <1>2 DEF IInv, Good, OwnsWithTable, Current
  <1>4. \A i \in 1 .. Len(Allocations) : Allocations[i] \in Blocks /\ Allocations[i] # AllocData
    BY <1>2 DEF IInv, Good, OwnsWithTable, EntryBlocks, Current
  <1>5. AllocData = NoBlock \/ AllocData \in Blocks
    BY DEF Blocks
  <1>6. TypeOK
    BY <1>1, <1>3, <1>4, <1>5 DEF TypeOK, Owns, Descriptors, Memory
  <1>7. BlocksDisjoint
    <2>1. ASSUME NEW i \in 1 .. Len(Allocations), NEW j \in 1 .. Len(Allocations), i # j
          PROVE  FramesOf(Allocations[i]) \cap FramesOf(Allocations[j]) = {}
      <3>1. Allocations[i] # Allocations[j]
        BY <2>1 DEF IInv, Good, Current
      <3> QED
        BY <1>3, <1>4, <3>1 DEF Owns
    <2>2. ASSUME NEW i \in 1 .. Len(Allocations)
          PROVE  FramesOf(Allocations[i]) \cap FramesOf(AllocData) = {}
      <3>1. CASE AllocData = NoBlock
        <4>1. Pages(NoBlock) = 0
          BY DivMul, SizesAssumption DEF Pages, NoBlock
        <4>2. FramesOf(NoBlock) = {}
          BY <4>1 DEF FramesOf, Run, NoBlock
        <4> QED
          BY <3>1, <4>2
      <3>2. CASE AllocData # NoBlock
        BY <1>3, <1>4, <1>5, <3>2 DEF Owns
      <3> QED
        BY <3>1, <3>2
    <2> QED
      BY <2>1, <2>2 DEF BlocksDisjoint
  <1>8. FramesAccounted
    BY <1>3 DEF Owns, FramesAccounted
  <1> QED
    BY <1>6, <1>7, <1>8

LEMMA Invariance == Spec => []IInv
  <1> QED
    BY InitGood, NextGood, PTL DEF Spec

\* In every state the manager can reach, every field has its type and every
\* block, the table's included, is a run of frames inside one region.
THEOREM TypeCorrect == Spec => []TypeOK
  <1>1. IInv => TypeOK
    BY InvariantImplies
  <1> QED
    BY <1>1, Invariance, PTL

\* No frame ever belongs to two blocks.
THEOREM NoSharedFrames == Spec => []BlocksDisjoint
  <1>1. IInv => BlocksDisjoint
    BY InvariantImplies
  <1> QED
    BY <1>1, Invariance, PTL

\* The busy frames are at all times exactly the frames of the table's entries
\* and of the table: no path of any call leaks or loses a frame.
THEOREM NoLeakedFrames == Spec => []FramesAccounted
  <1>1. IInv => FramesAccounted
    BY InvariantImplies
  <1> QED
    BY <1>1, Invariance, PTL
-----------------------------------------------------------------------------
\* The bytes of a block

Extent(b) == b.DataAddress .. b.DataAddress + b.DataSize - 1

LEMMA Multiples ==
    ASSUME NEW j \in Nat, NEW p \in Nat, NEW n \in Nat, NEW c \in Nat, j + p <= n
    PROVE  j * c \in Nat /\ p * c \in Nat /\ n * c \in Nat /\ j * c + p * c <= n * c
<1>1. (j + p) * c <= n * c /\ (j + p) * c = j * c + p * c
  BY SMT
<1> QED
  BY <1>1

\* A block ends inside its region.
LEMMA ExtentInside ==
    ASSUME NEW b \in Block, IsBlock(b)
    PROVE  /\ b.DataAddress \in Nat /\ b.DataSize \in Nat
           /\ b.DataSize = Pages(b) * FrameSize
           /\ b.DataAddress = Regions[b.RegionIndex].Data + b.FrameIndex * FrameSize
           /\ Regions[b.RegionIndex].Data > 0
           /\ b.DataAddress >= Regions[b.RegionIndex].Data
           /\ b.FrameIndex \in Nat /\ b.FrameIndex * FrameSize \in Nat
           /\ b.RegionIndex \in 1 .. Len(Regions)
           /\ b.DataAddress + b.DataSize
                <= Regions[b.RegionIndex].Data + Regions[b.RegionIndex].Length * FrameSize
           /\ b.DataAddress + b.DataSize <= MemTop
           /\ b.DataAddress > 0
<1> DEFINE r == Regions[b.RegionIndex]
           j == b.FrameIndex
           p == Pages(b)
<1>1. /\ p \in Nat /\ j \in Nat /\ j + p <= r.Length /\ FirstFrame(b) \in Frame
      /\ b.DataAddress \in Nat /\ b.DataSize \in Nat
  BY BlockPages DEF Block
<1>2. b.RegionIndex \in 1 .. Len(Regions)
  BY <1>1, FrameIs DEF FirstFrame
<1>3. r.Length \in Nat /\ r.Data \in Nat /\ r.Data > 0
  <2>1. Regions[b.RegionIndex] \in [Type : {USABLE, RESERVED, RECLAIMABLE}, Data : Nat \ {0}, Length : Nat]
    BY <1>2, RegionsAssumption, ElementOfSeq
  <2> QED
    BY <2>1
<1>4. r.Data + r.Length * FrameSize <= MemTop
  BY <1>2, RegionsAssumption
<1>5. b.DataAddress = r.Data + j * FrameSize
  BY DEF IsBlock, FrameAddress, FirstFrame
<1>6. b.DataSize = p * FrameSize
  <2>1. PICK pages \in 1 .. r.Length - j : b.DataSize = pages * FrameSize
    BY DEF IsBlock
  <2>2. Pages(b) = pages
    BY <1>1, <1>3, <2>1, DivMul, SizesAssumption DEF Pages
  <2> QED
    BY <2>1, <2>2
<1> DEFINE jb == j * FrameSize
           pb == p * FrameSize
           lb == r.Length * FrameSize
<1>7. jb \in Nat /\ pb \in Nat /\ lb \in Nat /\ jb + pb <= lb
  BY <1>1, <1>3, Multiples, SizesAssumption
<1>8. /\ b.DataAddress = r.Data + jb /\ b.DataSize = pb /\ r.Data + lb <= MemTop
  BY <1>4, <1>5, <1>6
<1> HIDE DEF jb, pb, lb, r, p
<1>9. /\ b.DataAddress + b.DataSize <= r.Data + lb /\ b.DataAddress + b.DataSize <= MemTop
      /\ b.DataAddress > 0 /\ b.DataAddress >= r.Data
  BY <1>3, <1>7, <1>8, SizesAssumption
<1> QED
  BY <1>1, <1>2, <1>3, <1>5, <1>6, <1>7, <1>9 DEF r, lb, jb, p

\* Blocks without a common frame have no byte in common.
LEMMA ExtentsApart ==
    ASSUME NEW b \in Block, IsBlock(b), NEW c \in Block, IsBlock(c),
           FramesOf(b) \cap FramesOf(c) = {}
    PROVE  Extent(b) \cap Extent(c) = {}
<1> DEFINE ends(x) == x.DataAddress + x.DataSize
<1>1. /\ b.DataAddress \in Nat /\ b.DataSize \in Nat /\ c.DataAddress \in Nat /\ c.DataSize \in Nat
  BY ExtentInside
<1>2. ends(b) <= c.DataAddress \/ ends(c) <= b.DataAddress
  <2>1. CASE b.RegionIndex # c.RegionIndex
    <3> DEFINE rb == Regions[b.RegionIndex]
               rc == Regions[c.RegionIndex]
    <3>1. \/ rb.Data + rb.Length * FrameSize <= rc.Data
          \/ rc.Data + rc.Length * FrameSize <= rb.Data
      BY <2>1, ExtentInside, RegionsAssumption
    <3>2. /\ ends(b) <= rb.Data + rb.Length * FrameSize
          /\ ends(c) <= rc.Data + rc.Length * FrameSize
          /\ b.DataAddress >= rb.Data /\ c.DataAddress >= rc.Data
          /\ rb.Data \in Nat /\ rc.Data \in Nat
      <4>1. rb.Data \in Nat /\ rc.Data \in Nat
        BY ExtentInside, RegionsTyped
      <4> QED
        BY <4>1, ExtentInside
    <3> DEFINE eb == rb.Data + rb.Length * FrameSize
               ec == rc.Data + rc.Length * FrameSize
    <3>3. eb \in Int /\ ec \in Int
      <4>1. rb.Length \in Nat /\ rc.Length \in Nat /\ FrameSize \in Nat
        BY ExtentInside, RegionsTyped, SizesAssumption
      <4>2. \A x, y, z \in Nat : x + y * z \in Int
        BY SMT
      <4> QED
        BY <3>2, <4>1, <4>2
    <3>4. /\ eb <= rc.Data \/ ec <= rb.Data
          /\ ends(b) <= eb /\ ends(c) <= ec
      BY <3>1, <3>2
    <3> HIDE DEF eb, ec
    <3> QED
      BY <1>1, <3>2, <3>3, <3>4
  <2>2. CASE b.RegionIndex = c.RegionIndex
    <3> DEFINE j == b.FrameIndex
               p == Pages(b)
               k == c.FrameIndex
               q == Pages(c)
    <3>1. /\ j \in Nat /\ k \in Nat /\ p \in Nat \ {0} /\ q \in Nat \ {0}
          /\ FramesOf(b) = Run(b.RegionIndex, j, p)
          /\ FramesOf(c) = Run(b.RegionIndex, k, q)
      BY <2>2, BlockPages DEF Block
    <3> HIDE DEF j, p, k, q
    <3>2. j + p <= k \/ k + q <= j
      <4>1. SUFFICES ASSUME k < j + p, j < k + q PROVE FALSE
        BY <3>1
      <4>2. CASE j <= k
        <5>1. k \in j .. j + p - 1 /\ k \in k .. k + q - 1
          BY <3>1, <4>1, <4>2
        <5>2. <<b.RegionIndex, k>> \in FramesOf(b) \cap FramesOf(c)
          BY <3>1, <5>1 DEF Run
        <5> QED
          BY <5>2
      <4>3. CASE k < j
        <5>1. j \in j .. j + p - 1 /\ j \in k .. k + q - 1
          BY <3>1, <4>1, <4>3
        <5>2. <<b.RegionIndex, j>> \in FramesOf(b) \cap FramesOf(c)
          BY <3>1, <5>1 DEF Run
        <5> QED
          BY <5>2
      <4> QED
        BY <3>1, <4>2, <4>3
    <3> DEFINE jb == j * FrameSize
               pb == p * FrameSize
               kb == k * FrameSize
               qb == q * FrameSize
               base == Regions[b.RegionIndex].Data
    <3>3. jb \in Nat /\ pb \in Nat /\ kb \in Nat /\ qb \in Nat /\ (jb + pb <= kb \/ kb + qb <= jb)
      BY <3>1, <3>2, Multiples, SizesAssumption
    <3>4. /\ b.DataAddress = base + jb /\ b.DataSize = pb
          /\ c.DataAddress = base + kb /\ c.DataSize = qb /\ base \in Nat
      BY <2>2, ExtentInside, RegionsTyped DEF j, p, k, q
    <3> HIDE DEF jb, pb, kb, qb, base
    <3> QED
      BY <3>3, <3>4
  <2> QED
    BY <2>1, <2>2
<1> QED
  BY <1>1, <1>2 DEF Extent

-----------------------------------------------------------------------------
\* The table and the blocks of a state

\* The table's block has room for the entries, in whole frames, and they are in it.
TableHolds(s) ==
    /\ s.AllocData.DataSize >= TableSize(Len(s.Allocations))
    /\ \A x \in 0 .. Len(s.Allocations) * EntrySize - 1 :
          s.memory[s.AllocData.DataAddress + x] = EntryByte

Sound(s) == Good(s) /\ TableHolds(s)

\* The blocks of S have the same bytes in both states.
SameBytes(s, t, S) == \A b \in S : \A a \in Extent(b) : t.memory[a] = s.memory[a]

AllBlocks(s) == EntryBlocks(s) \cup TableBlock(s)

LEMMA GoodIs ==
    ASSUME NEW s, Good(s)
    PROVE  /\ s \in State /\ s.memory \in Memory /\ s.AllocData \in Block
           /\ s.Allocations \in Seq(Block)
           /\ Len(s.Allocations) \in 0 .. MaxLive
           /\ s.AllocData \notin EntryBlocks(s)
           /\ \A b \in AllBlocks(s) :
                 /\ b \in Block /\ IsBlock(b) /\ b # NoBlock
                 /\ b.DataAddress \in Nat \ {0} /\ b.DataSize \in Nat \ {0}
                 /\ Extent(b) \subseteq 0 .. MemTop - 1
           /\ \A b, c \in AllBlocks(s) :
                 b # c => Extent(b) \cap Extent(c) = {} /\ b.DataAddress # c.DataAddress
<1>1. /\ s \in State /\ s.memory \in Memory /\ s.AllocData \in Block
      /\ s.Allocations \in Seq(Block) /\ Len(s.Allocations) \in Nat
      /\ Len(s.Allocations) <= MaxLive
      /\ s.AllocData \notin EntryBlocks(s)
  BY DEF Good, OwnsWithTable, State
<1>2. \A b \in AllBlocks(s) : b \in Block /\ IsBlock(b)
  BY DEF Good, OwnsWithTable, Owns, AllBlocks
<1>3. \A b \in AllBlocks(s) :
         /\ b # NoBlock /\ b.DataAddress \in Nat \ {0} /\ b.DataSize \in Nat \ {0}
         /\ b.DataAddress + b.DataSize <= MemTop
  <2> TAKE b \in AllBlocks(s)
  <2>1. Pages(b) \in Nat \ {0} /\ b # NoBlock
    BY <1>2, BlockPages
  <2>2. /\ b.DataAddress \in Nat /\ b.DataSize \in Nat /\ b.DataAddress > 0
        /\ b.DataSize = Pages(b) * FrameSize /\ b.DataAddress + b.DataSize <= MemTop
    BY <1>2, ExtentInside
  <2>3. Pages(b) * FrameSize # 0
    BY <2>1, SizesAssumption
  <2> QED
    BY <2>1, <2>2, <2>3
<1>4. \A b \in AllBlocks(s) : Extent(b) \subseteq 0 .. MemTop - 1
  BY <1>3, SizesAssumption DEF Extent
<1>5. \A b, c \in AllBlocks(s) : b # c => FramesOf(b) \cap FramesOf(c) = {}
  BY DEF Good, OwnsWithTable, Owns, AllBlocks
<1>6. \A b, c \in AllBlocks(s) : b # c => Extent(b) \cap Extent(c) = {}
  BY <1>2, <1>5, ExtentsApart
<1>7. \A b \in AllBlocks(s) : b.DataAddress \in Extent(b)
  BY <1>3 DEF Extent
<1>8. \A b, c \in AllBlocks(s) : b # c => b.DataAddress # c.DataAddress
  BY <1>6, <1>7
<1> QED
  BY <1>1, <1>2, <1>3, <1>4, <1>6, <1>8, SizesAssumption

\* Whole frames are rounded to themselves.
LEMMA AlignedStays ==
    ASSUME NEW x \in 0 .. SizeMod - FrameSize, NEW p \in Nat, x = p * FrameSize
    PROVE  AlignUp(x) = x
<1> DEFINE q == AlignUp(x) \div FrameSize
<1>1. /\ q \in Nat /\ AlignUp(x) = q * FrameSize
      /\ p * FrameSize <= q * FrameSize /\ q * FrameSize < p * FrameSize + FrameSize
  BY AlignUpRounds
<1>2. FrameSize \in Nat \ {0}
  BY SizesAssumption
<1> HIDE DEF q
<1>3. CASE q < p
  BY <1>1, <1>2, <1>3, Multiples, (q + 1) * FrameSize <= p * FrameSize,
     (q + 1) * FrameSize = q * FrameSize + FrameSize
<1>4. CASE p < q
  BY <1>1, <1>2, <1>4, (p + 1) * FrameSize <= q * FrameSize,
     (p + 1) * FrameSize = p * FrameSize + FrameSize
<1>5. CASE p = q
  BY <1>1, <1>5
<1> QED
  BY <1>1, <1>3, <1>4, <1>5

\* The table's block is as large as it was asked to be.
LEMMA TableStays == ASSUME NEW n \in 0 .. MaxLive
                    PROVE  AlignUp(TableSize(n)) = TableSize(n)
<1> DEFINE x == EntrySize * n
           t == TableSize(n)
           p == AlignUp(x) \div FrameSize
<1>1. x \in Nat /\ x <= t /\ t \in 0 .. SizeMod - FrameSize /\ t = AlignUp(x)
  BY TableSizes
<1> HIDE DEF x, t
<1>2. x \in 0 .. SizeMod - FrameSize
  BY <1>1, SizesAssumption
<1>3. p \in Nat /\ t = p * FrameSize
  BY <1>1, <1>2, AlignUpRounds
<1> HIDE DEF p
<1>4. AlignUp(t) = t
  BY <1>1, <1>3, AlignedStays
<1> QED
  BY <1>4 DEF t

-----------------------------------------------------------------------------
\* What each operation does to the table and the bytes

\* AllocatePhysicalMemory (memory.c:153-175) fails and leaves the table and the bytes, or
\* enters a new block, writing nothing but the entry and what a move of the table copies.
Entered(s, t, b) ==
    /\ t.Allocations = Append(s.Allocations, b)
    /\ \E m \in Memory :
          /\ t.memory = FillMemory(m, t.AllocData.DataAddress + Len(s.Allocations) * EntrySize,
                                   EntryByte, EntrySize)
          /\ IF TableSize(Len(s.Allocations) + 1) > TableSize(Len(s.Allocations))
             THEN TableMoved(s.memory, s.AllocData, m, t.AllocData,
                             TableSize(Len(s.Allocations) + 1))
             ELSE m = s.memory /\ t.AllocData = s.AllocData

LEMMA AllocateIs ==
    ASSUME NEW s, Good(s), Len(s.Allocations) < MaxLive,
           NEW count \in 1 .. SizeMod - FrameSize,
           NEW r, r = AllocatePhysicalMemory(s, count)
    PROVE  /\ Good(r.s)
           /\ \/ /\ r.memory = NULL /\ r.s.Allocations = s.Allocations
                 /\ r.s.AllocData = s.AllocData /\ r.s.memory = s.memory
              \/ \E b \in Block :
                    /\ r.memory = b.DataAddress /\ b.DataAddress # NULL
                    /\ b.DataSize = AlignUp(count) /\ b \notin AllBlocks(s)
                    /\ Entered(s, r.s, b)
<1> DEFINE n     == Len(s.Allocations)
           data  == AllocatePhysicalFrames(s.descriptors, count)
           taken == [s EXCEPT !.descriptors = data.descriptors]
           table == IF TableSize(n + 1) > TableSize(n)
                    THEN ReallocatePhysicalFrames(taken, TableSize(n + 1))
                    ELSE [ok |-> TRUE, s |-> taken]
           entry == table.s.AllocData.DataAddress + n * EntrySize
           b     == data.block
           X     == EntryBlocks(s) \cup {b}
<1>1. Good(r.s) /\ s \in State /\ n \in 0 .. MaxLive /\ n + 1 \in 0 .. MaxLive
  BY AllocateGood, GoodIs, SizesAssumption
<1>2. CASE b = NoBlock
  BY <1>1, <1>2 DEF AllocatePhysicalMemory
<1>3. CASE b # NoBlock
  <2>1. /\ b \in Block /\ IsBlock(b) /\ b \notin AllBlocks(s)
        /\ Owns(data.descriptors, AllBlocks(s) \cup {b})
    BY <1>3, AllocateOwns DEF Good, OwnsWithTable, AllBlocks
  <2>2. b.DataAddress # NULL /\ b.DataSize = AlignUp(count)
    <3>1. b.DataAddress # NULL
      BY <2>1, ExtentInside DEF NULL
    <3>2. b.DataSize = AlignUp(count)
      BY <1>3 DEF AllocatePhysicalFrames
    <3> QED
      BY <3>1, <3>2
  <2>3. /\ taken \in State /\ taken.memory = s.memory
        /\ taken.Allocations = s.Allocations /\ taken.AllocData = s.AllocData
        /\ taken.descriptors = data.descriptors
    BY <1>1, <2>1 DEF Owns, State
  <2>4. OwnsWithTable(taken, X)
    <3>1. TableBlock(taken) = TableBlock(s)
      BY <2>3 DEF TableBlock
    <3>2. taken.AllocData \notin X
      BY <1>3, <2>1, <2>3 DEF Good, OwnsWithTable, AllBlocks, TableBlock
    <3>3. AllBlocks(s) \cup {b} = X \cup TableBlock(taken)
      BY <3>1 DEF AllBlocks
    <3> QED
      BY <2>1, <2>3, <3>2, <3>3 DEF OwnsWithTable
  <2> HIDE DEF taken, X
  <2>5. /\ table.s \in State /\ table.s.Allocations = s.Allocations
        /\ \/ table.ok = FALSE /\ table.s = taken
           \/ /\ table.ok = TRUE
              /\ IF TableSize(n + 1) > TableSize(n)
                 THEN TableMoved(s.memory, s.AllocData, table.s.memory, table.s.AllocData,
                                 TableSize(n + 1))
                 ELSE table.s = taken
    <3>1. CASE TableSize(n + 1) > TableSize(n)
      <4>1. TableSize(n + 1) \in 1 .. SizeMod - FrameSize
        BY <1>1, <3>1, TableSizes, SizesAssumption
      <4>2. table = ReallocatePhysicalFrames(taken, TableSize(n + 1))
        BY <3>1
      <4> HIDE DEF table
      <4>3. /\ OwnsWithTable(table.s, X)
            /\ table.s.Allocations = taken.Allocations
            /\ \/ table.ok = FALSE /\ table.s = taken
               \/ /\ table.ok = TRUE
                  /\ TableMoved(taken.memory, taken.AllocData, table.s.memory,
                                table.s.AllocData, TableSize(n + 1))
        BY <2>4, <4>1, <4>2, TableMoves
      <4> QED
        BY <2>3, <3>1, <4>3 DEF OwnsWithTable
    <3>2. CASE ~ (TableSize(n + 1) > TableSize(n))
      <4>1. table = [ok |-> TRUE, s |-> taken]
        BY <3>2
      <4> HIDE DEF table
      <4> QED
        BY <2>3, <3>2, <4>1
    <3> QED
      BY <3>1, <3>2
  <2>6. CASE table.ok = FALSE
    <3>1. r = [s |-> [table.s EXCEPT !.descriptors = FreePhysicalFrames(@, b)], memory |-> NULL]
      BY <1>3, <2>6 DEF AllocatePhysicalMemory, taken
    <3>2. table.s = taken
      BY <2>5, <2>6
    <3> HIDE DEF table
    <3> QED
      BY <1>1, <2>3, <3>1, <3>2 DEF State
  <2>7. CASE table.ok = TRUE
    <3> DEFINE filled == FillMemory(table.s.memory, entry, EntryByte, EntrySize)
    <3>1. r = [s |-> [table.s EXCEPT !.Allocations = Append(@, b), !.memory = filled],
               memory |-> b.DataAddress]
      BY <1>3, <2>7 DEF AllocatePhysicalMemory, taken
    <3> HIDE DEF table
    <3>3. table.s.memory \in Memory /\ filled \in Memory
      BY <2>5, FillMemoryTyped DEF State, Byte
    <3> HIDE DEF filled, data
    <3>2. /\ r.memory = b.DataAddress /\ r.s.Allocations = Append(s.Allocations, b)
          /\ r.s.memory = filled /\ r.s.AllocData = table.s.AllocData
      <4> DEFINE q == Append(s.Allocations, b)
      <4>1. q \in Seq(Block)
        BY <1>1, <2>1, AppendProperties DEF State
      <4>2. r.memory = b.DataAddress /\ r.s = WithEntries(table.s, q, filled)
        BY <2>5, <3>1 DEF WithEntries
      <4> HIDE DEF q
      <4>3. r.s.Allocations = q /\ r.s.memory = filled /\ r.s.AllocData = table.s.AllocData
        BY <2>5, <3>3, <4>1, <4>2, WithEntriesFields
      <4> QED
        BY <4>2, <4>3 DEF q
    <3>4. Entered(s, r.s, b)
      BY <2>3, <2>5, <2>7, <3>2, <3>3 DEF Entered, filled
    <3> QED
      BY <1>1, <2>1, <2>2, <3>2, <3>4
  <2> QED
    BY <2>5, <2>6, <2>7
<1> QED
  BY <1>2, <1>3

LEMMA CopyAt ==
    ASSUME NEW m, NEW destination, NEW source, NEW count, NEW a \in 0 .. MemTop - 1
    PROVE  CopyMemory(m, destination, source, count)[a] =
              IF a \in destination .. destination + count - 1
              THEN Read(m, source + (a - destination)) ELSE m[a]
BY DEF CopyMemory

LEMMA FillAt ==
    ASSUME NEW m, NEW destination, NEW value, NEW count, NEW a \in 0 .. MemTop - 1
    PROVE  FillMemory(m, destination, value, count)[a] =
              IF a \in destination .. destination + count - 1 THEN value ELSE m[a]
BY DEF FillMemory

LEMMA EntriesAfter ==
    ASSUME NEW s, Good(s), NEW t, NEW b \in Block, t.Allocations = Append(s.Allocations, b)
    PROVE  /\ Len(t.Allocations) = Len(s.Allocations) + 1
           /\ \A i \in 1 .. Len(s.Allocations) : t.Allocations[i] = s.Allocations[i]
           /\ t.Allocations[Len(t.Allocations)] = b
           /\ EntryBlocks(t) = EntryBlocks(s) \cup {b}
<1> DEFINE n == Len(s.Allocations)
           q == Append(s.Allocations, b)
<1>1. s.Allocations \in Seq(Block) /\ n \in Nat
  BY GoodIs
<1>2. Len(q) = n + 1 /\ q[n + 1] = b /\ \A i \in 1 .. n : q[i] = s.Allocations[i]
  BY <1>1, AppendProperties
<1> HIDE DEF q
<1>3. EntryBlocks(t) = {q[i] : i \in 1 .. n + 1}
  BY <1>2 DEF EntryBlocks, q
<1>4. /\ \A i \in 1 .. n + 1 : q[i] \in EntryBlocks(s) \cup {b}
      /\ \A c \in EntryBlocks(s) \cup {b} : \E i \in 1 .. n + 1 : q[i] = c
  BY <1>1, <1>2 DEF EntryBlocks
<1> QED
  BY <1>2, <1>3, <1>4 DEF q

\* The new entry stands behind the others, which a move of the table has taken along;
\* only a table smaller than the old one is overrun by its copy (memory.c:157-172, 280).
LEMMA EnteredKeeps ==
    ASSUME NEW s, Sound(s), Len(s.Allocations) < MaxLive, NEW t, Good(t),
           NEW b \in Block, Entered(s, t, b)
    PROVE  /\ TableHolds(t)
           /\ t.AllocData.DataSize >= s.AllocData.DataSize => SameBytes(s, t, EntryBlocks(s))
           /\ \/ t.AllocData = s.AllocData
              \/ t.AllocData.DataSize = TableSize(Len(s.Allocations) + 1)
<1> DEFINE n   == Len(s.Allocations)
           old == s.AllocData
           new == t.AllocData
           e   == n * EntrySize
           grows == TableSize(n + 1) > TableSize(n)
<1>1. /\ n \in 0 .. MaxLive /\ n + 1 \in 0 .. MaxLive /\ Len(t.Allocations) = n + 1
      /\ EntrySize \in Nat \ {0} /\ e \in Nat
  BY GoodIs, EntriesAfter, SizesAssumption DEF Sound, Entered
<1>2. PICK m \in Memory :
         /\ t.memory = FillMemory(m, new.DataAddress + e, EntryByte, EntrySize)
         /\ IF grows THEN TableMoved(s.memory, old, m, new, TableSize(n + 1))
                     ELSE m = s.memory /\ new = old
  BY DEF Entered
<1>3. /\ TableSize(n) \in Nat /\ e <= TableSize(n)
      /\ TableSize(n + 1) \in Nat /\ e + EntrySize <= TableSize(n + 1)
  <2>1. EntrySize * n = e /\ EntrySize * (n + 1) = e + EntrySize
    BY <1>1
  <2> QED
    BY <1>1, <2>1, TableSizes
<1>4. old.DataSize >= TableSize(n) /\ old.DataSize \in Nat /\ old.DataAddress \in Nat
  BY GoodIs DEF Sound, TableHolds, Block
<1>5. grows => new.DataSize = TableSize(n + 1)
  BY <1>1, <1>2, TableStays DEF TableMoved
<1>6. new.DataSize >= TableSize(n + 1) /\ new.DataSize \in Nat
  <2>1. CASE grows
    BY <1>3, <1>5, <2>1
  <2>2. CASE ~grows
    BY <1>2, <1>3, <1>4, <2>2
  <2> QED
    BY <2>1, <2>2
<1>7. new \in AllBlocks(t)
  <2>1. new # NoBlock
    BY <1>1, <1>3, <1>6 DEF NoBlock
  <2> QED
    BY <2>1 DEF AllBlocks, TableBlock
<1>8. new.DataAddress \in Nat /\ Extent(new) \subseteq 0 .. MemTop - 1
  BY <1>7, GoodIs
<1>9. e + EntrySize <= new.DataSize
  BY <1>1, <1>3, <1>6
<1> HIDE DEF e, grows
<1>10. \A x \in 0 .. e + EntrySize - 1 : t.memory[new.DataAddress + x] = EntryByte
  <2> TAKE x \in 0 .. e + EntrySize - 1
  <2> DEFINE a == new.DataAddress + x
  <2>1. x \in Nat /\ x < new.DataSize /\ a \in Extent(new) /\ a \in 0 .. MemTop - 1
    BY <1>1, <1>6, <1>8, <1>9 DEF Extent
  <2>2. CASE x >= e
    <3>1. a \in new.DataAddress + e .. new.DataAddress + e + EntrySize - 1
      BY <1>1, <1>8, <2>1, <2>2
    <3> QED
      BY <1>2, <2>1, <3>1, FillAt
  <2>3. CASE x < e
    <3>1. a \notin new.DataAddress + e .. new.DataAddress + e + EntrySize - 1
      BY <1>1, <1>8, <2>1, <2>3
    <3>2. t.memory[a] = m[a]
      BY <1>2, <2>1, <3>1, FillAt
    <3>3. x \in 0 .. e - 1 /\ x < old.DataSize
      BY <1>1, <1>3, <1>4, <2>1, <2>3
    <3>4. s.memory[old.DataAddress + x] = EntryByte
      BY <3>3 DEF Sound, TableHolds, e
    <3>5. CASE ~grows
      BY <1>2, <3>2, <3>4, <3>5
    <3>6. CASE grows
      <4>1. old # NoBlock
        BY <1>4, <2>1, <3>3 DEF NoBlock
      <4>2. m = CopyMemory(s.memory, new.DataAddress, old.DataAddress, old.DataSize)
        BY <1>2, <3>6, <4>1 DEF TableMoved
      <4>3. a \in new.DataAddress .. new.DataAddress + old.DataSize - 1
        BY <1>4, <1>8, <2>1, <3>3
      <4>4. m[a] = Read(s.memory, old.DataAddress + x)
        <5>1. m[a] = Read(s.memory, old.DataAddress + (a - new.DataAddress))
          BY <2>1, <4>2, <4>3, CopyAt
        <5>2. a - new.DataAddress = x
          BY <1>8, <2>1
        <5> QED
          BY <5>1, <5>2
      <4>5. old.DataAddress + x \in 0 .. MemTop - 1
        <5>1. Extent(old) \subseteq 0 .. MemTop - 1
          BY <4>1, GoodIs DEF Sound, AllBlocks, TableBlock
        <5> QED
          BY <1>4, <2>1, <3>3, <5>1 DEF Extent
      <4> QED
        BY <3>2, <3>4, <4>4, <4>5 DEF Read
    <3> QED
      BY <3>5, <3>6
  <2> QED
    BY <1>1, <2>1, <2>2, <2>3
<1>11. TableHolds(t)
  <2>1. Len(t.Allocations) * EntrySize = e + EntrySize
    BY <1>1 DEF e
  <2> QED
    BY <1>1, <1>6, <1>10, <2>1 DEF TableHolds
<1>12. ASSUME new.DataSize >= old.DataSize, NEW c \in EntryBlocks(s), NEW a \in Extent(c)
       PROVE  t.memory[a] = s.memory[a]
  <2>1. c \in AllBlocks(t) /\ c # new
    <3>1. c \in EntryBlocks(t)
      BY EntriesAfter DEF Sound, Entered
    <3> QED
      BY <3>1, GoodIs DEF AllBlocks
  <2>2. a \in 0 .. MemTop - 1 /\ a \notin Extent(new)
    BY <1>7, <1>12, <2>1, GoodIs
  <2>3. a \notin new.DataAddress + e .. new.DataAddress + e + EntrySize - 1
    BY <1>1, <1>6, <1>8, <1>9, <2>2 DEF Extent
  <2>4. t.memory[a] = m[a]
    BY <1>2, <2>2, <2>3, FillAt
  <2>5. CASE ~grows \/ old = NoBlock
    BY <1>2, <2>4, <2>5 DEF TableMoved
  <2>6. CASE grows /\ old # NoBlock
    <3>1. m = CopyMemory(s.memory, new.DataAddress, old.DataAddress, old.DataSize)
      BY <1>2, <2>6 DEF TableMoved
    <3>2. a \notin new.DataAddress .. new.DataAddress + old.DataSize - 1
      BY <1>4, <1>6, <1>8, <1>12, <2>2 DEF Extent
    <3> QED
      BY <2>2, <2>4, <3>1, <3>2, CopyAt
  <2> QED
    BY <2>5, <2>6
<1> QED
  BY <1>2, <1>5, <1>11, <1>12 DEF SameBytes

\* AllocatePhysicalMemory keeps the table, and the bytes of every block unless it has moved
\* the table to a smaller block.
Took(s, t, b, count) ==
    /\ b \in Block /\ b.DataAddress # NULL /\ b.DataSize = AlignUp(count)
    /\ b \notin AllBlocks(s)
    /\ t.Allocations = Append(s.Allocations, b)
    /\ t.AllocData.DataSize >= s.AllocData.DataSize => SameBytes(s, t, EntryBlocks(s))
    /\ \/ t.AllocData = s.AllocData
       \/ t.AllocData.DataSize = TableSize(Len(s.Allocations) + 1)

LEMMA AllocateSound ==
    ASSUME NEW s, Sound(s), Len(s.Allocations) < MaxLive,
           NEW count \in 1 .. SizeMod - FrameSize,
           NEW r, r = AllocatePhysicalMemory(s, count)
    PROVE  /\ Sound(r.s)
           /\ \/ /\ r.memory = NULL /\ r.s.Allocations = s.Allocations
                 /\ r.s.AllocData = s.AllocData /\ r.s.memory = s.memory
              \/ \E b : r.memory = b.DataAddress /\ Took(s, r.s, b, count)
<1>1. /\ Good(r.s)
      /\ \/ /\ r.memory = NULL /\ r.s.Allocations = s.Allocations
            /\ r.s.AllocData = s.AllocData /\ r.s.memory = s.memory
         \/ \E b \in Block :
               /\ r.memory = b.DataAddress /\ b.DataAddress # NULL
               /\ b.DataSize = AlignUp(count) /\ b \notin AllBlocks(s)
               /\ Entered(s, r.s, b)
  BY AllocateIs DEF Sound
<1>2. CASE /\ r.memory = NULL /\ r.s.Allocations = s.Allocations
           /\ r.s.AllocData = s.AllocData /\ r.s.memory = s.memory
  BY <1>1, <1>2 DEF Sound, TableHolds
<1>3. ASSUME NEW b \in Block,
             /\ r.memory = b.DataAddress /\ b.DataAddress # NULL
             /\ b.DataSize = AlignUp(count) /\ b \notin AllBlocks(s)
             /\ Entered(s, r.s, b)
      PROVE  Sound(r.s) /\ r.memory = b.DataAddress /\ Took(s, r.s, b, count)
  <2>1. /\ TableHolds(r.s)
        /\ r.s.AllocData.DataSize >= s.AllocData.DataSize => SameBytes(s, r.s, EntryBlocks(s))
        /\ \/ r.s.AllocData = s.AllocData
           \/ r.s.AllocData.DataSize = TableSize(Len(s.Allocations) + 1)
    BY <1>1, <1>3, EnteredKeeps
  <2> QED
    BY <1>1, <1>3, <2>1 DEF Sound, Took, Entered
<1> QED
  BY <1>1, <1>2, <1>3

\* FreePhysicalMemory moves entries within the table, and no other byte (memory.c:201-231).
Left(s, r, i) ==
    /\ r.Allocations = RemoveAt(s.Allocations, i) /\ r.AllocData = s.AllocData
    /\ EntryBlocks(r) = EntryBlocks(s) \ {s.Allocations[i]}
    /\ SameBytes(s, r, EntryBlocks(s))

LEMMA EntriesBehind ==
    ASSUME NEW n \in Nat, NEW i \in 1 .. n, NEW size \in Nat
    PROVE  /\ (i - 1) * size \in Nat /\ i * size = (i - 1) * size + size
           /\ size * (n - i) \in Nat /\ i * size + size * (n - i) = n * size
           /\ (n - 1) * size = n * size - size
<1>1. i - 1 \in Nat /\ n - i \in Nat /\ i \in Nat
  OBVIOUS
<1>2. (i - 1) * size \in Nat /\ i * size = (i - 1) * size + size
  BY <1>1
<1>3. size * (n - i) \in Nat
  BY <1>1
<1>4. i * size + size * (n - i) = n * size
  <2>1. n = i + (n - i)
    BY <1>1
  <2> DEFINE k == n - i
  <2>2. k \in Nat /\ n = i + k
    BY <1>1, <2>1
  <2> HIDE DEF k
  <2>3. (i + k) * size = i * size + size * k
    BY <1>1, <2>2
  <2> QED
    BY <2>2, <2>3 DEF k
<1>5. (n - 1) * size = n * size - size
  BY SMT
<1> QED
  BY <1>2, <1>3, <1>4, <1>5

LEMMA ShiftInside ==
    ASSUME NEW d \in Nat, NEW y \in Nat, NEW size \in Nat, NEW count \in Nat, NEW a \in Int
    PROVE  /\ (d + (y + size)) + (a - (d + y)) = a + size
           /\ a \in d + y .. d + y + count - 1 => a \in d .. d + (y + size + count) - 1
OBVIOUS

LEMMA FreeSound ==
    ASSUME NEW s, Sound(s), NEW address, NEW r, r = FreePhysicalMemory(s, address)
    PROVE  /\ Sound(r)
           /\ IF EntriesAt(s, address) = {} THEN r = s
              ELSE \E i \in EntriesAt(s, address) : Left(s, r, i)
<1>1. CASE EntriesAt(s, address) = {}
  BY <1>1, FreeIs DEF Sound
<1>2. ASSUME NEW i \in EntriesAt(s, address), Good(r), Removed(s, r, i)
      PROVE  Sound(r) /\ Left(s, r, i)
  <2> DEFINE n     == Len(s.Allocations)
             table == s.AllocData
             d     == table.DataAddress
             y     == (i - 1) * EntrySize
             z     == i * EntrySize
             count == EntrySize * (n - i)
             e     == n * EntrySize
  <2>1. /\ i \in 1 .. n /\ n \in 1 .. MaxLive /\ n - 1 \in 0 .. MaxLive
        /\ EntrySize \in Nat \ {0}
    BY GoodIs, SizesAssumption DEF EntriesAt, Sound
  <2>2. Len(r.Allocations) = n - 1
    BY <1>2, <2>1, GoodIs, RemoveAtIs DEF Removed, Sound
  <2>3. /\ table.DataSize >= TableSize(n) /\ TableSize(n) \in Nat
        /\ e \in Nat /\ e <= TableSize(n)
        /\ TableSize(n - 1) <= TableSize(n) /\ TableSize(n - 1) \in Nat
    <3>1. n \in 0 .. MaxLive /\ n # 0 /\ EntrySize * n = e
      BY <2>1
    <3> QED
      BY <2>1, <3>1, TableSizes DEF Sound, TableHolds
  <2>4. table \in AllBlocks(s)
    <3>1. e # 0
      BY <2>1
    <3> QED
      BY <2>3, <3>1 DEF NoBlock, AllBlocks, TableBlock
  <2>5. /\ table.DataAddress \in Nat /\ table.DataSize \in Nat
        /\ Extent(table) \subseteq 0 .. MemTop - 1
    BY <2>4, GoodIs DEF Sound
  <2>6. /\ y \in Nat /\ z = y + EntrySize /\ count \in Nat /\ e = y + EntrySize + count
        /\ (n - 1) * EntrySize = e - EntrySize
    <3>1. n \in Nat /\ EntrySize \in Nat
      BY <2>1
    <3>2. /\ y \in Nat /\ z = y + EntrySize /\ count \in Nat /\ z + count = e
          /\ (n - 1) * EntrySize = e - EntrySize
      BY <2>1, <3>1, EntriesBehind
    <3> HIDE DEF y, z, count, e
    <3> QED
      BY <3>2
  <2>7. r.memory = CopyMemory(s.memory, d + y, d + z, count) /\ r.AllocData = table
    BY <1>2 DEF Removed
  <2>8. d \in Nat
    BY <2>5
  <2> HIDE DEF e, count, y, z, d
  <2>9. \A k \in 0 .. e - EntrySize - 1 : r.memory[d + k] = EntryByte
    <3> TAKE k \in 0 .. e - EntrySize - 1
    <3>1. /\ \A l \in 0 .. e - 1 : s.memory[d + l] = EntryByte
          /\ \A l \in 0 .. e - 1 : d + l \in 0 .. MemTop - 1
      <4>1. \A l \in 0 .. e - 1 : d + l \in Extent(table)
        BY <2>3, <2>5 DEF Extent, d
      <4> QED
        BY <2>5, <4>1 DEF Sound, TableHolds, e, d
    <3>2. /\ k \in 0 .. e - 1 /\ k + EntrySize \in 0 .. e - 1
          /\ d + k \in Int /\ (d + k) + EntrySize = d + (k + EntrySize)
      BY <2>1, <2>3, <2>8
    <3>3. CASE d + k \in d + y .. d + y + count - 1
      <4>1. (d + z) + ((d + k) - (d + y)) = d + (k + EntrySize)
        BY <2>1, <2>6, <2>8, <3>2, ShiftInside
      <4>2. r.memory[d + k] = Read(s.memory, d + (k + EntrySize))
        BY <2>7, <3>1, <3>2, <3>3, <4>1, CopyAt
      <4> QED
        BY <3>1, <3>2, <4>2 DEF Read
    <3>4. CASE d + k \notin d + y .. d + y + count - 1
      BY <2>7, <3>1, <3>2, <3>4, CopyAt
    <3> QED
      BY <3>3, <3>4
  <2>10. TableHolds(r)
    BY <2>2, <2>3, <2>5, <2>6, <2>7, <2>9 DEF TableHolds, d
  <2>11. SameBytes(s, r, EntryBlocks(s))
    <3> SUFFICES ASSUME NEW c \in EntryBlocks(s), NEW a \in Extent(c)
                 PROVE  r.memory[a] = s.memory[a]
      BY DEF SameBytes
    <3>1. c \in AllBlocks(s) /\ c # table
      BY GoodIs DEF AllBlocks, Sound
    <3>2. a \in 0 .. MemTop - 1 /\ a \notin d .. d + table.DataSize - 1
      BY <2>4, <3>1, GoodIs DEF Sound, Extent, d
    <3>3. a \notin d .. d + e - 1
      BY <2>3, <2>5, <2>8, <3>2
    <3>4. a \notin d + y .. d + y + count - 1
      BY <2>1, <2>6, <2>8, <3>2, <3>3, ShiftInside
    <3> QED
      BY <2>7, <3>2, <3>4, CopyAt
  <2> QED
    BY <1>2, <2>10, <2>11 DEF Sound, Left, Removed
<1>3. CASE EntriesAt(s, address) # {}
  <2>1. Good(r) /\ \E i \in EntriesAt(s, address) : Removed(s, r, i)
    BY <1>3, FreeIs DEF Sound
  <2> QED
    BY <1>2, <1>3, <2>1
<1> QED
  BY <1>1, <1>3

-----------------------------------------------------------------------------
\* What each call does to the blocks

Quiet(s, t) == EntryBlocks(t) = EntryBlocks(s) /\ SameBytes(s, t, EntryBlocks(s))

\* b is a new block for n bytes.
New(s, b, n) ==
    /\ b \in Block /\ b.DataSize = AlignUp(n)
    /\ \A c \in EntryBlocks(s) : c.DataAddress # b.DataAddress

Gained(s, t, b, n) ==
    /\ New(s, b, n)
    /\ EntryBlocks(t) = EntryBlocks(s) \cup {b}
    /\ SameBytes(s, t, EntryBlocks(s))

Lost(s, t, c) ==
    /\ c \in EntryBlocks(s)
    /\ EntryBlocks(t) = EntryBlocks(s) \ {c}
    /\ SameBytes(s, t, EntryBlocks(s) \ {c})

\* The new block b for n bytes takes the place of c, and has the bytes of c.
Replaced(s, t, c, b, n) ==
    /\ c \in EntryBlocks(s) /\ New(s, b, n)
    /\ EntryBlocks(t) = (EntryBlocks(s) \ {c}) \cup {b}
    /\ SameBytes(s, t, EntryBlocks(s) \ {c})
    /\ \A x \in 0 .. n - 1 :
          x < c.DataSize => t.memory[b.DataAddress + x] = s.memory[c.DataAddress + x]

Wrote(s, t, c) ==
    /\ c \in EntryBlocks(s)
    /\ EntryBlocks(t) = EntryBlocks(s)
    /\ SameBytes(s, t, EntryBlocks(s) \ {c})

\* The table did not move to a smaller block.
Grown(s, t) == t.AllocData.DataSize >= s.AllocData.DataSize

\* The table stayed or moved to a block of the size it needs.
Fitted(s, t) ==
    \/ t.AllocData = s.AllocData
    \/ \E n \in 1 .. MaxLive : t.AllocData.DataSize = TableSize(n)

\* t has the blocks of s, and the memory m that differs in the block b only.
Changed(s, t, b, m) ==
    /\ t.memory = m
    /\ t.Allocations = s.Allocations /\ t.AllocData = s.AllocData
    /\ EntryBlocks(t) = EntryBlocks(s)
    /\ SameBytes(s, t, EntryBlocks(s) \ {b})

\* Writing into a driver's block touches neither the table nor another block.
LEMMA WriteInto ==
    ASSUME NEW s, Sound(s), NEW b \in EntryBlocks(s), NEW m \in Memory,
           \A a \in 0 .. MemTop - 1 : a \notin Extent(b) => m[a] = s.memory[a],
           NEW t, t = WithMemory(s, m)
    PROVE  Sound(t) /\ Changed(s, t, b, m)
<1>1. /\ t \in State /\ t.memory = m
      /\ t.Allocations = s.Allocations /\ t.AllocData = s.AllocData
  BY GoodIs, WithMemoryFields DEF Sound
<1>2. Good(t) /\ EntryBlocks(t) = EntryBlocks(s)
  BY <1>1, MemoryGood DEF Sound, EntryBlocks
<1>3. \A c \in AllBlocks(s) : c # b => \A a \in Extent(c) : m[a] = s.memory[a]
  <2> SUFFICES ASSUME NEW c \in AllBlocks(s), c # b, NEW a \in Extent(c)
               PROVE  a \in 0 .. MemTop - 1 /\ a \notin Extent(b)
    OBVIOUS
  <2>1. b \in AllBlocks(s)
    BY DEF AllBlocks
  <2> QED
    BY <2>1, GoodIs DEF Sound
<1>4. TableHolds(t)
  <2> DEFINE n == Len(s.Allocations)
  <2> SUFFICES ASSUME NEW x \in 0 .. n * EntrySize - 1
               PROVE  m[s.AllocData.DataAddress + x] = s.memory[s.AllocData.DataAddress + x]
    BY <1>1 DEF Sound, TableHolds
  <2>1. /\ n \in 0 .. MaxLive /\ n * EntrySize = EntrySize * n /\ n * EntrySize \in Nat
    BY GoodIs, SizesAssumption DEF Sound
  <2>2. /\ n * EntrySize <= TableSize(n) /\ TableSize(n) \in Nat
        /\ s.AllocData.DataSize >= TableSize(n) /\ s.AllocData.DataSize \in Nat
        /\ s.AllocData.DataAddress \in Nat
    BY <2>1, TableSizes, GoodIs DEF Sound, TableHolds, Block
  <2> DEFINE e == n * EntrySize
  <2>3. e \in Nat /\ e <= s.AllocData.DataSize /\ x \in 0 .. e - 1
    BY <2>1, <2>2
  <2> HIDE DEF e
  <2>4. x \in Nat /\ x < s.AllocData.DataSize
    BY <2>2, <2>3
  <2>5. s.AllocData.DataAddress + x \in Extent(s.AllocData)
    BY <2>2, <2>4 DEF Extent
  <2>6. s.AllocData \in AllBlocks(s) /\ s.AllocData # b
    BY <2>4, GoodIs DEF AllBlocks, TableBlock, NoBlock, Sound
  <2> QED
    BY <1>3, <2>5, <2>6
<1> QED
  BY <1>1, <1>2, <1>3, <1>4 DEF Sound, SameBytes, AllBlocks, Changed

LEMMA TookGains ==
    ASSUME NEW s, Sound(s), NEW t, Sound(t), NEW b, NEW n, Took(s, t, b, n)
    PROVE  /\ New(s, b, n) /\ b \notin EntryBlocks(s)
           /\ EntryBlocks(t) = EntryBlocks(s) \cup {b}
           /\ Len(t.Allocations) = Len(s.Allocations) + 1
           /\ t.Allocations[Len(t.Allocations)] = b
           /\ Fitted(s, t)
           /\ Grown(s, t) => Gained(s, t, b, n)
<1>1. /\ b \in Block /\ t.Allocations = Append(s.Allocations, b)
      /\ b.DataSize = AlignUp(n) /\ b \notin EntryBlocks(s)
  BY DEF Took, AllBlocks
<1>2. /\ Len(t.Allocations) = Len(s.Allocations) + 1
      /\ t.Allocations[Len(t.Allocations)] = b
      /\ EntryBlocks(t) = EntryBlocks(s) \cup {b}
  BY <1>1, EntriesAfter DEF Sound
<1>3. New(s, b, n)
  <2>1. b \in AllBlocks(t) /\ \A c \in EntryBlocks(s) : c \in AllBlocks(t) /\ c # b
    BY <1>1, <1>2 DEF AllBlocks
  <2>2. \A c \in EntryBlocks(s) : c.DataAddress # b.DataAddress
    BY <2>1, GoodIs DEF Sound
  <2> QED
    BY <1>1, <2>2 DEF New
<1>4. Fitted(s, t)
  <2>1. Len(s.Allocations) + 1 \in 1 .. MaxLive
    BY <1>2, GoodIs DEF Sound
  <2> QED
    BY <2>1 DEF Took, Fitted
<1> QED
  BY <1>1, <1>2, <1>3, <1>4 DEF Took, Gained, Grown

LEMMA AllocateEffect ==
    ASSUME NEW s, Sound(s), Len(s.Allocations) < MaxLive,
           NEW count \in 1 .. SizeMod - FrameSize,
           NEW t, t = AllocatePhysicalMemory(s, count).s
    PROVE  /\ Sound(t) /\ Fitted(s, t)
           /\ Grown(s, t) => Quiet(s, t) \/ \E b : Gained(s, t, b, count)
<1> DEFINE r == AllocatePhysicalMemory(s, count)
<1> HIDE DEF r
<1>1. /\ Sound(t)
      /\ \/ t.Allocations = s.Allocations /\ t.AllocData = s.AllocData /\ t.memory = s.memory
         \/ \E b : Took(s, t, b, count)
  BY AllocateSound DEF r
<1>2. CASE t.Allocations = s.Allocations /\ t.AllocData = s.AllocData /\ t.memory = s.memory
  BY <1>1, <1>2 DEF Quiet, EntryBlocks, SameBytes, Fitted
<1>3. CASE \E b : Took(s, t, b, count)
  BY <1>1, <1>3, TookGains
<1> QED
  BY <1>1, <1>2, <1>3

LEMMA FreeEffect ==
    ASSUME NEW s, Sound(s), NEW address, NEW t, t = FreePhysicalMemory(s, address)
    PROVE  /\ Sound(t) /\ t.AllocData = s.AllocData
           /\ SameBytes(s, t, EntryBlocks(s))
           /\ \/ Quiet(s, t) /\ \A c \in EntryBlocks(s) : c.DataAddress # address
              \/ \E c : Lost(s, t, c) /\ c.DataAddress = address
<1>1. /\ Sound(t)
      /\ IF EntriesAt(s, address) = {} THEN t = s
         ELSE \E i \in EntriesAt(s, address) : Left(s, t, i)
  BY FreeSound
<1>2. CASE EntriesAt(s, address) = {}
  <2>1. \A c \in EntryBlocks(s) : c.DataAddress # address
    BY <1>2 DEF EntryBlocks, EntriesAt
  <2> QED
    BY <1>1, <1>2, <2>1 DEF Quiet, SameBytes
<1>3. ASSUME NEW i \in EntriesAt(s, address), Left(s, t, i)
      PROVE  /\ t.AllocData = s.AllocData /\ SameBytes(s, t, EntryBlocks(s))
             /\ Lost(s, t, s.Allocations[i]) /\ s.Allocations[i].DataAddress = address
  BY <1>3 DEF Left, Lost, EntriesAt, EntryBlocks, SameBytes
<1> QED
  BY <1>1, <1>2, <1>3

\* m is the memory of s but for the bytes k .. k + count - 1 of the block b.
Copied(s, b, m, k, source, count) ==
    /\ m \in Memory
    /\ \A a \in 0 .. MemTop - 1 : a \notin Extent(b) => m[a] = s.memory[a]
    /\ \A x \in 0 .. b.DataSize - 1 :
          m[b.DataAddress + x] = IF x \in k .. k + count - 1 THEN Read(s.memory, source + (x - k))
                                                            ELSE s.memory[b.DataAddress + x]

\* Copying no more bytes than a block was asked to have stays within the block.
LEMMA CopyInto ==
    ASSUME NEW s, Sound(s), NEW b \in EntryBlocks(s), NEW source,
           NEW k \in Nat, NEW count \in Nat, k + count <= b.DataSize,
           NEW m, m = CopyMemory(s.memory, b.DataAddress + k, source, count)
    PROVE  Copied(s, b, m, k, source, count)
<1> DEFINE d == b.DataAddress
           z == b.DataSize
<1>1. d \in Nat /\ z \in Nat /\ k + count <= z /\ d .. d + z - 1 \subseteq 0 .. MemTop - 1
  BY GoodIs DEF Sound, AllBlocks, Extent
<1>2. m \in Memory
  BY GoodIs, CopyMemoryTyped DEF Sound
<1>3. m = CopyMemory(s.memory, d + k, source, count) /\ Extent(b) = d .. d + z - 1
  BY DEF Extent
<1> HIDE DEF d, z
<1>4. ASSUME NEW a \in 0 .. MemTop - 1, a \notin Extent(b)
      PROVE  m[a] = s.memory[a]
  <2>1. a \notin d + k .. d + k + count - 1
    BY <1>1, <1>3, <1>4
  <2> QED
    BY <1>3, <2>1, CopyAt
<1>5. ASSUME NEW x \in 0 .. z - 1
      PROVE  m[d + x] = IF x \in k .. k + count - 1 THEN Read(s.memory, source + (x - k))
                                                    ELSE s.memory[d + x]
  <2>1. d + x \in 0 .. MemTop - 1 /\ (d + x) - (d + k) = x - k
    BY <1>1
  <2>2. d + x \in d + k .. d + k + count - 1 <=> x \in k .. k + count - 1
    BY <1>1
  <2> QED
    BY <1>3, <2>1, <2>2, CopyAt
<1> QED
  BY <1>2, <1>4, <1>5 DEF d, z, Copied

LEMMA SizeRounds ==
    ASSUME NEW n \in 1 .. SizeMod - FrameSize
    PROVE  n \in Nat /\ n <= AlignUp(n) /\ AlignUp(n) \in Nat
<1>1. n \in 0 .. SizeMod - FrameSize
  BY SizesAssumption
<1> DEFINE q == AlignUp(n) \div FrameSize
<1>2. q \in Nat /\ AlignUp(n) = q * FrameSize /\ n <= AlignUp(n)
  BY <1>1, AlignUpRounds
<1> HIDE DEF q
<1> QED
  BY <1>1, <1>2, SizesAssumption

\* ReallocatePhysicalMemory (memory.c:177-187): the new block has the bytes of the old one
\* before the old one is released.
LEMMA ReallocateEffect ==
    ASSUME NEW s, Sound(s), Len(s.Allocations) < MaxLive,
           NEW count \in 1 .. SizeMod - FrameSize,
           NEW address, address # NULL => \E c \in EntryBlocks(s) : c.DataAddress = address,
           NEW t, t = ReallocatePhysicalMemory(s, address, count)
    PROVE  /\ Sound(t) /\ Fitted(s, t)
           /\ Grown(s, t) =>
                 \/ Quiet(s, t)
                 \/ \E b : Gained(s, t, b, count)
                 \/ \E b, c : Replaced(s, t, c, b, count)
<1> DEFINE r == AllocatePhysicalMemory(s, count)
           m == CopyMemory(r.s.memory, r.memory, address, count)
           u == WithMemory(r.s, m)
<1>1. t = IF r.memory = NULL \/ address = NULL THEN r.s ELSE FreePhysicalMemory(u, address)
  BY DEF ReallocatePhysicalMemory, MoveTo, WithMemory
<1>2. CASE r.memory = NULL \/ address = NULL
  <2>1. t = AllocatePhysicalMemory(s, count).s
    BY <1>1, <1>2
  <2> QED
    BY <2>1, AllocateEffect
<1>3. CASE r.memory # NULL /\ address # NULL
  <2>1. t = FreePhysicalMemory(u, address)
    BY <1>1, <1>3
  <2> DEFINE v == r.s
  <2> HIDE DEF r
  <2>2. Sound(v) /\ \E b : r.memory = b.DataAddress /\ Took(s, v, b, count)
    BY <1>3, AllocateSound DEF r
  <2>0. m = CopyMemory(v.memory, r.memory, address, count) /\ u = WithMemory(v, m)
    OBVIOUS
  <2> HIDE DEF v, m, u
  <2>3. PICK b : r.memory = b.DataAddress /\ Took(s, v, b, count)
    BY <2>2
  <2>4. /\ New(s, b, count) /\ b \notin EntryBlocks(s) /\ Fitted(s, v)
        /\ EntryBlocks(v) = EntryBlocks(s) \cup {b}
        /\ Grown(s, v) => Gained(s, v, b, count)
    BY <2>2, <2>3, TookGains
  <2>5. /\ b \in EntryBlocks(v) /\ b.DataSize = AlignUp(count)
        /\ count \in Nat /\ count <= b.DataSize /\ b.DataSize \in Nat
        /\ b.DataAddress \in Nat
    BY <2>2, <2>4, SizeRounds, GoodIs DEF New, Sound, Block
  <2>6. m = CopyMemory(v.memory, b.DataAddress + 0, address, count)
    BY <2>0, <2>3, <2>5
  <2>7. /\ m \in Memory
        /\ \A a \in 0 .. MemTop - 1 : a \notin Extent(b) => m[a] = v.memory[a]
        /\ \A x \in 0 .. b.DataSize - 1 :
              m[b.DataAddress + x] = IF x \in 0 .. 0 + count - 1
                                     THEN Read(v.memory, address + (x - 0))
                                     ELSE v.memory[b.DataAddress + x]
    <3> DEFINE k == 0
    <3>1. /\ Sound(v) /\ b \in EntryBlocks(v) /\ k \in Nat /\ count \in Nat
          /\ k + count <= b.DataSize
          /\ m = CopyMemory(v.memory, b.DataAddress + k, address, count)
      BY <2>2, <2>5, <2>6
    <3> HIDE DEF k
    <3>2. Copied(v, b, m, k, address, count)
      BY <3>1, CopyInto
    <3> QED
      BY <3>2 DEF k, Copied
  <2>8. /\ Sound(u) /\ u.memory = m /\ u.AllocData = v.AllocData
        /\ EntryBlocks(u) = EntryBlocks(v)
        /\ SameBytes(v, u, EntryBlocks(v) \ {b})
    <3>1. Sound(u) /\ Changed(v, u, b, m)
      BY <2>0, <2>2, <2>5, <2>7, WriteInto
    <3> QED
      BY <3>1 DEF Changed
  <2>9. PICK c \in EntryBlocks(s) : c.DataAddress = address
    BY <1>3
  <2>10. c \in EntryBlocks(u) /\ c # b /\ b \in EntryBlocks(u)
    BY <2>4, <2>5, <2>8, <2>9
  <2>11. /\ Sound(t) /\ t.AllocData = u.AllocData
         /\ SameBytes(u, t, EntryBlocks(u))
         /\ \E e : Lost(u, t, e) /\ e.DataAddress = address
    BY <2>1, <2>8, <2>9, <2>10, FreeEffect
  <2>12. Lost(u, t, c)
    <3>1. PICK e : Lost(u, t, e) /\ e.DataAddress = address
      BY <2>11
    <3>2. e \in AllBlocks(u) /\ c \in AllBlocks(u)
      BY <2>10, <3>1 DEF Lost, AllBlocks
    <3>3. e = c
      BY <2>8, <2>9, <3>1, <3>2, GoodIs DEF Sound
    <3> QED
      BY <3>1, <3>3
  <2>13. Fitted(s, t) /\ (Grown(s, t) => Grown(s, v))
    BY <2>4, <2>8, <2>11 DEF Fitted, Grown
  <2>14. ASSUME Grown(s, t) PROVE Replaced(s, t, c, b, count)
    <3>1. SameBytes(s, v, EntryBlocks(s))
      BY <2>4, <2>13, <2>14 DEF Gained
    <3>2. EntryBlocks(t) = (EntryBlocks(s) \ {c}) \cup {b}
      BY <2>4, <2>8, <2>10, <2>12 DEF Lost
    <3>3. SameBytes(s, t, EntryBlocks(s) \ {c})
      <4> SUFFICES ASSUME NEW e \in EntryBlocks(s), NEW a \in Extent(e)
                   PROVE  t.memory[a] = s.memory[a]
        BY DEF SameBytes
      <4>1. e \in EntryBlocks(v) \ {b} /\ e \in EntryBlocks(u)
        BY <2>4, <2>8
      <4> QED
        BY <2>8, <2>11, <3>1, <4>1 DEF SameBytes
    <3>4. ASSUME NEW x \in 0 .. count - 1, x < c.DataSize
          PROVE  t.memory[b.DataAddress + x] = s.memory[c.DataAddress + x]
      <4>1. c.DataAddress \in Nat /\ c.DataSize \in Nat /\ Extent(c) \subseteq 0 .. MemTop - 1
        BY GoodIs DEF Sound, AllBlocks
      <4>2. /\ b.DataAddress + x \in Extent(b) /\ c.DataAddress + x \in Extent(c)
            /\ x \in 0 .. b.DataSize - 1 /\ x \in 0 .. 0 + count - 1 /\ x - 0 = x
        BY <2>5, <3>4, <4>1 DEF Extent
      <4>3. t.memory[b.DataAddress + x] = u.memory[b.DataAddress + x]
        BY <2>10, <2>11, <4>2 DEF SameBytes
      <4>4. u.memory[b.DataAddress + x] = Read(v.memory, c.DataAddress + x)
        BY <2>7, <2>8, <2>9, <4>2
      <4>5. Read(v.memory, c.DataAddress + x) = v.memory[c.DataAddress + x]
        BY <4>1, <4>2 DEF Read
      <4>6. v.memory[c.DataAddress + x] = s.memory[c.DataAddress + x]
        BY <3>1, <4>2 DEF SameBytes
      <4> QED
        BY <4>3, <4>4, <4>5, <4>6
    <3> QED
      BY <2>4, <3>2, <3>3, <3>4 DEF Replaced
  <2> QED
    BY <2>11, <2>13, <2>14
<1> QED
  BY <1>2, <1>3

\* The last block of t holds the m bytes at first, then the k bytes at second.
Joined(s, t, first, second, m, k) ==
    LET b == t.Allocations[Len(t.Allocations)]
    IN \A x \in 0 .. m + k - 1 :
          t.memory[b.DataAddress + x] = IF x < m THEN s.memory[first + x]
                                                 ELSE s.memory[second + (x - m)]

LEMMA RequestSums ==
    ASSUME NEW m \in Request \cup {0}, NEW k \in Request
    PROVE  /\ m \in Nat /\ k \in Nat /\ m + k \in 1 .. SizeMod - FrameSize
           /\ (m + k) % SizeMod = m + k
<1>1. m \in Nat /\ k \in Nat /\ m + k \in 1 .. SizeMod - FrameSize /\ m + k \in Nat /\ m + k < SizeMod
  BY SizesAssumption, RequestAssumption
<1> QED
  BY <1>1, ModSmall, SizesAssumption

LEMMA MemoryTwice ==
    ASSUME NEW s \in State, NEW m \in Memory, NEW k \in Memory
    PROVE  WithMemory(WithMemory(s, m), k) = WithMemory(s, k)
BY DEF State, WithMemory

\* ConcatMemory (memory.c:189-199): the first block's bytes, then the second's, and no
\* other block is touched.
LEMMA ConcatEffect ==
    ASSUME NEW s, Sound(s), Len(s.Allocations) < MaxLive,
           NEW m \in Request \cup {0}, NEW k \in Request, NEW first, NEW second,
           m # 0 => \E c \in EntryBlocks(s) : c.DataAddress = first /\ m <= c.DataSize,
           \E c \in EntryBlocks(s) : c.DataAddress = second /\ k <= c.DataSize,
           NEW t, t = ConcatMemory(s, first, second, m, k).s
    PROVE  /\ Sound(t) /\ Fitted(s, t)
           /\ Grown(s, t) =>
                 \/ Quiet(s, t) /\ Len(t.Allocations) = Len(s.Allocations)
                 \/ Joined(s, t, first, second, m, k) /\ \E b : Gained(s, t, b, m + k)
<1> DEFINE n == m + k
           r == AllocatePhysicalMemory(s, n)
           prefix == CopyMemory(r.s.memory, r.memory, first, m)
           whole == CopyMemory(prefix, r.memory + m, second, k)
<1>1. /\ n \in 1 .. SizeMod - FrameSize /\ m \in Nat /\ k \in Nat
      /\ ConcatMemory(s, first, second, m, k)
            = IF r.memory = NULL THEN r ELSE [r EXCEPT !.s.memory = whole]
  BY RequestSums DEF ConcatMemory, JoinIn
<1>2. /\ Sound(r.s)
      /\ \/ /\ r.memory = NULL /\ r.s.Allocations = s.Allocations
            /\ r.s.AllocData = s.AllocData /\ r.s.memory = s.memory
         \/ \E b : r.memory = b.DataAddress /\ Took(s, r.s, b, n)
  <2> HIDE DEF n
  <2> QED
    BY <1>1, AllocateSound
<1>3. r = [s |-> r.s, memory |-> r.memory]
  BY DEF AllocatePhysicalMemory
<1> HIDE DEF r
<1>4. CASE r.memory = NULL
  <2>1. t = r.s
    BY <1>1, <1>4
  <2>2. CASE /\ r.s.Allocations = s.Allocations
             /\ r.s.AllocData = s.AllocData /\ r.s.memory = s.memory
    BY <1>2, <2>1, <2>2 DEF Quiet, EntryBlocks, SameBytes, Fitted
  <2>3. CASE \E b : r.memory = b.DataAddress /\ Took(s, r.s, b, n)
    BY <1>4, <2>3 DEF Took
  <2> QED
    BY <1>2, <2>2, <2>3
<1>5. CASE r.memory # NULL
  <2> DEFINE v == r.s
             p == WithMemory(v, prefix)
             u == WithMemory(p, whole)
  <2>1. PICK b : r.memory = b.DataAddress /\ Took(s, v, b, n)
    BY <1>2, <1>5
  <2>2. /\ New(s, b, n) /\ b \notin EntryBlocks(s) /\ Fitted(s, v)
        /\ EntryBlocks(v) = EntryBlocks(s) \cup {b}
        /\ Len(v.Allocations) = Len(s.Allocations) + 1
        /\ v.Allocations[Len(v.Allocations)] = b
        /\ Grown(s, v) => Gained(s, v, b, n)
    <3> HIDE DEF v, n
    <3> QED
      BY <1>2, <2>1, TookGains DEF v
  <2>3. /\ b \in EntryBlocks(v) /\ b.DataSize \in Nat /\ b.DataAddress \in Nat
        /\ m + k <= b.DataSize
    <3>1. b \in Block /\ b.DataSize = AlignUp(n)
      BY <2>2 DEF New
    <3>2. n <= AlignUp(n)
      BY <1>1, SizeRounds
    <3> QED
      BY <2>2, <3>1, <3>2 DEF Block
  <2>4. t = [r EXCEPT !.s.memory = whole].s
    BY <1>1, <1>5
  <2>5. t = WithMemory(v, whole)
    <3>1. DOMAIN r = {"s", "memory"}
      BY <1>3
    <3> HIDE DEF whole
    <3> QED
      BY <2>4, <3>1 DEF WithMemory
  <2>6. /\ prefix = CopyMemory(v.memory, b.DataAddress + 0, first, m)
        /\ whole = CopyMemory(prefix, b.DataAddress + m, second, k)
    BY <2>1, <2>3
  <2>0. Sound(v) /\ v \in State
    BY <1>2, GoodIs DEF Sound
  <2> HIDE DEF v, prefix, whole
  <2>7. Copied(v, b, prefix, 0, first, m)
    <3> DEFINE z == 0
    <3>1. z \in Nat /\ z + m <= b.DataSize /\ prefix = CopyMemory(v.memory, b.DataAddress + z, first, m)
      BY <1>1, <2>3, <2>6
    <3> HIDE DEF z
    <3>2. Copied(v, b, prefix, z, first, m)
      BY <1>1, <2>0, <2>3, <3>1, CopyInto
    <3> QED
      BY <3>2 DEF z
  <2>8. Sound(p) /\ Changed(v, p, b, prefix)
    BY <2>0, <2>3, <2>7, WriteInto DEF Copied
  <2>9. Copied(p, b, whole, m, second, k)
    <3>1. b \in EntryBlocks(p) /\ whole = CopyMemory(p.memory, b.DataAddress + m, second, k)
      BY <2>3, <2>6, <2>8 DEF Changed
    <3> HIDE DEF p
    <3> QED
      BY <1>1, <2>3, <2>8, <3>1, CopyInto
  <2>10. Sound(u) /\ Changed(p, u, b, whole)
    <3>1. b \in EntryBlocks(p)
      BY <2>3, <2>8 DEF Changed
    <3> HIDE DEF p
    <3> QED
      BY <2>8, <2>9, <3>1, WriteInto DEF Copied
  <2>11. t = u
    BY <2>0, <2>5, <2>7, <2>9, MemoryTwice DEF Copied
  <2> HIDE DEF p, u
  <2>12. /\ t.memory = whole /\ p.memory = prefix
         /\ t.Allocations = v.Allocations /\ t.AllocData = v.AllocData
         /\ EntryBlocks(t) = EntryBlocks(v)
    BY <2>8, <2>10, <2>11 DEF Changed
  <2>13. \A c \in EntryBlocks(s) : \A a \in Extent(c) :
            whole[a] = v.memory[a] /\ prefix[a] = v.memory[a] /\ a \in 0 .. MemTop - 1
    <3> TAKE c \in EntryBlocks(s)
    <3>1. c \in EntryBlocks(v) /\ c # b
      BY <2>2
    <3>2. c \in EntryBlocks(p) /\ c \in AllBlocks(v)
      BY <2>8, <3>1 DEF Changed, AllBlocks
    <3> QED
      BY <2>0, <2>8, <2>10, <2>11, <2>12, <3>1, <3>2, GoodIs DEF Changed, SameBytes, Sound
  <2>14. Fitted(s, t) /\ (Grown(s, t) => Grown(s, v))
    BY <2>2, <2>12 DEF Fitted, Grown
  <2>15. ASSUME Grown(s, t) PROVE Gained(s, t, b, n)
    BY <2>2, <2>12, <2>13, <2>14, <2>15 DEF Gained, SameBytes
  <2>16. ASSUME Grown(s, t), NEW x \in 0 .. m + k - 1
         PROVE  whole[b.DataAddress + x] = IF x < m THEN s.memory[first + x]
                                                   ELSE s.memory[second + (x - m)]
    <3>1. \A c \in EntryBlocks(s) : \A a \in Extent(c) : v.memory[a] = s.memory[a]
      BY <2>2, <2>14, <2>16 DEF Gained, SameBytes
    <3>2. x \in 0 .. b.DataSize - 1
      BY <1>1, <2>3
    <3>3. CASE x < m
      <4>1. PICK c \in EntryBlocks(s) : c.DataAddress = first /\ m <= c.DataSize
        BY <1>1, <3>3
      <4>2. c.DataAddress \in Nat /\ c.DataSize \in Nat
        BY GoodIs DEF Sound, AllBlocks
      <4>3. first + x \in Extent(c)
        BY <1>1, <3>3, <4>1, <4>2 DEF Extent
      <4>4. x \notin m .. m + k - 1 /\ x \in 0 .. 0 + m - 1 /\ x - 0 = x
        BY <1>1, <3>3
      <4>5. whole[b.DataAddress + x] = prefix[b.DataAddress + x]
        BY <2>9, <2>12, <3>2, <4>4 DEF Copied
      <4>6. prefix[b.DataAddress + x] = Read(v.memory, first + x)
        BY <2>7, <3>2, <4>4 DEF Copied
      <4>7. Read(v.memory, first + x) = v.memory[first + x]
        BY <2>13, <4>3 DEF Read
      <4> QED
        BY <3>1, <3>3, <4>3, <4>5, <4>6, <4>7
    <3>4. CASE ~ (x < m)
      <4>1. PICK c \in EntryBlocks(s) : c.DataAddress = second /\ k <= c.DataSize
        OBVIOUS
      <4>2. c.DataAddress \in Nat /\ c.DataSize \in Nat
        BY GoodIs DEF Sound, AllBlocks
      <4>3. second + (x - m) \in Extent(c)
        BY <1>1, <3>4, <4>1, <4>2 DEF Extent
      <4>4. x \in m .. m + k - 1
        BY <1>1, <3>4
      <4>5. whole[b.DataAddress + x] = Read(prefix, second + (x - m))
        BY <2>9, <2>12, <3>2, <4>4 DEF Copied
      <4>6. Read(prefix, second + (x - m)) = v.memory[second + (x - m)]
        BY <2>13, <4>3 DEF Read
      <4> QED
        BY <3>1, <3>4, <4>3, <4>5, <4>6
    <3> QED
      BY <3>3, <3>4
  <2>17. ASSUME Grown(s, t) PROVE Joined(s, t, first, second, m, k)
    BY <2>2, <2>12, <2>16, <2>17 DEF Joined
  <2> QED
    BY <2>10, <2>11, <2>14, <2>15, <2>17
<1> QED
  BY <1>4, <1>5

\* A driver that fills the block it holds.
LEMMA FillEffect ==
    ASSUME NEW s, Sound(s), NEW c \in EntryBlocks(s), NEW value \in Value,
           NEW t, t = WithMemory(s, FillMemory(s.memory, c.DataAddress, value, c.DataSize))
    PROVE  Sound(t) /\ Wrote(s, t, c) /\ t.AllocData = s.AllocData
<1> DEFINE m == FillMemory(s.memory, c.DataAddress, value, c.DataSize)
<1>1. m \in Memory
  BY GoodIs, FillMemoryTyped DEF Sound, Byte
<1>2. \A a \in 0 .. MemTop - 1 : a \notin Extent(c) => m[a] = s.memory[a]
  BY FillAt DEF Extent
<1> HIDE DEF m
<1>3. t = WithMemory(s, m)
  BY DEF m
<1>4. Sound(t) /\ Changed(s, t, c, m)
  BY <1>1, <1>2, <1>3, WriteInto
<1> QED
  BY <1>4 DEF Changed, Wrote, SameBytes

-----------------------------------------------------------------------------
\* The steps of the manager

\* What drivers may end up asking for: a size, or the sum of two in ConcatMemory.
Asked == Request \cup {m + k : m, k \in Request}

\* What a call does, unless it moved the table to a smaller block.
Effect(s, t) ==
    \/ Quiet(s, t)
    \/ \E b : \E n \in Asked : Gained(s, t, b, n)
    \/ \E c : Lost(s, t, c)
    \/ \E b, c : \E n \in Request : Replaced(s, t, c, b, n)

LEMMA BecomeIs ==
    ASSUME NEW x, Sound(x), Become(x)
    PROVE  Current' = x
<1>1. x \in State
  BY GoodIs DEF Sound
<1>2. x = [descriptors |-> x.descriptors, Allocations |-> x.Allocations,
           AllocData |-> x.AllocData, memory |-> x.memory]
  BY <1>1 DEF State
<1> QED
  BY <1>2 DEF Current, Become

\* The block at an address that drivers hold is the one entered for it.
LEMMA BlockAtIs ==
    ASSUME Sound(Current), NEW a \in Live
    PROVE  BlockAt(a) \in EntryBlocks(Current) /\ BlockAt(a).DataAddress = a
<1>1. EntriesAt(Current, a) \in SUBSET Nat /\ EntriesAt(Current, a) # {}
  BY DEF EntriesAt, Live, Current
<1>2. Min(EntriesAt(Current, a)) \in EntriesAt(Current, a)
  BY <1>1, MinNat
<1> QED
  BY <1>2 DEF EntriesAt, EntryBlocks, BlockAt, Current

LEMMA ConcatStep ==
    ASSUME Sound(Current), NEW first \in Live \cup {NULL}, NEW second \in Live,
           NEW m \in Request \cup {0}, NEW k \in Request, Concat(first, second, m, k),
           NEW s, s = Current, NEW t, t = Current'
    PROVE  /\ Sound(t) /\ Fitted(s, t)
           /\ Grown(s, t) =>
                 \/ Quiet(s, t) /\ Len(t.Allocations) = Len(s.Allocations)
                 \/ Joined(s, t, first, second, m, k) /\ \E b : Gained(s, t, b, m + k)
<1> DEFINE x == ConcatMemory(s, first, second, m, k).s
<1>1. Len(s.Allocations) < MaxLive /\ Become(x)
  BY DEF Concat, Current
<1>2. /\ m # 0 => \E c \in EntryBlocks(s) : c.DataAddress = first /\ m <= c.DataSize
      /\ \E c \in EntryBlocks(s) : c.DataAddress = second /\ k <= c.DataSize
  <2>1. m <= IF first = NULL THEN 0 ELSE BlockAt(first).DataSize
    BY DEF Concat
  <2>2. k <= BlockAt(second).DataSize
    BY DEF Concat
  <2>3. m \in Nat
    BY RequestAssumption
  <2>4. m # 0 => first \in Live /\ m <= BlockAt(first).DataSize
    BY <2>1, <2>3
  <2> QED
    BY <2>2, <2>4, BlockAtIs
<1>3. /\ Sound(x) /\ Fitted(s, x)
      /\ Grown(s, x) =>
            \/ Quiet(s, x) /\ Len(x.Allocations) = Len(s.Allocations)
            \/ Joined(s, x, first, second, m, k) /\ \E b : Gained(s, x, b, m + k)
  BY <1>1, <1>2, ConcatEffect
<1> HIDE DEF x
<1>4. t = x
  BY <1>1, <1>3, BecomeIs
<1> QED
  BY <1>3, <1>4

LEMMA StepEffect ==
    ASSUME Sound(Current), [Next]_vars, NEW s, s = Current, NEW t, t = Current'
    PROVE  /\ Sound(t) /\ Fitted(s, t)
           /\ \/ Grown(s, t) => Effect(s, t)
              \/ \E a \in Live, v \in Value : Fill(a, v) /\ \E c : Wrote(s, t, c)
<1>1. /\ s.Allocations = Allocations /\ s.memory = memory
      /\ s.AllocData = AllocData /\ s.descriptors = descriptors
  BY DEF Current
<1>2. \A n \in Request : n \in 1 .. SizeMod - FrameSize /\ n \in Asked
  BY RequestAssumption DEF Asked
<1>3. ASSUME NEW count \in Request, Allocate(count)
      PROVE  Sound(t) /\ Fitted(s, t) /\ (Grown(s, t) => Effect(s, t))
  <2> DEFINE x == AllocatePhysicalMemory(s, count).s
  <2>1. Len(s.Allocations) < MaxLive /\ Become(x)
    BY <1>1, <1>3 DEF Allocate
  <2>2. /\ Sound(x) /\ Fitted(s, x)
        /\ Grown(s, x) => Quiet(s, x) \/ \E b : Gained(s, x, b, count)
    BY <1>2, <2>1, AllocateEffect
  <2> HIDE DEF x
  <2>3. t = x
    BY <2>1, <2>2, BecomeIs
  <2> QED
    BY <1>2, <2>2, <2>3 DEF Effect
<1>4. ASSUME NEW address \in Live \cup {NULL}, NEW count \in Request, Reallocate(address, count)
      PROVE  Sound(t) /\ Fitted(s, t) /\ (Grown(s, t) => Effect(s, t))
  <2> DEFINE x == ReallocatePhysicalMemory(s, address, count)
  <2>1. Len(s.Allocations) < MaxLive /\ Become(x)
    BY <1>1, <1>4 DEF Reallocate
  <2>2. address # NULL => \E c \in EntryBlocks(s) : c.DataAddress = address
    BY BlockAtIs
  <2>3. /\ Sound(x) /\ Fitted(s, x)
        /\ Grown(s, x) =>
              \/ Quiet(s, x)
              \/ \E b : Gained(s, x, b, count)
              \/ \E b, c : Replaced(s, x, c, b, count)
    BY <1>2, <2>1, <2>2, ReallocateEffect
  <2> HIDE DEF x
  <2>4. t = x
    BY <2>1, <2>3, BecomeIs
  <2> QED
    BY <1>2, <2>3, <2>4 DEF Effect
<1>5. ASSUME NEW first \in Live \cup {NULL}, NEW second \in Live,
             NEW m \in Request \cup {0}, NEW k \in Request, Concat(first, second, m, k)
      PROVE  Sound(t) /\ Fitted(s, t) /\ (Grown(s, t) => Effect(s, t))
  <2>1. /\ Sound(t) /\ Fitted(s, t)
        /\ Grown(s, t) =>
              \/ Quiet(s, t) /\ Len(t.Allocations) = Len(s.Allocations)
              \/ Joined(s, t, first, second, m, k) /\ \E b : Gained(s, t, b, m + k)
    BY <1>5, ConcatStep
  <2>2. m + k \in Asked
    BY <1>2 DEF Asked
  <2> QED
    BY <2>1, <2>2 DEF Effect
<1>6. ASSUME NEW address, Free(address)
      PROVE  Sound(t) /\ Fitted(s, t) /\ (Grown(s, t) => Effect(s, t))
  <2> DEFINE x == FreePhysicalMemory(s, address)
  <2>1. Become(x)
    BY <1>6 DEF Free
  <2>2. /\ Sound(x) /\ x.AllocData = s.AllocData
        /\ Quiet(s, x) \/ \E c : Lost(s, x, c)
    BY FreeEffect
  <2> HIDE DEF x
  <2>3. t = x
    BY <2>1, <2>2, BecomeIs
  <2> QED
    BY <2>2, <2>3 DEF Effect, Fitted
<1>7. ASSUME NEW address \in Live, NEW value \in Value, Fill(address, value)
      PROVE  Sound(t) /\ Fitted(s, t) /\ Fill(address, value) /\ \E c : Wrote(s, t, c)
  <2> DEFINE c == BlockAt(address)
             x == WithMemory(s, FillMemory(s.memory, c.DataAddress, value, c.DataSize))
  <2>1. c \in EntryBlocks(s) /\ c.DataAddress = address
    BY BlockAtIs
  <2>2. Become(x)
    BY <1>1, <1>7, <2>1 DEF Fill, Become, WithMemory, Current
  <2>3. Sound(x) /\ Wrote(s, x, c) /\ x.AllocData = s.AllocData
    BY <2>1, FillEffect
  <2> HIDE DEF x
  <2>4. t = x
    BY <2>2, <2>3, BecomeIs
  <2> QED
    BY <1>7, <2>3, <2>4 DEF Fitted
<1>8. CASE UNCHANGED vars
  <2>1. t = s
    BY <1>8 DEF vars, Current
  <2> QED
    BY <2>1 DEF Effect, Quiet, SameBytes, Fitted
<1> QED
  BY <1>3, <1>4, <1>5, <1>6, <1>7, <1>8 DEF Next

-----------------------------------------------------------------------------
\* The invariant

SInv == Sound(Current)

LEMMA InitSound == Init => SInv
<1> SUFFICES ASSUME Init PROVE TableHolds(Current) /\ Good(Current)
  BY DEF SInv, Sound
<1>1. Good(Current)
  BY InitGood DEF IInv
<1>2. Current.Allocations = <<>> /\ Current.AllocData = NoBlock
  BY DEF Current, Init
<1>3. TableSize(0) = 0
  <2>1. 0 \in 0 .. MaxLive /\ 0 \in 0 .. SizeMod - FrameSize /\ 0 = 0 * FrameSize
    BY SizesAssumption, RequestAssumption, TableSizes
  <2>2. AlignUp(0) = 0
    BY <2>1, AlignedStays
  <2>3. TableSize(0) = AlignUp(EntrySize * 0) /\ EntrySize * 0 = 0
    BY <2>1, TableSizes, SizesAssumption
  <2> QED
    BY <2>2, <2>3
<1> QED
  BY <1>1, <1>2, <1>3, SizesAssumption DEF TableHolds, NoBlock

LEMMA NextSound == SInv /\ [Next]_vars => SInv'
<1> SUFFICES ASSUME SInv, [Next]_vars PROVE SInv'
  OBVIOUS
<1>1. \A t : t = Current' => Sound(t)
  BY StepEffect DEF SInv
<1>2. Sound(Current')
  BY <1>1
<1>3. SInv' <=> Sound(Current')
  BY DEF SInv, Sound, TableHolds, Good, OwnsWithTable, Owns, EntryBlocks, TableBlock, Accounts,
         State, Current
<1> QED
  BY <1>2, <1>3

LEMMA SoundAlways == Spec => []SInv
BY InitSound, NextSound, PTL DEF Spec

\* Whatever drivers ask for, fill and release, the table's block has room for every entry
\* and the entries are in it: no copy and no write falls on them (memory.c:157-172).
THEOREM TableStaysIntact == Spec => []TableIntact
<1>1. SInv => TableIntact
  <2> SUFFICES ASSUME SInv PROVE TableIntact
    OBVIOUS
  <2> DEFINE n == Len(Allocations)
  <2>1. /\ n \in 0 .. MaxLive /\ AllocData.DataSize \in Nat
        /\ AllocData.DataSize >= TableSize(n)
        /\ \A x \in 0 .. n * EntrySize - 1 : memory[AllocData.DataAddress + x] = EntryByte
    BY GoodIs DEF SInv, Sound, TableHolds, Current, Block
  <2>2. n * EntrySize = EntrySize * n
    BY <2>1, SizesAssumption
  <2>3. EntrySize * n \in Nat /\ EntrySize * n <= TableSize(n) /\ TableSize(n) \in Nat
    BY <2>1, TableSizes
  <2> HIDE DEF n
  <2>4. n * EntrySize <= AllocData.DataSize
    BY <2>1, <2>2, <2>3
  <2> QED
    BY <2>1, <2>4 DEF TableIntact, n
<1> QED
  BY <1>1, SoundAlways, PTL

-----------------------------------------------------------------------------
\* Steps

\* A block that is live before and after a step has the same bytes, or the effect is that
\* of a driver's write.
LEMMA EffectKeeps ==
    ASSUME NEW s, NEW t, Effect(s, t), NEW c \in EntryBlocks(s), c \in EntryBlocks(t)
    PROVE  \A a \in Extent(c) : t.memory[a] = s.memory[a]
<1>1. CASE Quiet(s, t)
  BY <1>1 DEF Quiet, SameBytes
<1>2. CASE \E b : \E n \in Asked : Gained(s, t, b, n)
  BY <1>2 DEF Gained, SameBytes
<1>3. CASE \E e : Lost(s, t, e)
  BY <1>3 DEF Lost, SameBytes
<1>4. ASSUME NEW b, NEW e, NEW n \in Request, Replaced(s, t, e, b, n)
      PROVE  \A a \in Extent(c) : t.memory[a] = s.memory[a]
  BY <1>4 DEF Replaced, New, SameBytes
<1> QED
  BY <1>1, <1>2, <1>3, <1>4 DEF Effect

\* No call changes a byte of a block that stays live, for any regions, sizes and order of
\* calls, unless it moves the table to a block smaller than the table's old one
\* (memory.c:275-288, whose copy has the old size).
THEOREM OnlyShrinkingOverruns == Spec => OnlyAShrinkingTableOverruns
<1>1. SInv /\ [Next]_vars =>
         [\/ AllocData'.DataSize < AllocData.DataSize
          \/ \E a \in Live, v \in Value : Fill(a, v)
          \/ \A i \in 1 .. Len(Allocations), j \in 1 .. Len(Allocations') :
                Allocations[i] = Allocations'[j] =>
                   \A x \in 0 .. Allocations[i].DataSize - 1 :
                      LET a == Allocations[i].DataAddress + x IN memory'[a] = memory[a]]_vars
  <2> SUFFICES ASSUME SInv, [Next]_vars, ~ (AllocData'.DataSize < AllocData.DataSize),
                      ~ \E a \in Live, v \in Value : Fill(a, v),
                      NEW i \in 1 .. Len(Allocations), NEW j \in 1 .. Len(Allocations'),
                      Allocations[i] = Allocations'[j],
                      NEW x \in 0 .. Allocations[i].DataSize - 1
               PROVE  memory'[Allocations[i].DataAddress + x]
                         = memory[Allocations[i].DataAddress + x]
    OBVIOUS
  <2> DEFINE s == Current
             t == Current'
             c == Allocations[i]
  <2>1. /\ Sound(s) /\ Sound(t)
        /\ Grown(s, t) => Effect(s, t)
    BY StepEffect DEF SInv
  <2>2. /\ s.memory = memory /\ t.memory = memory'
        /\ s.AllocData = AllocData /\ t.AllocData = AllocData'
        /\ c \in EntryBlocks(s) /\ c \in EntryBlocks(t)
    BY DEF Current, EntryBlocks
  <2> HIDE DEF s, t, c
  <2>3. s.AllocData.DataSize \in Nat /\ t.AllocData.DataSize \in Nat
    BY <2>1, GoodIs DEF Sound, Block
  <2>4. Grown(s, t)
    BY <2>2, <2>3 DEF Grown
  <2>5. c.DataAddress \in Nat /\ c.DataSize \in Nat
    BY <2>1, <2>2, GoodIs DEF Sound, AllBlocks
  <2>6. c.DataAddress + x \in Extent(c)
    BY <2>5 DEF Extent, c
  <2>7. t.memory[c.DataAddress + x] = s.memory[c.DataAddress + x]
    BY <2>1, <2>2, <2>4, <2>6, EffectKeeps
  <2> QED
    BY <2>2, <2>7 DEF c
<1> QED
  BY <1>1, SoundAlways, PTL DEF Spec, OnlyAShrinkingTableOverruns

\* For all sizes and blocks, a concatenation that finds room holds the bytes of the first
\* block and then those of the second (memory.c:189-199), unless the table moved to a
\* smaller block on the way.
THEOREM ConcatenationJoins == Spec => ConcatJoins
<1>1. SInv /\ [Next]_vars =>
         [\A first \in Live \cup {NULL}, second \in Live :
             \A m \in Request \cup {0}, k \in Request :
                /\ Concat(first, second, m, k) /\ Len(Allocations') > Len(Allocations)
                /\ AllocData'.DataSize >= AllocData.DataSize
                => LET joined == Allocations'[Len(Allocations')].DataAddress
                   IN \A x \in 0 .. m + k - 1 :
                         memory'[joined + x] = IF x < m THEN memory[first + x]
                                                        ELSE memory[second + (x - m)]]_vars
  <2> SUFFICES ASSUME SInv, NEW first \in Live \cup {NULL}, NEW second \in Live,
                      NEW m \in Request \cup {0}, NEW k \in Request,
                      Concat(first, second, m, k), Len(Allocations') > Len(Allocations),
                      AllocData'.DataSize >= AllocData.DataSize,
                      NEW x \in 0 .. m + k - 1
               PROVE  memory'[Allocations'[Len(Allocations')].DataAddress + x]
                         = IF x < m THEN memory[first + x] ELSE memory[second + (x - m)]
    OBVIOUS
  <2> DEFINE s == Current
             t == Current'
  <2>1. /\ Sound(s)
        /\ Grown(s, t) =>
              \/ Quiet(s, t) /\ Len(t.Allocations) = Len(s.Allocations)
              \/ Joined(s, t, first, second, m, k) /\ \E b : Gained(s, t, b, m + k)
    BY ConcatStep DEF SInv
  <2>2. /\ s.memory = memory /\ t.memory = memory'
        /\ s.AllocData = AllocData /\ t.AllocData = AllocData'
        /\ s.Allocations = Allocations /\ t.Allocations = Allocations'
    BY DEF Current
  <2> HIDE DEF s, t
  <2>3. Grown(s, t) /\ Len(t.Allocations) # Len(s.Allocations)
    <3>1. Len(s.Allocations) \in Nat
      BY <2>1, GoodIs DEF Sound
    <3>2. ~ (Len(s.Allocations) > Len(s.Allocations))
      BY <3>1
    <3> QED
      BY <2>2, <3>2 DEF Grown
  <2>4. Joined(s, t, first, second, m, k)
    BY <2>1, <2>3
  <2> QED
    BY <2>2, <2>4 DEF Joined
<1> QED
  BY <1>1, SoundAlways, PTL DEF Spec, ConcatJoins

-----------------------------------------------------------------------------
\* PhysicalMemory implements FrameHeap, in every behaviour in which the table of allocations
\* does not move to a smaller block, and so in every behaviour when the table of all the
\* blocks drivers may hold fits in one frame.

\* The substitution of the INSTANCE Heap.
Handles == {FrameAddress(f) : f \in Frame}
Sizes == {pages * FrameSize : pages \in 1 .. MemTop}
heapNow == [a \in Live |-> Contents(a)]

-----------------------------------------------------------------------------
\* The heap of a state

Bytes(s, b) == [x \in 0 .. b.DataSize - 1 |-> s.memory[b.DataAddress + x]]

Addresses(s) == {s.Allocations[i].DataAddress : i \in 1 .. Len(s.Allocations)}

EntryAt(s, a) == s.Allocations[Min(EntriesAt(s, a))]

HeapOf(s) == [a \in Addresses(s) |->
                 [x \in 0 .. EntryAt(s, a).DataSize - 1 |-> s.memory[a + x]]]

\* h is the heap of the blocks entered in s.
IsHeap(h, s) ==
    /\ DOMAIN h = {b.DataAddress : b \in EntryBlocks(s)}
    /\ \A b \in EntryBlocks(s) : h[b.DataAddress] = Bytes(s, b)
    /\ h = [a \in DOMAIN h |-> h[a]]

LEMMA HeapIs ==
    ASSUME NEW s, Sound(s)
    PROVE  IsHeap(HeapOf(s), s)
<1>1. Addresses(s) = {b.DataAddress : b \in EntryBlocks(s)}
  BY DEF Addresses, EntryBlocks
<1>2. ASSUME NEW b \in EntryBlocks(s)
      PROVE  HeapOf(s)[b.DataAddress] = Bytes(s, b)
  <2> DEFINE a == b.DataAddress
             i == Min(EntriesAt(s, a))
  <2>1. EntriesAt(s, a) \in SUBSET Nat /\ EntriesAt(s, a) # {}
    BY DEF EntriesAt, EntryBlocks
  <2>2. i \in EntriesAt(s, a)
    BY <2>1, MinNat
  <2> HIDE DEF i
  <2>3. s.Allocations[i] \in EntryBlocks(s) /\ s.Allocations[i].DataAddress = b.DataAddress
    BY <2>2 DEF EntriesAt, EntryBlocks
  <2>4. s.Allocations[i] = b
    BY <2>3, GoodIs DEF Sound, AllBlocks
  <2>5. a \in Addresses(s) /\ EntryAt(s, a) = b
    BY <1>1, <2>4 DEF EntryAt, i
  <2> QED
    BY <2>5 DEF HeapOf, Bytes
<1>3. DOMAIN HeapOf(s) = Addresses(s) /\ HeapOf(s) = [a \in DOMAIN HeapOf(s) |-> HeapOf(s)[a]]
  BY DEF HeapOf
<1> QED
  BY <1>1, <1>2, <1>3 DEF IsHeap

\* Blocks that keep their bytes are the same in both heaps.
LEMMA KeptInHeap ==
    ASSUME NEW s, Sound(s), NEW t, NEW h, IsHeap(h, s), NEW g, IsHeap(g, t),
           NEW S \in SUBSET EntryBlocks(s), S \subseteq EntryBlocks(t), SameBytes(s, t, S),
           NEW b \in S
    PROVE  g[b.DataAddress] = h[b.DataAddress]
<1>1. b.DataAddress \in Nat /\ b.DataSize \in Nat
  BY GoodIs DEF Sound, AllBlocks
<1>2. \A x \in 0 .. b.DataSize - 1 : t.memory[b.DataAddress + x] = s.memory[b.DataAddress + x]
  BY <1>1 DEF SameBytes, Extent
<1>3. Bytes(t, b) = Bytes(s, b)
  BY <1>2 DEF Bytes
<1> QED
  BY <1>3 DEF IsHeap

LEMMA BytesTyped ==
    ASSUME NEW s, Sound(s), NEW b \in EntryBlocks(s)
    PROVE  Bytes(s, b) \in [0 .. b.DataSize - 1 -> Byte] /\ b.DataAddress \in Handles
<1>1. /\ b.DataAddress \in Nat /\ b.DataSize \in Nat /\ IsBlock(b)
      /\ Extent(b) \subseteq 0 .. MemTop - 1 /\ s.memory \in Memory
  BY GoodIs DEF Sound, AllBlocks
<1>2. \A x \in 0 .. b.DataSize - 1 : b.DataAddress + x \in 0 .. MemTop - 1
  BY <1>1 DEF Extent
<1> QED
  BY <1>1, <1>2 DEF Bytes, Memory, Handles, IsBlock

\* A request is rounded to the smallest block with room for it.
Fits(b, n) ==
    \E size \in Sizes :
        /\ b \in [0 .. size - 1 -> Byte]
        /\ size >= n
        /\ \A other \in Sizes : other >= n => other >= size

LEMMA SmallestSize ==
    ASSUME NEW x \in Nat, NEW p \in Nat, NEW q \in Nat, NEW c \in Nat \ {0},
           p * c < x + c, x <= q * c
    PROVE  p * c <= q * c
<1>1. CASE p <= q
  BY <1>1, Multiples
<1>2. CASE q + 1 <= p
  <2> DEFINE pc == p * c
             qc == q * c
  <2>1. (q + 1) * c <= pc /\ (q + 1) * c = qc + c
    BY <1>2, Multiples
  <2>2. pc \in Nat /\ qc \in Nat
    OBVIOUS
  <2> HIDE DEF pc, qc
  <2>3. qc + c <= pc
    BY <2>1
  <2>4. pc < x + c /\ x <= qc
    BY DEF pc, qc
  <2> QED
    BY <2>2, <2>3, <2>4
<1> QED
  BY <1>1, <1>2

LEMMA AskedIs == \A n \in Asked : n \in 1 .. SizeMod - FrameSize
BY SizesAssumption, RequestAssumption DEF Asked

LEMMA BlockFits ==
    ASSUME NEW s, Sound(s), NEW b \in EntryBlocks(s), NEW n \in Asked, b.DataSize = AlignUp(n)
    PROVE  Fits(Bytes(s, b), n) /\ n <= b.DataSize /\ n \in Nat
<1> DEFINE p == AlignUp(n) \div FrameSize
           size == b.DataSize
<1>1. n \in 0 .. SizeMod - FrameSize /\ n \in 1 .. SizeMod - FrameSize
  BY AskedIs, SizesAssumption
<1>2. /\ p \in Nat \ {0} /\ size = p * FrameSize
      /\ n <= size /\ size < n + FrameSize
  BY <1>1, AlignUpRounds, PagesPositive
<1>3. size <= MemTop /\ size \in Nat
  <2>1. b \in Block /\ IsBlock(b) /\ size \in Nat
    BY GoodIs DEF Sound, AllBlocks
  <2>2. b.DataAddress \in Nat /\ b.DataAddress + size <= MemTop
    BY <2>1, ExtentInside
  <2> QED
    BY <2>1, <2>2, SizesAssumption
<1> HIDE DEF p
<1>4. p <= size
  BY <1>2, SizesAssumption
<1>5. size \in Sizes
  BY <1>2, <1>3, <1>4, SizesAssumption DEF Sizes
<1>6. \A other \in Sizes : other >= n => other >= size
  <2> SUFFICES ASSUME NEW q \in 1 .. MemTop, q * FrameSize >= n
               PROVE  q * FrameSize >= size
    BY DEF Sizes
  <2>1. q \in Nat /\ n \in Nat /\ FrameSize \in Nat \ {0} /\ n <= q * FrameSize
    BY <1>1, SizesAssumption
  <2>2. p * FrameSize < n + FrameSize
    BY <1>2
  <2>3. p * FrameSize <= q * FrameSize
    BY <1>2, <2>1, <2>2, SmallestSize
  <2> QED
    BY <1>2, <2>1, <2>3
<1>7. Bytes(s, b) \in [0 .. size - 1 -> Byte]
  BY BytesTyped
<1> HIDE DEF size
<1>8. Fits(Bytes(s, b), n)
  BY <1>1, <1>2, <1>3, <1>5, <1>6, <1>7 DEF Fits
<1> QED
  BY <1>1, <1>2, <1>8 DEF size

-----------------------------------------------------------------------------
\* The steps of FrameHeap between two heaps

Enters(h, g, gone, k, n) ==
    /\ k \notin DOMAIN h
    /\ DOMAIN g = (DOMAIN h \ gone) \cup {k}
    /\ Fits(g[k], n)
    /\ \A a \in DOMAIN h \ gone : g[a] = h[a]

Allocates(h, g) == \E n \in Asked : \E k \in Handles : Enters(h, g, {}, k, n)

Frees(h, g) ==
    \E a \in DOMAIN h :
        /\ DOMAIN g = DOMAIN h \ {a}
        /\ \A e \in DOMAIN h \ {a} : g[e] = h[e]

Moves(h, g) ==
    \E n \in Request : \E a \in DOMAIN h, k \in Handles :
        /\ Enters(h, g, {a}, k, n)
        /\ \A x \in DOMAIN h[a] \cap (0 .. n - 1) : g[k][x] = h[a][x]

Writes(h, g) ==
    \E a \in DOMAIN h :
        /\ DOMAIN g = DOMAIN h
        /\ g[a] \in [DOMAIN h[a] -> Byte]
        /\ \A e \in DOMAIN h \ {a} : g[e] = h[e]

LEMMA GainedAllocates ==
    ASSUME NEW s, Sound(s), NEW t, Sound(t), NEW h, IsHeap(h, s), NEW g, IsHeap(g, t),
           NEW n \in Asked, NEW b, Gained(s, t, b, n)
    PROVE  Allocates(h, g)
<1> DEFINE k == b.DataAddress
<1>1. /\ b \in EntryBlocks(t) /\ EntryBlocks(t) = EntryBlocks(s) \cup {b}
      /\ b.DataSize = AlignUp(n) /\ SameBytes(s, t, EntryBlocks(s))
      /\ \A c \in EntryBlocks(s) : c.DataAddress # b.DataAddress
  BY DEF Gained, New
<1>2. k \notin DOMAIN h /\ DOMAIN g = DOMAIN h \cup {k}
  BY <1>1 DEF IsHeap
<1>3. k \in Handles /\ Fits(g[k], n)
  <2>1. g[k] = Bytes(t, b)
    BY <1>1 DEF IsHeap
  <2> QED
    BY <1>1, <2>1, BytesTyped, BlockFits
<1>4. \A c \in EntryBlocks(s) : g[c.DataAddress] = h[c.DataAddress]
  BY <1>1, KeptInHeap
<1>5. \A a \in DOMAIN h : g[a] = h[a]
  BY <1>4 DEF IsHeap
<1> HIDE DEF k
<1> QED
  BY <1>2, <1>3, <1>5 DEF Allocates, Enters

LEMMA LostFrees ==
    ASSUME NEW s, Sound(s), NEW t, Sound(t), NEW h, IsHeap(h, s), NEW g, IsHeap(g, t),
           NEW c, Lost(s, t, c)
    PROVE  Frees(h, g)
<1> DEFINE k == c.DataAddress
           S == EntryBlocks(s) \ {c}
<1>1. c \in EntryBlocks(s) /\ EntryBlocks(t) = S /\ SameBytes(s, t, S)
  BY DEF Lost
<1>2. \A b \in EntryBlocks(s) : b # c => b.DataAddress # k
  BY <1>1, GoodIs DEF Sound, AllBlocks
<1>3. k \in DOMAIN h /\ DOMAIN g = DOMAIN h \ {k}
  BY <1>1, <1>2 DEF IsHeap
<1>4. \A b \in S : g[b.DataAddress] = h[b.DataAddress]
  BY <1>1, KeptInHeap
<1>5. \A a \in DOMAIN g : g[a] = h[a]
  BY <1>1, <1>4 DEF IsHeap
<1> HIDE DEF k
<1> QED
  BY <1>3, <1>5 DEF Frees

LEMMA ReplacedMoves ==
    ASSUME NEW s, Sound(s), NEW t, Sound(t), NEW h, IsHeap(h, s), NEW g, IsHeap(g, t),
           NEW n \in Request, NEW b, NEW c, Replaced(s, t, c, b, n)
    PROVE  Moves(h, g)
<1> DEFINE k == b.DataAddress
           a == c.DataAddress
           S == EntryBlocks(s) \ {c}
<1>1. /\ c \in EntryBlocks(s) /\ b \in EntryBlocks(t) /\ EntryBlocks(t) = S \cup {b}
      /\ b.DataSize = AlignUp(n) /\ SameBytes(s, t, S)
      /\ \A e \in EntryBlocks(s) : e.DataAddress # b.DataAddress
  BY DEF Replaced, New
<1>2. \A e \in EntryBlocks(s) : e # c => e.DataAddress # a
  BY <1>1, GoodIs DEF Sound, AllBlocks
<1>3. k \notin DOMAIN h /\ a \in DOMAIN h /\ DOMAIN g = (DOMAIN h \ {a}) \cup {k}
  BY <1>1, <1>2 DEF IsHeap
<1>4. h[a] = Bytes(s, c) /\ g[k] = Bytes(t, b)
  BY <1>1 DEF IsHeap
<1>5. k \in Handles /\ Fits(g[k], n) /\ n \in Nat /\ n <= b.DataSize
  <2>1. n \in Asked
    BY DEF Asked
  <2> QED
    BY <1>1, <1>4, <2>1, BytesTyped, BlockFits
<1>6. \A e \in S : g[e.DataAddress] = h[e.DataAddress]
  BY <1>1, KeptInHeap
<1>7. \A e \in DOMAIN h \ {a} : g[e] = h[e]
  BY <1>1, <1>6 DEF IsHeap
<1>8. ASSUME NEW x \in DOMAIN h[a] \cap (0 .. n - 1)
      PROVE  g[k][x] = h[a][x]
  <2>1. c.DataSize \in Nat /\ b.DataSize \in Nat
    BY <1>1, GoodIs DEF Sound, AllBlocks
  <2>2. x \in 0 .. c.DataSize - 1 /\ x \in 0 .. n - 1
    BY <1>4 DEF Bytes
  <2>3. x < c.DataSize /\ x \in 0 .. b.DataSize - 1
    BY <1>5, <2>1, <2>2
  <2>4. t.memory[k + x] = s.memory[a + x]
    BY <2>2, <2>3 DEF Replaced
  <2> QED
    BY <1>4, <2>2, <2>3, <2>4 DEF Bytes
<1> HIDE DEF k, a
<1> QED
  BY <1>3, <1>5, <1>7, <1>8 DEF Moves, Enters

LEMMA WroteWrites ==
    ASSUME NEW s, Sound(s), NEW t, Sound(t), NEW h, IsHeap(h, s), NEW g, IsHeap(g, t),
           NEW c, Wrote(s, t, c)
    PROVE  Writes(h, g)
<1> DEFINE k == c.DataAddress
           S == EntryBlocks(s) \ {c}
<1>1. c \in EntryBlocks(s) /\ EntryBlocks(t) = EntryBlocks(s) /\ SameBytes(s, t, S)
  BY DEF Wrote
<1>2. k \in DOMAIN h /\ DOMAIN g = DOMAIN h
  BY <1>1 DEF IsHeap
<1>3. g[k] \in [DOMAIN h[k] -> Byte]
  <2>1. g[k] = Bytes(t, c) /\ h[k] = Bytes(s, c)
    BY <1>1 DEF IsHeap
  <2>2. Bytes(t, c) \in [0 .. c.DataSize - 1 -> Byte]
    BY <1>1, BytesTyped
  <2> QED
    BY <2>1, <2>2 DEF Bytes
<1>4. \A b \in S : g[b.DataAddress] = h[b.DataAddress]
  BY <1>1, KeptInHeap
<1>5. \A e \in DOMAIN h \ {k} : g[e] = h[e]
  BY <1>1, <1>4 DEF IsHeap
<1> HIDE DEF k
<1> QED
  BY <1>2, <1>3, <1>5 DEF Writes

LEMMA QuietStutters ==
    ASSUME NEW s, Sound(s), NEW t, NEW h, IsHeap(h, s), NEW g, IsHeap(g, t), Quiet(s, t)
    PROVE  g = h
<1>1. EntryBlocks(t) = EntryBlocks(s) /\ SameBytes(s, t, EntryBlocks(s))
  BY DEF Quiet
<1>2. \A b \in EntryBlocks(s) : g[b.DataAddress] = h[b.DataAddress]
  BY <1>1, KeptInHeap
<1>3. DOMAIN g = DOMAIN h /\ \A a \in DOMAIN h : g[a] = h[a]
  BY <1>1, <1>2 DEF IsHeap
<1>4. h = [a \in DOMAIN h |-> h[a]] /\ g = [a \in DOMAIN g |-> g[a]]
  BY DEF IsHeap
<1> QED
  BY <1>3, <1>4

LEMMA HeapSteps ==
    ASSUME NEW s, Sound(s), NEW t, Sound(t), Effect(s, t) \/ \E c : Wrote(s, t, c),
           NEW h, h = HeapOf(s), NEW g, g = HeapOf(t)
    PROVE  g = h \/ Allocates(h, g) \/ Frees(h, g) \/ Moves(h, g) \/ Writes(h, g)
<1>1. IsHeap(h, s) /\ IsHeap(g, t)
  BY HeapIs
<1> QED
  BY <1>1, QuietStutters, GainedAllocates, LostFrees, ReplacedMoves, WroteWrites DEF Effect

\* They are the steps of FrameHeap under the substitution.
LEMMA StepsOfHeap ==
    ASSUME NEW h, NEW g, h = heapNow, g = heapNow',
           g = h \/ Allocates(h, g) \/ Frees(h, g) \/ Moves(h, g) \/ Writes(h, g)
    PROVE  [Heap!Next]_heapNow
<1>1. ASSUME NEW n \in Asked, NEW k \in Handles, Enters(h, g, {}, k, n) PROVE Heap!Alloc(n)
  BY <1>1 DEF Heap!Alloc, Heap!Replace, Heap!Untouched, Heap!Holds, Enters, Fits, Handles, Sizes,
              heapNow
<1>2. ASSUME Frees(h, g) PROVE \E a \in DOMAIN heapNow : Heap!Free(a)
  BY <1>2 DEF Heap!Free, Heap!Untouched, Frees, heapNow
<1>3. ASSUME Writes(h, g) PROVE \E a \in DOMAIN heapNow : Heap!Write(a)
  BY <1>3 DEF Heap!Write, Heap!Untouched, Writes, heapNow
<1>4. ASSUME NEW n \in Request, NEW a \in DOMAIN h, NEW k \in Handles, Enters(h, g, {a}, k, n),
             \A x \in DOMAIN h[a] \cap (0 .. n - 1) : g[k][x] = h[a][x]
      PROVE  Heap!Realloc(a, n)
  BY <1>4 DEF Heap!Realloc, Heap!Replace, Heap!Untouched, Heap!Holds, Enters, Fits, Handles, Sizes,
              heapNow
<1>5. ASSUME Allocates(h, g) PROVE Heap!Next
  BY <1>1, <1>5 DEF Allocates, Heap!Next, Asked
<1>6. ASSUME Frees(h, g) PROVE Heap!Next
  BY <1>2, <1>6 DEF Heap!Next, heapNow
<1>7. ASSUME Writes(h, g) PROVE Heap!Next
  BY <1>3, <1>7 DEF Heap!Next, heapNow
<1>8. ASSUME Moves(h, g) PROVE Heap!Next
  <2>1. PICK n \in Request, a \in DOMAIN h : Heap!Realloc(a, n)
    BY <1>4, <1>8 DEF Moves
  <2>2. n \in Asked /\ a \in DOMAIN heapNow
    BY DEF Asked
  <2> QED
    BY <2>1, <2>2 DEF Heap!Next, heapNow, Asked
<1> QED
  BY <1>5, <1>6, <1>7, <1>8

-----------------------------------------------------------------------------
\* The refinement

LEMMA HeapNowIs == heapNow = HeapOf(Current)
BY DEF heapNow, Contents, BlockAt, Live, HeapOf, EntryAt, Addresses, Current

LEMMA StepRefines ==
    SInv /\ [Next]_vars /\ [AllocData'.DataSize >= AllocData.DataSize]_vars => [Heap!Next]_heapNow
<1> SUFFICES ASSUME SInv, [Next]_vars, [AllocData'.DataSize >= AllocData.DataSize]_vars
             PROVE  [Heap!Next]_heapNow
  OBVIOUS
<1> DEFINE s == Current
           t == Current'
<1>1. /\ Sound(s) /\ Sound(t)
      /\ (Grown(s, t) => Effect(s, t)) \/ \E c : Wrote(s, t, c)
  BY StepEffect DEF SInv
<1>2. Grown(s, t)
  <2>1. s.AllocData = AllocData /\ t.AllocData = AllocData'
    BY DEF Current
  <2>2. s.AllocData.DataSize \in Nat
    BY <1>1, GoodIs DEF Sound, Block
  <2>3. AllocData'.DataSize >= AllocData.DataSize \/ AllocData' = AllocData
    BY DEF vars
  <2> QED
    BY <2>1, <2>2, <2>3 DEF Grown
<1>3. heapNow = HeapOf(s)
  BY HeapNowIs
<1>4. heapNow' = HeapOf(t)
  BY DEF heapNow, Contents, BlockAt, Live, HeapOf, EntryAt, Addresses, Current
<1> DEFINE h == HeapOf(s)
           g == HeapOf(t)
<1> HIDE DEF s, t
<1>5. g = h \/ Allocates(h, g) \/ Frees(h, g) \/ Moves(h, g) \/ Writes(h, g)
  BY <1>1, <1>2, HeapSteps
<1> HIDE DEF h, g
<1>6. h = heapNow /\ g = heapNow'
  BY <1>3, <1>4 DEF h, g
<1> QED
  BY <1>5, <1>6, StepsOfHeap

LEMMA InitRefines == Init => Heap!Init
BY DEF Init, Heap!Init, Live

\* As long as the table never moves to a smaller block, the manager is a heap of blocks:
\* a call changes no block but the one it releases or moves, a block that moves keeps the
\* bytes asked for, and a new one is the smallest that has room.
THEOREM RefinesHeapWhileTableGrows ==
    Spec /\ [][AllocData'.DataSize >= AllocData.DataSize]_vars => ImplementsFrameHeap
BY InitRefines, StepRefines, SoundAlways, PTL DEF Spec, ImplementsFrameHeap, Heap!Spec, heapNow

LEMMA OneFrame ==
    ASSUME EntrySize * MaxLive <= FrameSize, NEW n \in 1 .. MaxLive
    PROVE  TableSize(n) = FrameSize
<1> DEFINE x == EntrySize * n
           t == TableSize(n)
           q == AlignUp(x) \div FrameSize
<1>1. EntrySize \in Nat \ {0} /\ FrameSize \in Nat \ {0} /\ MaxLive \in Nat /\ n \in 0 .. MaxLive
  BY SizesAssumption
<1>2. x \in Nat /\ x > 0 /\ x <= FrameSize
  <2> DEFINE y == EntrySize * MaxLive
  <2>1. x \in Nat /\ x > 0 /\ x <= y /\ y \in Nat /\ y <= FrameSize
    BY <1>1
  <2> HIDE DEF x, y
  <2> QED
    BY <1>1, <2>1
<1>3. x <= t /\ t \in 0 .. SizeMod - FrameSize /\ t = AlignUp(x)
  BY <1>1, TableSizes
<1> HIDE DEF x, t
<1>4. x \in 0 .. SizeMod - FrameSize
  BY <1>2, <1>3, SizesAssumption
<1>5. q \in Nat /\ t = q * FrameSize /\ t < x + FrameSize
  BY <1>3, <1>4, AlignUpRounds
<1> HIDE DEF q
<1>6. q # 0
  BY <1>1, <1>2, <1>3, <1>5
<1>7. CASE q = 1
  BY <1>1, <1>5, <1>7 DEF t
<1>8. CASE q >= 2
  <2>1. 2 * FrameSize <= q * FrameSize /\ q * FrameSize \in Nat
    BY <1>1, <1>5, <1>8, Multiples
  <2>2. 2 * FrameSize <= t /\ t \in Nat
    BY <1>5, <2>1
  <2> QED
    BY <1>1, <1>2, <1>5, <2>2
<1> QED
  BY <1>5, <1>6, <1>7, <1>8

\* A table that needs one frame at most never moves to a smaller block.
TableInv == AllocData.DataSize \in {0, FrameSize}

LEMMA InitTable == Init => TableInv
BY DEF Init, TableInv, NoBlock

LEMMA NextTable ==
    ASSUME EntrySize * MaxLive <= FrameSize
    PROVE  TableInv /\ SInv /\ [Next]_vars =>
              TableInv' /\ [AllocData'.DataSize >= AllocData.DataSize]_vars
<1> SUFFICES ASSUME TableInv, SInv, [Next]_vars
             PROVE  TableInv' /\ AllocData'.DataSize >= AllocData.DataSize
  OBVIOUS
<1>1. \A s, t : s = Current /\ t = Current' => Fitted(s, t)
  BY StepEffect DEF SInv
<1>2. Current.AllocData = AllocData /\ (Current').AllocData = AllocData'
  BY DEF Current
<1>3. AllocData' = AllocData \/ \E n \in 1 .. MaxLive : AllocData'.DataSize = TableSize(n)
  BY <1>1, <1>2 DEF Fitted
<1>4. AllocData'.DataSize \in {AllocData.DataSize, FrameSize}
  BY <1>3, OneFrame
<1> QED
  BY <1>4, SizesAssumption DEF TableInv

\* When the entries of all the blocks that drivers may hold fit in one frame, the manager is
\* a heap of blocks whatever the drivers ask for, fill and release.
THEOREM RefinesHeap ==
    ASSUME EntrySize * MaxLive <= FrameSize
    PROVE  Spec => ImplementsFrameHeap
<1>1. TableInv /\ SInv /\ [Next]_vars =>
         TableInv' /\ [AllocData'.DataSize >= AllocData.DataSize]_vars
  BY NextTable
<1>2. Spec => [][AllocData'.DataSize >= AllocData.DataSize]_vars
  BY <1>1, InitTable, SoundAlways, PTL DEF Spec
<1> QED
  BY <1>2, RefinesHeapWhileTableGrows, PTL

=============================================================================
