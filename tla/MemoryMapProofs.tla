--------------------------- MODULE MemoryMapProofs ---------------------------
(***************************************************************************)
(* What TLAPS proves of MemoryMap and Boot, for every BIOS, every memory   *)
(* map it may report, every list of reserved ranges, every kernel that     *)
(* stays in its segment and all sizes that satisfy the assumptions: the    *)
(* kernel is read whole, the map it is handed is complete, the regions     *)
(* that KernelMain ends with lie in free memory only, and no frame of free *)
(* memory is missing from them.                                            *)
(***************************************************************************)
EXTENDS Boot, FiniteSetTheorems, SequenceTheorems, TLAPS

-----------------------------------------------------------------------------
\* Regions, ranges and frames

Multiple(x) == x % FrameSize = 0

Top(reg) == reg.Address + reg.Size

\* No byte of the region is in the range.
Clear(reg, rm) == rm.Size = 0 \/ Top(reg) <= rm.Address \/ Top(rm) <= reg.Address

\* The region lies in memory that the entry offers.
Within(reg, entry) ==
    /\ entry.Extended /\ Allocatable(entry)
    /\ entry.BaseAddress <= reg.Address /\ Top(reg) <= entry.BaseAddress + entry.Length

\* It does so for one of the first n entries.
Placed(map, n, reg) == Top(reg) < AddressMod /\ \E l \in 1 .. n : Within(reg, map[l])

\* The addresses of the frames.
Frames == {f * FrameSize : f \in 0 .. AddressMod \div FrameSize - 1}

Frame(a) == [Address |-> a, Size |-> FrameSize, Type |-> USABLE]

Holds(reg, a) == Allocatable(reg) /\ reg.Address <= a /\ a + FrameSize <= Top(reg)

\* The frame at a is offered by one of the first n entries and meets nothing that is
\* taken or being removed.
Free(map, n, rm, a) ==
    /\ \E l \in 1 .. n : Within(Frame(a), map[l])
    /\ \A m \in 1 .. Len(extraMemRegs) : Clear(Frame(a), extraMemRegs[m])
    /\ \A m \in 1 .. Len(rm) : Clear(Frame(a), rm[m])

NothingLost(map, n, q, rm) ==
    \A a \in Frames : Free(map, n, rm, a) => \E k \in 1 .. Len(q) : Holds(q[k], a)

UsableIn(q) == {k \in 1 .. Len(q) : Allocatable(q[k])}

-----------------------------------------------------------------------------
\* The regions of the first n entries, in any order

Whole(reg) == reg.Size > 0 /\ Multiple(reg.Address) /\ Multiple(reg.Size)

Collected(map, n, q) ==
    /\ q \in Seq(Region) /\ Len(q) <= n
    /\ \A k \in UsableIn(q) : Whole(q[k]) /\ Placed(map, n, q[k])
    /\ \A k, l \in UsableIn(q) : k # l => Top(q[k]) <= q[l].Address \/ Top(q[l]) <= q[k].Address
    /\ NothingLost(map, n, q, <<>>)

\* Where the sort is: the last p - 1 regions are in their places, the highest of the first
\* s is the last of these, and they are in order unless something was swapped.
SortedSoFar(q, p, s, w) ==
    /\ p \in Nat \ {0} /\ s \in Nat \ {0} /\ w \in BOOLEAN
    /\ Len(q) > 0 => p + s <= Len(q) + 1
    /\ \A k, l \in 1 .. Len(q) : k < l /\ l + p > Len(q) + 1 => q[k].Address <= q[l].Address
    /\ \A k \in 1 .. Len(q) : k < s => q[k].Address <= q[s].Address
    /\ ~w => \A k, l \in 1 .. Len(q) : k < l /\ l <= s => q[k].Address <= q[l].Address

-----------------------------------------------------------------------------
\* The regions while ranges are removed, the region at p with the range at s next

\* A region that a range has just made reserved is still cut by those that follow.
Active(q, p, s) == {k \in 1 .. Len(q) : Allocatable(q[k]) \/ (k = p /\ s > 1)}

Ordered(q, S) == \A k, l \in S : k < l => Top(q[k]) <= q[l].Address

\* What the ranges have done so far.
Cleared(q, rm, p, s) ==
    \A k \in UsableIn(q) : \A m \in 1 .. Len(rm) :
        k < p \/ (k = p /\ m < s) => Clear(q[k], rm[m])

\* Rounding the region up will not move its end past a frame that is not in it: of its
\* two ends one stays on a boundary.
Even(reg, rm) ==
    \/ Multiple(Top(reg)) /\ \A m \in 1 .. Len(rm) : Multiple(rm[m].Address)
    \/ Multiple(reg.Address) /\ Multiple(Top(reg)) /\ Len(rm) = 1
    \/ /\ Multiple(reg.Address) \/ Multiple(Top(reg))
       /\ \A m \in 1 .. Len(rm) : Clear(reg, rm[m])

\* The ranges that are still to split a region.
Inside(q, S, rm) ==
    {m \in 1 .. Len(rm) :
        rm[m].Size > 0 /\ \E k \in S : q[k].Address <= rm[m].Address /\ Top(rm[m]) <= Top(q[k])}

Cutting(map, q, rm, p, s) ==
    /\ q \in Seq(Region) /\ rm \in Seq(Region)
    /\ \A m \in 1 .. Len(rm) : Top(rm[m]) < AddressMod
    /\ p \in 1 .. Len(q) + 1 /\ s \in 1 .. Len(rm) + 1 /\ (p = Len(q) + 1 => s = 1)
    /\ \A k \in Active(q, p, s) : Placed(map, Len(map), q[k])
    /\ Ordered(q, Active(q, p, s))
    /\ Cleared(q, rm, p, s)
    /\ \A k \in UsableIn(q) : Even(q[k], rm)
    /\ NothingLost(map, Len(map), q, rm)

\* The regions do not become more than total.
Fits(q, rm, p, s, total) == Len(q) + Cardinality(Inside(q, Active(q, p, s), rm)) <= total

ClearOfExtra(q) ==
    \A k \in UsableIn(q) : \A m \in 1 .. Len(extraMemRegs) : Clear(q[k], extraMemRegs[m])

\* KernelMain's call of RemoveMemoryRegions, and InstallPMM's.
FirstCall(map, q, rm, p, s) ==
    /\ rm = extraMemRegs /\ Cutting(map, q, rm, p, s)
    /\ Fits(q, rm, p, s, Len(map) + Len(extraMemRegs))

SecondCall(map, q, rm, p, s) ==
    /\ Cutting(map, q, rm, p, s) /\ ClearOfExtra(q)
    /\ \E count \in 0 .. Len(map) + Len(extraMemRegs) :
          rm = <<MapRegion(count)>> /\ Fits(q, rm, p, s, count + 1)

\* The regions that the allocator gets.
Finished(map, q, rm) ==
    /\ q \in Seq(Region)
    /\ \A k \in UsableIn(q) : /\ Placed(map, Len(map), q[k])
                              /\ Multiple(q[k].Address) /\ Multiple(q[k].Size)
                              /\ Clear(q[k], rm[1])
    /\ Ordered(q, UsableIn(q)) /\ ClearOfExtra(q)
    /\ NothingLost(map, Len(map), q, rm)
    /\ \E count \in 0 .. Len(map) + Len(extraMemRegs) :
          rm = <<MapRegion(count)>> /\ Len(q) <= count + 1

MapInv ==
    /\ bios \in BiosMaps
    /\ pc \in {"transform", "sort", "remove", "removeMap", "install", "done"}
    /\ pc = "transform" => i \in 1 .. Len(bios) + 1 /\ Collected(bios, i - 1, regs)
    /\ pc = "sort" => Collected(bios, Len(bios), regs) /\ SortedSoFar(regs, i, j, swapped)
    /\ pc = "remove" => FirstCall(bios, regs, rmRegs, i, j)
    /\ pc = "removeMap" => SecondCall(bios, regs, rmRegs, i, j)
    /\ pc \in {"install", "done"} => Finished(bios, regs, rmRegs)
    /\ pc = "done" => data = [k \in 1 .. Len(regs) |-> FirstData(regs[k])]

-----------------------------------------------------------------------------
\* Arithmetic

LEMMA DivBounds ==
    ASSUME NEW x \in Nat, NEW c \in Nat \ {0}
    PROVE  /\ x \div c \in Nat
           /\ (x \div c) * c <= x
           /\ x < (x \div c) * c + c
BY SMT

LEMMA ModSmall ==
    ASSUME NEW x \in Nat, NEW m \in Nat, x < m
    PROVE  x % m = x
BY SMT

LEMMA MultipleMod ==
    ASSUME NEW y \in Nat, NEW c \in Nat \ {0}
    PROVE  (y * c) % c = 0 /\ (y * c) \in Nat
BY SMT

LEMMA ModMultiple ==
    ASSUME NEW x \in Nat, NEW c \in Nat \ {0}, x % c = 0
    PROVE  x = (x \div c) * c /\ x \div c \in Nat
BY SMT

LEMMA TimesLess ==
    ASSUME NEW x \in Int, NEW y \in Int, NEW c \in Nat \ {0}, x * c < y * c
    PROVE  x + 1 <= y /\ (x + 1) * c = x * c + c
BY SMT

LEMMA TimesLeq ==
    ASSUME NEW x \in Int, NEW y \in Int, NEW c \in Nat, x <= y
    PROVE  x * c <= y * c
BY SMT

LEMMA TimesPlus ==
    ASSUME NEW x \in Int, NEW y \in Int, NEW c \in Int
    PROVE  (x + y) * c = x * c + y * c /\ (x - y) * c = x * c - y * c
           /\ (x + y) * c \in Int /\ x * c \in Int /\ y * c \in Int
BY SMT

LEMMA MultipleIs ==
    ASSUME NEW x \in Nat
    PROVE  Multiple(x) <=> \E f \in Nat : x = f * FrameSize
<1>1. FrameSize \in Nat \ {0}
  BY SizesAssumption
<1>2. ASSUME Multiple(x) PROVE \E f \in Nat : x = f * FrameSize
  <2>1. x = (x \div FrameSize) * FrameSize /\ x \div FrameSize \in Nat
    BY <1>1, <1>2, ModMultiple DEF Multiple
  <2> QED
    BY <2>1
<1>3. ASSUME NEW f \in Nat, x = f * FrameSize PROVE Multiple(x)
  BY <1>1, <1>3, MultipleMod DEF Multiple
<1> QED
  BY <1>2, <1>3

\* Sums and differences of multiples, and a multiple below another by a whole frame.
LEMMA MultipleSums ==
    ASSUME NEW x \in Nat, NEW y \in Nat, Multiple(x), Multiple(y)
    PROVE  /\ Multiple(x + y)
           /\ x <= y => Multiple(y - x)
           /\ x < y => x + FrameSize <= y
<1>1. FrameSize \in Nat \ {0}
  BY SizesAssumption
<1>2. PICK f \in Nat : x = f * FrameSize
  BY MultipleIs
<1>3. PICK g \in Nat : y = g * FrameSize
  BY MultipleIs
<1>4. (f + g) * FrameSize = x + y /\ (g - f) * FrameSize = y - x
  BY <1>1, <1>2, <1>3, TimesPlus
<1>5. Multiple(x + y)
  <2>1. f + g \in Nat /\ x + y \in Nat
    OBVIOUS
  <2> QED
    BY <1>4, <2>1, MultipleIs
<1>6. ASSUME x < y PROVE x + FrameSize <= y /\ Multiple(y - x)
  <2>1. f + 1 <= g /\ (f + 1) * FrameSize = x + FrameSize
    BY <1>1, <1>2, <1>3, <1>6, TimesLess
  <2>2. (f + 1) * FrameSize <= g * FrameSize
    BY <1>1, <2>1, TimesLeq
  <2>3. g - f \in Nat /\ y - x \in Nat
    BY <1>6, <2>1
  <2> QED
    BY <1>3, <1>4, <2>1, <2>2, <2>3, MultipleIs
<1>7. ASSUME x = y PROVE Multiple(y - x)
  <2>1. y - x = 0 /\ 0 = 0 * FrameSize
    BY <1>1, <1>7
  <2> QED
    BY <2>1, MultipleIs
<1> QED
  BY <1>5, <1>6, <1>7

LEMMA Modulus ==
    /\ AddressMod \in Nat \ {0} /\ Multiple(AddressMod)
    /\ FrameSize \in Nat \ {0} /\ FrameSize <= AddressMod /\ Multiple(0)
<1>1. AddressMod \in Nat \ {0} /\ Multiple(AddressMod) /\ FrameSize \in Nat \ {0}
  BY SizesAssumption DEF Multiple
<1>2. Multiple(0)
  <2>1. 0 = 0 * FrameSize
    BY <1>1
  <2> QED
    BY <2>1, MultipleIs
<1>3. 0 + FrameSize <= AddressMod
  <2>1. 0 \in Nat /\ 0 < AddressMod
    BY <1>1
  <2> QED
    BY <1>1, <1>2, <2>1, MultipleSums
<1> QED
  BY <1>1, <1>2, <1>3

\* Rounding gives the next multiple, unless it passes the top of the address space.
LEMMA AlignDownIs ==
    ASSUME NEW x \in Nat
    PROVE  /\ AlignDown(x) \in Nat /\ Multiple(AlignDown(x))
           /\ AlignDown(x) <= x /\ x < AlignDown(x) + FrameSize
           /\ Multiple(x) => AlignDown(x) = x
<1>1. FrameSize \in Nat \ {0}
  BY Modulus
<1>2. /\ x \div FrameSize \in Nat
      /\ AlignDown(x) <= x /\ x < AlignDown(x) + FrameSize
  BY <1>1, DivBounds DEF AlignDown
<1>3. AlignDown(x) \in Nat /\ Multiple(AlignDown(x))
  BY <1>1, <1>2, MultipleMod DEF AlignDown, Multiple
<1>4. ASSUME Multiple(x) PROVE AlignDown(x) = x
  BY <1>1, <1>4, ModMultiple DEF Multiple, AlignDown
<1> QED
  BY <1>2, <1>3, <1>4

LEMMA AlignUpTyped == ASSUME NEW x \in Nat PROVE AlignUp(x) \in Nat /\ Multiple(AlignUp(x))
<1> DEFINE y == (x + FrameSize - 1) % AddressMod
<1>1. y \in Nat
  <2>1. x + FrameSize - 1 \in Nat /\ AddressMod \in Nat \ {0}
    BY Modulus
  <2> QED
    BY <2>1
<1>2. AlignUp(x) = AlignDown(y)
  BY DEF AlignUp, AlignDown
<1> QED
  BY <1>1, <1>2, AlignDownIs

LEMMA AlignUpIs ==
    ASSUME NEW x \in Nat, x + FrameSize <= AddressMod
    PROVE  /\ x <= AlignUp(x) /\ AlignUp(x) < x + FrameSize
           /\ Multiple(x) => AlignUp(x) = x
<1> DEFINE y == x + FrameSize - 1
<1>1. FrameSize \in Nat \ {0} /\ AddressMod \in Nat \ {0} /\ y \in Nat /\ y < AddressMod
  BY Modulus
<1>2. y % AddressMod = y
  BY <1>1, ModSmall
<1>3. AlignUp(x) = AlignDown(y)
  BY <1>2 DEF AlignUp, AlignDown
<1>4. AlignUp(x) \in Nat /\ AlignUp(x) <= y /\ y < AlignUp(x) + FrameSize /\ Multiple(AlignUp(x))
  BY <1>1, <1>3, AlignDownIs
<1>5. x <= AlignUp(x) /\ AlignUp(x) < x + FrameSize
  BY <1>1, <1>4
<1>6. ASSUME Multiple(x) PROVE AlignUp(x) = x
  <2>1. ~(x < AlignUp(x))
    <3>1. ASSUME x < AlignUp(x) PROVE x + FrameSize <= AlignUp(x)
      BY <1>4, <1>6, <3>1, MultipleSums
    <3> QED
      BY <1>1, <1>4, <1>5, <3>1
  <2> QED
    BY <1>4, <1>5, <2>1
<1> QED
  BY <1>5, <1>6

-----------------------------------------------------------------------------
\* A cut

\* What becomes of a region in a cut: a part of it, which if it still can be used has none
\* of the range in it, and one of the region's two ends.
Piece(p, reg, rm) ==
    /\ p \in Region
    /\ reg.Address <= p.Address /\ Top(p) <= Top(reg)
    /\ Allocatable(p) =>
          /\ Allocatable(reg) /\ Clear(p, rm)
          /\ p.Address = reg.Address \/ Top(p) = Top(reg)
          /\ Top(p) = Top(reg) \/ Top(p) = rm.Address
          /\ Clear(reg, rm) => p.Address = reg.Address /\ p.Size = reg.Size

\* A frame of the region that meets nothing of the range is in a piece.
Kept(reg, rm, P) ==
    \A a \in Nat : Holds(reg, a) /\ Clear(Frame(a), rm) => \E p \in P : Holds(p, a)

CutTo(c, reg, rm) ==
    \/ \E p : /\ c = <<p>> /\ Piece(p, reg, rm) /\ Kept(reg, rm, {p})
    \/ \E p, r : /\ c = <<p, r>> /\ Piece(p, reg, rm) /\ Piece(r, reg, rm) /\ Kept(reg, rm, {p, r})
                 /\ rm.Size > 0 /\ reg.Address <= rm.Address /\ Top(rm) <= Top(reg)
                 /\ Top(p) = rm.Address /\ r.Address = Top(rm)

LEMMA CutIs ==
    ASSUME NEW reg \in Region, NEW rm \in Region, Top(reg) < AddressMod, Top(rm) < AddressMod
    PROVE  CutTo(Cut(reg, rm), reg, rm)
<1>1. /\ reg.Address \in Nat /\ reg.Size \in Nat /\ reg.Type \in Nat
      /\ rm.Address \in Nat /\ rm.Size \in Nat
      /\ FrameSize \in Nat \ {0} /\ AddressMod \in Nat
  BY Modulus DEF Region
<1>2. End(reg) = Top(reg) /\ End(rm) = Top(rm) /\ Top(reg) \in Nat /\ Top(rm) \in Nat
  <2>1. Top(reg) \in Nat /\ Top(rm) \in Nat
    BY <1>1 DEF Top
  <2> QED
    BY <1>1, <2>1, ModSmall DEF End, Top
<1>3. ASSUME Overlap(reg, rm) = "none" PROVE CutTo(Cut(reg, rm), reg, rm)
  <2>1. Cut(reg, rm) = <<reg>>
    BY <1>3 DEF Cut
  <2>2. Clear(reg, rm)
    BY <1>1, <1>2, <1>3 DEF Overlap, OverlapType, Clear, Top
  <2>3. Piece(reg, reg, rm)
    BY <1>1, <1>2, <2>2 DEF Piece
  <2>4. Kept(reg, rm, {reg})
    BY DEF Kept
  <2> QED
    BY <2>1, <2>3, <2>4 DEF CutTo
<1> DEFINE l == Left(reg, rm)
           r == Right(reg, rm)
<1>4. ASSUME reg.Address <= rm.Address, rm.Address <= Top(reg), rm.Size > 0
      PROVE  /\ l \in Region /\ l.Address = reg.Address /\ Top(l) = rm.Address
             /\ l.Type = reg.Type /\ Piece(l, reg, rm)
  <2>1. (rm.Address - reg.Address) % AddressMod = rm.Address - reg.Address
    BY <1>1, <1>2, <1>4, ModSmall
  <2>2. l = [Address |-> reg.Address, Size |-> rm.Address - reg.Address, Type |-> reg.Type]
    BY <2>1 DEF Left, Region
  <2>3. /\ l.Address = reg.Address /\ l.Size = rm.Address - reg.Address /\ l.Type = reg.Type
        /\ l \in Region
    BY <1>1, <1>4, <2>2 DEF Region
  <2>4. Top(l) = rm.Address
    BY <1>1, <2>3 DEF Top
  <2> HIDE DEF l
  <2>5. Piece(l, reg, rm)
    <3>1. reg.Address <= l.Address /\ Top(l) <= Top(reg)
      BY <1>1, <1>4, <2>3, <2>4
    <3>2. Allocatable(l) <=> Allocatable(reg)
      BY <2>3 DEF Allocatable
    <3>3. Clear(l, rm)
      BY <1>1, <2>4 DEF Clear
    <3>4. Clear(reg, rm) => l.Size = reg.Size
      BY <1>1, <1>2, <1>4, <2>3 DEF Clear, Top
    <3> QED
      BY <2>3, <2>4, <3>1, <3>2, <3>3, <3>4 DEF Piece
  <2> QED
    BY <2>3, <2>4, <2>5
<1>5. ASSUME reg.Address <= Top(rm), Top(rm) <= Top(reg), rm.Size > 0
      PROVE  /\ r \in Region /\ r.Address = Top(rm) /\ Top(r) = Top(reg)
             /\ r.Type = reg.Type /\ Piece(r, reg, rm)
  <2>1. (Top(reg) - Top(rm)) % AddressMod = Top(reg) - Top(rm)
    BY <1>1, <1>2, <1>5, ModSmall
  <2>2. r = [Address |-> Top(rm), Size |-> Top(reg) - Top(rm), Type |-> reg.Type]
    <3>1. r = [reg EXCEPT !.Address = Top(rm), !.Size = Top(reg) - Top(rm)]
      BY <1>2, <2>1 DEF Right
    <3> HIDE DEF r
    <3> QED
      BY <3>1 DEF Region
  <2>3. /\ r.Address = Top(rm) /\ r.Size = Top(reg) - Top(rm) /\ r.Type = reg.Type
        /\ r \in Region
    BY <1>1, <1>2, <1>5, <2>2 DEF Region
  <2>4. Top(r) = Top(reg)
    BY <1>2, <2>3 DEF Top
  <2> HIDE DEF r
  <2>5. Piece(r, reg, rm)
    <3>1. reg.Address <= r.Address /\ Top(r) <= Top(reg)
      BY <1>2, <1>5, <2>3, <2>4
    <3>2. Allocatable(r) <=> Allocatable(reg)
      BY <2>3 DEF Allocatable
    <3>3. Clear(r, rm)
      BY <1>2, <2>3 DEF Clear
    <3>4. Clear(reg, rm) => r.Size = reg.Size /\ r.Address = reg.Address
      <4>1. Clear(reg, rm) => Top(rm) = reg.Address
        BY <1>1, <1>2, <1>5 DEF Clear, Top
      <4> QED
        BY <1>1, <1>2, <2>3, <4>1 DEF Top
    <3> QED
      BY <2>3, <2>4, <3>1, <3>2, <3>3, <3>4 DEF Piece
  <2> QED
    BY <2>3, <2>4, <2>5
<1> HIDE DEF l, r
<1>6. ASSUME Overlap(reg, rm) = "start" PROVE CutTo(Cut(reg, rm), reg, rm)
  <2>1. Cut(reg, rm) = <<r>>
    BY <1>6 DEF Cut, r
  <2>2. rm.Size > 0 /\ rm.Address <= reg.Address /\ Top(rm) > reg.Address /\ Top(rm) < Top(reg)
    BY <1>1, <1>2, <1>6 DEF Overlap, OverlapType
  <2>3. Kept(reg, rm, {r})
    BY <1>1, <1>2, <1>5, <2>2 DEF Kept, Holds, Clear, Frame, Top, Allocatable
  <2> QED
    BY <1>1, <1>2, <1>5, <2>1, <2>2, <2>3 DEF CutTo
<1>7. ASSUME Overlap(reg, rm) = "end" PROVE CutTo(Cut(reg, rm), reg, rm)
  <2>1. Cut(reg, rm) = <<l>>
    BY <1>7 DEF Cut, l
  <2>2. rm.Size > 0 /\ rm.Address < Top(reg) /\ rm.Address > reg.Address /\ Top(rm) >= Top(reg)
    BY <1>1, <1>2, <1>7 DEF Overlap, OverlapType
  <2>3. Kept(reg, rm, {l})
    BY <1>1, <1>2, <1>4, <2>2 DEF Kept, Holds, Clear, Frame, Top, Allocatable
  <2> QED
    <3>1. Piece(l, reg, rm)
      BY <1>1, <1>2, <1>4, <2>2
    <3> QED
      BY <2>1, <2>3, <3>1 DEF CutTo
<1>8. ASSUME Overlap(reg, rm) = "inside" PROVE CutTo(Cut(reg, rm), reg, rm)
  <2>1. Cut(reg, rm) = <<l, r>>
    BY <1>8 DEF Cut, l, r
  <2>2. rm.Size > 0 /\ rm.Address >= reg.Address /\ Top(rm) <= Top(reg) /\ rm.Address < Top(rm)
    BY <1>1, <1>2, <1>8 DEF Overlap, OverlapType, Top
  <2>3. Kept(reg, rm, {l, r})
    BY <1>1, <1>2, <1>4, <1>5, <2>2 DEF Kept, Holds, Clear, Frame, Top, Allocatable
  <2> QED
    <3>1. /\ Piece(l, reg, rm) /\ Piece(r, reg, rm)
          /\ Top(l) = rm.Address /\ r.Address = Top(rm)
      BY <1>1, <1>2, <1>4, <1>5, <2>2
    <3> QED
      BY <2>1, <2>2, <2>3, <3>1 DEF CutTo
<1>9. ASSUME Overlap(reg, rm) = "outside" PROVE CutTo(Cut(reg, rm), reg, rm)
  <2> DEFINE p == Reserved(reg)
  <2>1. Cut(reg, rm) = <<p>>
    BY <1>9 DEF Cut
  <2>2. rm.Size > 0 /\ rm.Address <= reg.Address /\ Top(rm) >= Top(reg)
    BY <1>1, <1>2, <1>9 DEF Overlap, OverlapType
  <2>3. p = [Address |-> reg.Address, Size |-> reg.Size, Type |-> RESERVED]
    BY DEF Reserved, Region
  <2>4. p \in Region /\ Top(p) = Top(reg) /\ p.Address = reg.Address /\ ~Allocatable(p)
    BY <1>1, <2>3 DEF Region, Top, Allocatable, RESERVED, USABLE, RECLAIMABLE
  <2> HIDE DEF p
  <2>5. Piece(p, reg, rm)
    BY <1>1, <1>2, <2>4 DEF Piece
  <2>6. Kept(reg, rm, {p})
    BY <1>1, <1>2, <2>2 DEF Kept, Holds, Clear, Frame, Top
  <2> QED
    BY <2>1, <2>5, <2>6 DEF CutTo
<1>10. Overlap(reg, rm) \in {"none", "start", "end", "inside", "outside"}
  BY DEF Overlap, OverlapType
<1> QED
  BY <1>3, <1>6, <1>7, <1>8, <1>9, <1>10

-----------------------------------------------------------------------------
\* Rounding regions

LEMMA FrameIs == ASSUME NEW a \in Frames PROVE a \in Nat /\ Multiple(a)
<1>1. AddressMod \div FrameSize \in Nat /\ FrameSize \in Nat \ {0}
  BY Modulus, DivBounds
<1>2. PICK f \in 0 .. AddressMod \div FrameSize - 1 : a = f * FrameSize
  BY DEF Frames
<1> QED
  BY <1>1, <1>2, MultipleMod DEF Multiple

LEMMA MultipleBelow ==
    ASSUME NEW x \in Nat, NEW y \in Nat, Multiple(x), x <= y
    PROVE  x <= AlignDown(y)
<1>1. AlignDown(y) < x => AlignDown(y) + FrameSize <= x
  BY AlignDownIs, MultipleSums
<1> QED
  BY <1>1, AlignDownIs, Modulus

\* A region of which one end is on a boundary loses no whole frame when its address and its
\* size are rounded apart, and does not pass its end.
AlignedTo(p, reg) ==
    /\ p \in Region /\ p.Type = reg.Type
    /\ Multiple(p.Address) /\ Multiple(p.Size)
    /\ reg.Address <= p.Address /\ Top(p) <= Top(reg)
    /\ \A a \in Frames : Holds(reg, a) => Holds(p, a)

LEMMA AlignedTyped ==
    ASSUME NEW reg \in Region
    PROVE  /\ Aligned(reg) = [Address |-> AlignUp(reg.Address), Size |-> AlignDown(reg.Size),
                              Type |-> reg.Type]
           /\ Aligned(reg) \in Region /\ Aligned(reg).Type = reg.Type
<1>1. reg.Address \in Nat /\ reg.Size \in Nat /\ reg.Type \in Nat
  BY DEF Region
<1>2. Aligned(reg) = [Address |-> AlignUp(reg.Address), Size |-> AlignDown(reg.Size),
                      Type |-> reg.Type]
  <2>1. Aligned(reg) = [reg EXCEPT !.Address = AlignUp(reg.Address), !.Size = AlignDown(reg.Size)]
    BY DEF Aligned
  <2> QED
    BY <2>1 DEF Region
<1> QED
  BY <1>1, <1>2, AlignUpTyped, AlignDownIs DEF Region

LEMMA AlignedIs ==
    ASSUME NEW reg \in Region, Top(reg) < AddressMod,
           Multiple(reg.Address) \/ Multiple(Top(reg))
    PROVE  AlignedTo(Aligned(reg), reg)
<1> DEFINE A == reg.Address
           S == reg.Size
           T == Top(reg)
           p == Aligned(reg)
<1>1. /\ A \in Nat /\ S \in Nat /\ T \in Nat /\ T = A + S /\ T < AddressMod
      /\ FrameSize \in Nat \ {0} /\ AddressMod \in Nat
      /\ Multiple(A) \/ Multiple(T)
  BY Modulus DEF Region, Top
<1>2. p.Address = AlignUp(A) /\ p.Size = AlignDown(S) /\ p \in Region /\ p.Type = reg.Type
  BY AlignedTyped
<1> HIDE DEF A, S, T, p
<1>3. A + FrameSize <= AddressMod
  <2>1. CASE Multiple(A)
    BY <1>1, <2>1, Modulus, MultipleSums
  <2>2. CASE Multiple(T)
    <3>1. T + FrameSize <= AddressMod
      BY <1>1, <2>2, Modulus, MultipleSums
    <3> QED
      BY <1>1, <3>1
  <2> QED
    BY <1>1, <2>1, <2>2
<1> DEFINE B == AlignUp(A)
           Z == AlignDown(S)
<1>4. /\ B \in Nat /\ Multiple(B) /\ A <= B /\ B < A + FrameSize
      /\ Multiple(A) => B = A
      /\ Z \in Nat /\ Multiple(Z) /\ Z <= S /\ S < Z + FrameSize
  BY <1>1, <1>3, AlignUpIs, AlignUpTyped, AlignDownIs
<1>5. \A x \in Nat : Multiple(x) /\ x <= S => x <= Z
  BY <1>1, MultipleBelow
<1> HIDE DEF B, Z
<1>6. /\ B + Z <= T
      /\ \A a \in Frames : A <= a /\ a + FrameSize <= T => B <= a /\ a + FrameSize <= B + Z
  <2>1. CASE Multiple(A)
    <3>1. B = A /\ B + Z <= T
      BY <1>1, <1>4, <2>1
    <3>2. ASSUME NEW a \in Frames, A <= a, a + FrameSize <= T
          PROVE  B <= a /\ a + FrameSize <= B + Z
      <4>1. a \in Nat /\ Multiple(a)
        BY FrameIs
      <4>2. a - A \in Nat /\ Multiple(a - A)
        BY <1>1, <2>1, <3>2, <4>1, MultipleSums
      <4>3. Multiple(FrameSize)
        <5>1. 0 + FrameSize = FrameSize /\ FrameSize = 1 * FrameSize
          BY <1>1
        <5> QED
          BY <1>1, <5>1, MultipleIs
      <4>4. Multiple((a - A) + FrameSize) /\ (a - A) + FrameSize \in Nat
        <5> DEFINE x == a - A
        <5>1. x \in Nat /\ Multiple(x) /\ FrameSize \in Nat /\ x + FrameSize \in Nat
          BY <1>1, <4>2
        <5> HIDE DEF x
        <5>2. Multiple(x + FrameSize)
          BY <4>3, <5>1, MultipleSums
        <5> QED
          BY <5>1, <5>2 DEF x
      <4>5. (a - A) + FrameSize <= S
        BY <1>1, <3>2, <4>1
      <4>6. (a - A) + FrameSize <= Z
        BY <1>5, <4>4, <4>5
      <4> QED
        BY <1>1, <1>4, <3>1, <3>2, <4>1, <4>6
    <3> QED
      BY <3>1, <3>2
  <2>2. CASE Multiple(T)
    <3>1. B <= T
      <4>1. T < B => T + FrameSize <= B
        BY <1>1, <1>4, <2>2, MultipleSums
      <4> QED
        BY <1>1, <1>4, <4>1
    <3>2. T - B \in Nat /\ Multiple(T - B)
      BY <1>1, <1>4, <2>2, <3>1, MultipleSums
    <3>3. T - B <= Z
      BY <1>1, <1>4, <1>5, <3>2
    <3>4. Z <= T - B
      <4>1. T - B < Z => (T - B) + FrameSize <= Z
        BY <1>4, <3>2, MultipleSums
      <4> QED
        BY <1>1, <1>4, <3>2, <4>1
    <3>5. B + Z = T
      BY <1>1, <1>4, <3>2, <3>3, <3>4
    <3>6. ASSUME NEW a \in Frames, A <= a PROVE B <= a
      <4>1. a \in Nat /\ Multiple(a)
        BY FrameIs
      <4>2. a < B => a + FrameSize <= B
        BY <1>4, <4>1, MultipleSums
      <4> QED
        BY <1>1, <1>4, <3>6, <4>1, <4>2
    <3> QED
      BY <1>1, <1>4, <3>5, <3>6
  <2> QED
    BY <1>1, <2>1, <2>2
<1>7. p.Address = B /\ p.Size = Z /\ Top(p) = B + Z
  BY <1>2 DEF B, Z, Top
<1>8. \A a \in Frames : Holds(reg, a) => Holds(p, a)
  BY <1>2, <1>6, <1>7 DEF Holds, Allocatable, A, T
<1>9. reg.Address <= p.Address /\ Top(p) <= Top(reg)
  BY <1>4, <1>6, <1>7 DEF A, T
<1> QED
  BY <1>2, <1>4, <1>7, <1>8, <1>9 DEF AlignedTo, p

-----------------------------------------------------------------------------
\* What the allocator lays in a region

LEMMA Quotient ==
    ASSUME NEW s \in Nat, NEW d \in Nat \ {0}, NEW c \in Nat \ {0}
    PROVE  /\ s \div (d + c) \in Nat
           /\ (s \div (d + c)) * d \in Nat /\ (s \div (d + c)) * c \in Nat
           /\ (s \div (d + c)) * d + (s \div (d + c)) * c <= s
           /\ s \div (d + c) > 0 => (s \div (d + c)) * c >= c
           /\ s \div (d + c) = 0 => (s \div (d + c)) * d = 0
<1> DEFINE n == s \div (d + c)
<1>1. d + c \in Nat \ {0}
  OBVIOUS
<1>2. n \in Nat /\ n * (d + c) <= s
  BY <1>1, DivBounds
<1> HIDE DEF n
<1>3. n * (d + c) = n * d + n * c /\ n * d \in Nat /\ n * c \in Nat /\ (n > 0 => n * c >= c)
      /\ (n = 0 => n * d = 0)
  BY <1>2, SMT
<1> QED
  BY <1>2, <1>3 DEF n

\* The descriptors and the data frames of a region lie in it, apart, the data on frames.
Laid(reg) ==
    /\ FramesCount(reg) \in Nat
    /\ FramesCount(reg) * DescriptorSize \in Nat /\ FramesCount(reg) * FrameSize \in Nat
    /\ FirstData(reg) \in Nat /\ Multiple(FirstData(reg))
    /\ reg.Address + FramesCount(reg) * DescriptorSize <= FirstData(reg)
    /\ FirstData(reg) + FramesCount(reg) * FrameSize <= Top(reg)

LEMMA LaidOut ==
    ASSUME NEW reg \in Region, Top(reg) < AddressMod, Multiple(reg.Address), Multiple(reg.Size)
    PROVE  Laid(reg)
<1> DEFINE n == FramesCount(reg)
           D == n * DescriptorSize
           F == n * FrameSize
           U == AlignUp(D)
<1>1. /\ reg.Address \in Nat /\ reg.Size \in Nat /\ Top(reg) = reg.Address + reg.Size
      /\ FrameSize \in Nat \ {0} /\ AddressMod \in Nat /\ FrameSize <= AddressMod
      /\ DescriptorSize \in Nat \ {0}
  BY Modulus, SizesAssumption DEF Region, Top
<1>2. /\ n \in Nat /\ D \in Nat /\ F \in Nat /\ D + F <= reg.Size
      /\ n > 0 => F >= FrameSize
      /\ n = 0 => D = 0
  <2>1. n = reg.Size \div (DescriptorSize + FrameSize)
    BY DEF FramesCount
  <2> HIDE DEF n
  <2>2. /\ n \in Nat /\ D \in Nat /\ F \in Nat /\ D + F <= reg.Size
        /\ n > 0 => F >= FrameSize
        /\ n = 0 => D = 0
    BY <1>1, <2>1, Quotient
  <2> QED
    BY <2>2 DEF n
<1>3. Multiple(F)
  BY <1>1, <1>2, MultipleMod DEF Multiple
<1> HIDE DEF n, D, F
<1>4. D + FrameSize <= AddressMod
  BY <1>1, <1>2
<1>5. U \in Nat /\ Multiple(U) /\ D <= U /\ U < D + FrameSize
  BY <1>2, <1>4, AlignUpIs, AlignUpTyped
<1>6. U + F <= reg.Size
  <2> HIDE DEF U
  <2>1. U + F \in Nat /\ Multiple(U + F)
    BY <1>2, <1>3, <1>5, MultipleSums
  <2>2. reg.Size < U + F => reg.Size + FrameSize <= U + F
    BY <1>1, <2>1, MultipleSums
  <2> QED
    BY <1>1, <1>2, <1>5, <2>1, <2>2
<1>7. FirstData(reg) = reg.Address + U
  BY DEF FirstData, U, D, n
<1> HIDE DEF U
<1>8. Multiple(reg.Address + U) /\ reg.Address + U \in Nat
  BY <1>1, <1>5, MultipleSums
<1>9. reg.Address + D <= FirstData(reg) /\ FirstData(reg) + F <= Top(reg)
  BY <1>1, <1>2, <1>5, <1>6, <1>7
<1> QED
  BY <1>2, <1>7, <1>8, <1>9 DEF Laid, D, F, n

-----------------------------------------------------------------------------
\* The array after a cut

Spliced(q, p, c) == SubSeq(q, 1, p - 1) \o c \o SubSeq(q, p + 1, Len(q))

\* The region at p of q has been replaced by itself cut, and the rest moved up by d.
CutAt(t, q, p, rm, d) ==
    /\ t \in Seq(Region) /\ Len(t) = Len(q) + d
    /\ \A k \in 1 .. Len(t) : k < p => t[k] = q[k]
    /\ \A k \in 1 .. Len(t) : k > p + d => t[k] = q[k - d]
    /\ Piece(t[p], q[p], rm)
    /\ d = 0 => Kept(q[p], rm, {t[p]})
    /\ d = 1 => /\ Piece(t[p + 1], q[p], rm)
                /\ Kept(q[p], rm, {t[p], t[p + 1]})
                /\ rm.Size > 0 /\ q[p].Address <= rm.Address /\ Top(rm) <= Top(q[p])
                /\ Top(t[p]) = rm.Address /\ t[p + 1].Address = Top(rm)

LEMMA SplicedIs ==
    ASSUME NEW q \in Seq(Region), NEW p \in 1 .. Len(q), NEW c \in Seq(Region)
    PROVE  LET t == Spliced(q, p, c)
           IN /\ t \in Seq(Region) /\ Len(t) = Len(q) - 1 + Len(c)
              /\ \A k \in 1 .. Len(t) :
                    t[k] = IF k < p THEN q[k]
                           ELSE IF k < p + Len(c) THEN c[(k - p) + 1] ELSE q[(k - Len(c)) + 1]
<1> DEFINE x == SubSeq(q, 1, p - 1)
           y == SubSeq(q, p + 1, Len(q))
           t == Spliced(q, p, c)
<1>1. Len(q) \in Nat /\ Len(c) \in Nat /\ p \in Nat /\ p >= 1 /\ p <= Len(q)
  BY LenProperties
<1>2. \A k \in 1 .. Len(q) : q[k] \in Region
  BY ElementOfSeq
<1>3. /\ x \in Seq(Region) /\ Len(x) = p - 1
      /\ \A k \in 1 .. p - 1 : x[k] = q[k]
  <2>1. \A k \in 1 .. p - 1 : q[k] \in Region
    BY <1>1, <1>2
  <2>2. /\ x \in Seq(Region)
        /\ Len(x) = IF 1 <= p - 1 THEN (p - 1) - 1 + 1 ELSE 0
        /\ \A k \in 1 .. (p - 1) - 1 + 1 : x[k] = q[1 + k - 1]
    BY <1>1, <2>1, SubSeqProperties
  <2> QED
    BY <1>1, <2>2
<1>4. /\ y \in Seq(Region) /\ Len(y) = Len(q) - p
      /\ \A k \in 1 .. Len(q) - p : y[k] = q[p + k]
  <2>1. \A k \in p + 1 .. Len(q) : q[k] \in Region
    BY <1>1, <1>2
  <2>2. /\ y \in Seq(Region)
        /\ Len(y) = IF p + 1 <= Len(q) THEN Len(q) - (p + 1) + 1 ELSE 0
        /\ \A k \in 1 .. Len(q) - (p + 1) + 1 : y[k] = q[(p + 1) + k - 1]
    BY <1>1, <2>1, SubSeqProperties
  <2> QED
    BY <1>1, <2>2
<1> HIDE DEF x, y
<1>5. /\ x \o c \in Seq(Region) /\ Len(x \o c) = (p - 1) + Len(c)
      /\ \A k \in 1 .. (p - 1) + Len(c) : (x \o c)[k] = IF k <= p - 1 THEN x[k] ELSE c[k - (p - 1)]
  <2>1. /\ x \o c \in Seq(Region) /\ Len(x \o c) = Len(x) + Len(c)
        /\ \A k \in 1 .. Len(x) + Len(c) :
              (x \o c)[k] = IF k <= Len(x) THEN x[k] ELSE c[k - Len(x)]
    BY <1>3, ConcatProperties
  <2> QED
    BY <1>1, <1>3, <2>1
<1>6. t = (x \o c) \o y
  BY DEF Spliced, x, y
<1> DEFINE xc == x \o c
<1> HIDE DEF t, xc
<1>7. /\ xc \in Seq(Region) /\ Len(xc) = (p - 1) + Len(c) /\ t = xc \o y
      /\ \A k \in 1 .. (p - 1) + Len(c) : xc[k] = IF k <= p - 1 THEN x[k] ELSE c[k - (p - 1)]
  BY <1>5, <1>6 DEF xc
<1>8. /\ t \in Seq(Region) /\ Len(t) = (p - 1) + Len(c) + (Len(q) - p)
      /\ \A k \in 1 .. (p - 1) + Len(c) + (Len(q) - p) :
            t[k] = IF k <= (p - 1) + Len(c) THEN xc[k] ELSE y[k - ((p - 1) + Len(c))]
  <2>1. /\ xc \o y \in Seq(Region) /\ Len(xc \o y) = Len(xc) + Len(y)
        /\ \A k \in 1 .. Len(xc) + Len(y) :
              (xc \o y)[k] = IF k <= Len(xc) THEN xc[k] ELSE y[k - Len(xc)]
    BY <1>4, <1>7, ConcatProperties
  <2> QED
    BY <1>1, <1>4, <1>7, <2>1
<1>9. Len(t) = Len(q) - 1 + Len(c)
  BY <1>1, <1>8
<1>10. ASSUME NEW k \in 1 .. Len(t)
       PROVE  t[k] = IF k < p THEN q[k]
                     ELSE IF k < p + Len(c) THEN c[(k - p) + 1] ELSE q[(k - Len(c)) + 1]
  <2>1. CASE k < p
    BY <1>1, <1>3, <1>7, <1>8, <1>9, <2>1
  <2>2. CASE k >= p /\ k < p + Len(c)
    <3>1. t[k] = c[k - (p - 1)] /\ k - (p - 1) = (k - p) + 1
      BY <1>1, <1>7, <1>8, <1>9, <2>2
    <3> QED
      BY <1>1, <2>2, <3>1
  <2>3. CASE k >= p + Len(c)
    <3>1. t[k] = y[k - ((p - 1) + Len(c))] /\ k - ((p - 1) + Len(c)) \in 1 .. Len(q) - p
      BY <1>1, <1>8, <1>9, <2>3
    <3>2. y[k - ((p - 1) + Len(c))] = q[p + (k - ((p - 1) + Len(c)))]
      BY <1>4, <3>1
    <3>3. p + (k - ((p - 1) + Len(c))) = (k - Len(c)) + 1 /\ ~(k < p) /\ ~(k < p + Len(c))
      BY <1>1, <2>3
    <3> QED
      BY <3>1, <3>2, <3>3
  <2> QED
    BY <1>1, <2>1, <2>2, <2>3
<1> QED
  BY <1>8, <1>9, <1>10 DEF t

LEMMA CutSpliced ==
    ASSUME NEW q \in Seq(Region), NEW p \in 1 .. Len(q), NEW rm \in Region,
           Top(q[p]) < AddressMod, Top(rm) < AddressMod
    PROVE  \E d \in {0, 1} : CutAt(Spliced(q, p, Cut(q[p], rm)), q, p, rm, d)
<1> DEFINE reg == q[p]
           c == Cut(reg, rm)
           t == Spliced(q, p, c)
<1>1. Len(q) \in Nat /\ p \in Nat /\ 1 <= p /\ p <= Len(q) /\ reg \in Region
  BY LenProperties, ElementOfSeq
<1>2. CutTo(c, reg, rm)
  BY <1>1, CutIs
<1> HIDE DEF c
<1>3. ASSUME NEW x, c = <<x>>, Piece(x, reg, rm), Kept(reg, rm, {x})
      PROVE  CutAt(t, q, p, rm, 0)
  <2>1. c \in Seq(Region) /\ Len(c) = 1 /\ c[1] = x
    BY <1>3 DEF Piece
  <2>2. /\ t \in Seq(Region) /\ Len(t) = Len(q) - 1 + Len(c)
        /\ \A k \in 1 .. Len(t) :
              t[k] = IF k < p THEN q[k]
                     ELSE IF k < p + Len(c) THEN c[(k - p) + 1] ELSE q[(k - Len(c)) + 1]
    BY <2>1, SplicedIs
  <2> HIDE DEF t
  <2>3. Len(t) = Len(q) + 0
    BY <1>1, <2>1, <2>2
  <2>4. \A k \in 1 .. Len(t) : k < p => t[k] = q[k]
    BY <2>2
  <2>5. \A k \in 1 .. Len(t) : k > p + 0 => t[k] = q[k - 0]
    BY <1>1, <2>1, <2>2
  <2>6. t[p] = x
    <3>1. p \in 1 .. Len(t) /\ p < p + Len(c) /\ (p - p) + 1 = 1
      BY <1>1, <2>1, <2>3
    <3> QED
      BY <1>1, <2>1, <2>2, <3>1
  <2> QED
    BY <1>3, <2>2, <2>3, <2>4, <2>5, <2>6 DEF CutAt
<1>4. ASSUME NEW x, NEW y, c = <<x, y>>, Piece(x, reg, rm), Piece(y, reg, rm),
             Kept(reg, rm, {x, y}), rm.Size > 0, reg.Address <= rm.Address,
             Top(rm) <= Top(reg), Top(x) = rm.Address, y.Address = Top(rm)
      PROVE  CutAt(t, q, p, rm, 1)
  <2>1. c \in Seq(Region) /\ Len(c) = 2 /\ c[1] = x /\ c[2] = y
    BY <1>4 DEF Piece
  <2>2. /\ t \in Seq(Region) /\ Len(t) = Len(q) - 1 + Len(c)
        /\ \A k \in 1 .. Len(t) :
              t[k] = IF k < p THEN q[k]
                     ELSE IF k < p + Len(c) THEN c[(k - p) + 1] ELSE q[(k - Len(c)) + 1]
    BY <2>1, SplicedIs
  <2> HIDE DEF t
  <2>3. Len(t) = Len(q) + 1
    BY <1>1, <2>1, <2>2
  <2>4. \A k \in 1 .. Len(t) : k < p => t[k] = q[k]
    BY <2>2
  <2>5. ASSUME NEW k \in 1 .. Len(t), k > p + 1 PROVE t[k] = q[k - 1]
    <3>1. ~(k < p) /\ ~(k < p + Len(c)) /\ (k - Len(c)) + 1 = k - 1
      BY <1>1, <2>1, <2>5
    <3> QED
      BY <2>2, <3>1
  <2>6. t[p] = x
    <3>1. p \in 1 .. Len(t) /\ p < p + Len(c) /\ (p - p) + 1 = 1
      BY <1>1, <2>1, <2>3
    <3> QED
      BY <1>1, <2>1, <2>2, <3>1
  <2>7. t[p + 1] = y
    <3>1. p + 1 \in 1 .. Len(t) /\ p + 1 < p + Len(c) /\ ((p + 1) - p) + 1 = 2 /\ ~(p + 1 < p)
      BY <1>1, <2>1, <2>3
    <3> QED
      BY <1>1, <2>1, <2>2, <3>1
  <2> QED
    BY <1>4, <2>2, <2>3, <2>4, <2>5, <2>6, <2>7 DEF CutAt
<1> QED
  BY <1>2, <1>3, <1>4 DEF CutTo, c

-----------------------------------------------------------------------------
\* Regions that come from others

\* Each region of t that matters is a part of the one of q that h gives, in the same order.
Follows(t, T, q, S, h) ==
    /\ \A k \in T : /\ h[k] \in S
                    /\ q[h[k]].Address <= t[k].Address /\ Top(t[k]) <= Top(q[h[k]])
                    /\ Allocatable(t[k]) => Allocatable(q[h[k]])
    /\ \A k, l \in T :
          k < l => h[k] < h[l] \/ (h[k] = h[l] /\ Top(t[k]) <= t[l].Address)

LEMMA RegionIn ==
    ASSUME NEW q \in Seq(Region), NEW k \in 1 .. Len(q)
    PROVE  /\ q[k] \in Region /\ q[k].Address \in Nat /\ q[k].Size \in Nat /\ q[k].Type \in Nat
           /\ Top(q[k]) \in Nat /\ q[k].Address <= Top(q[k])
           /\ Top(q[k]) = q[k].Address + q[k].Size
<1>1. q[k] \in Region
  BY ElementOfSeq
<1> QED
  BY <1>1 DEF Region, Top

LEMMA FollowsKeeps ==
    ASSUME NEW map, NEW n, NEW q \in Seq(Region), NEW t \in Seq(Region),
           NEW S \in SUBSET (1 .. Len(q)), NEW T \in SUBSET (1 .. Len(t)), NEW h,
           Follows(t, T, q, S, h),
           \A l \in 1 .. n : map[l].BaseAddress \in Nat /\ map[l].Length \in Nat
    PROVE  /\ (\A k \in S : Placed(map, n, q[k])) => \A k \in T : Placed(map, n, t[k])
           /\ Ordered(q, S) => Ordered(t, T)
<1>1. ASSUME NEW k \in T
      PROVE  /\ h[k] \in S /\ q[h[k]].Address <= t[k].Address /\ Top(t[k]) <= Top(q[h[k]])
             /\ q[h[k]].Address \in Nat /\ t[k].Address \in Nat /\ Top(q[h[k]]) \in Nat
             /\ Top(t[k]) \in Nat
  <2>1. k \in 1 .. Len(t) /\ h[k] \in 1 .. Len(q)
    BY DEF Follows
  <2> QED
    BY <2>1, RegionIn DEF Follows
<1>2. ASSUME NEW k \in T, Placed(map, n, q[h[k]]) PROVE Placed(map, n, t[k])
  <2>1. PICK l \in 1 .. n : Within(q[h[k]], map[l])
    BY <1>2 DEF Placed
  <2>2. Within(t[k], map[l])
    BY <1>1, <2>1 DEF Within
  <2>3. Top(t[k]) < AddressMod
    BY <1>1, <1>2, Modulus DEF Placed
  <2> QED
    BY <2>2, <2>3 DEF Placed
<1>3. ASSUME Ordered(q, S), NEW k \in T, NEW l \in T, k < l PROVE Top(t[k]) <= t[l].Address
  <2>1. CASE h[k] < h[l]
    <3>1. Top(q[h[k]]) <= q[h[l]].Address
      BY <1>1, <1>3, <2>1 DEF Ordered
    <3> QED
      BY <1>1, <3>1
  <2> QED
    BY <1>3, <2>1 DEF Follows
<1> QED
  BY <1>1, <1>2, <1>3 DEF Ordered

LEMMA ClearPart ==
    ASSUME NEW r \in Region, NEW p \in Region, NEW rm \in Region, Clear(r, rm),
           r.Address <= p.Address, Top(p) <= Top(r)
    PROVE  Clear(p, rm)
BY DEF Clear, Top, Region

LEMMA FollowsClear ==
    ASSUME NEW q \in Seq(Region), NEW t \in Seq(Region), NEW S \in SUBSET (1 .. Len(q)),
           NEW T \in SUBSET (1 .. Len(t)), NEW h, Follows(t, T, q, S, h), UsableIn(t) \subseteq T,
           ClearOfExtra(q)
    PROVE  ClearOfExtra(t)
<1> SUFFICES ASSUME NEW k \in UsableIn(t), NEW m \in 1 .. Len(extraMemRegs)
             PROVE  Clear(t[k], extraMemRegs[m])
  BY DEF ClearOfExtra
<1>1. h[k] \in 1 .. Len(q) /\ h[k] \in UsableIn(q) /\ k \in 1 .. Len(t)
  BY DEF Follows, UsableIn
<1>2. Clear(q[h[k]], extraMemRegs[m])
  BY <1>1 DEF ClearOfExtra
<1>3. extraMemRegs[m] \in Region /\ q[h[k]] \in Region /\ t[k] \in Region
  BY <1>1, ReservedAssumption, ElementOfSeq
<1>4. q[h[k]].Address <= t[k].Address /\ Top(t[k]) <= Top(q[h[k]])
  BY DEF Follows
<1> QED
  BY <1>2, <1>3, <1>4, ClearPart

LEMMA FollowsInside ==
    ASSUME NEW q \in Seq(Region), NEW t \in Seq(Region), NEW S \in SUBSET (1 .. Len(q)),
           NEW T \in SUBSET (1 .. Len(t)), NEW h, Follows(t, T, q, S, h), NEW rm \in Seq(Region)
    PROVE  Inside(t, T, rm) \subseteq Inside(q, S, rm)
<1> SUFFICES ASSUME NEW m \in Inside(t, T, rm) PROVE m \in Inside(q, S, rm)
  OBVIOUS
<1>1. PICK k \in T : t[k].Address <= rm[m].Address /\ Top(rm[m]) <= Top(t[k])
  BY DEF Inside
<1>2. m \in 1 .. Len(rm) /\ rm[m].Size > 0 /\ h[k] \in S /\ h[k] \in 1 .. Len(q) /\ k \in 1 .. Len(t)
      /\ q[h[k]].Address <= t[k].Address /\ Top(t[k]) <= Top(q[h[k]])
  BY DEF Inside, Follows
<1>3. /\ q[h[k]].Address \in Nat /\ Top(q[h[k]]) \in Nat
      /\ t[k].Address \in Nat /\ Top(t[k]) \in Nat
      /\ rm[m].Address \in Nat /\ Top(rm[m]) \in Nat
  BY <1>2, RegionIn
<1>4. q[h[k]].Address <= rm[m].Address
  BY <1>1, <1>2, <1>3
<1>5. Top(rm[m]) <= Top(q[h[k]])
  BY <1>1, <1>2, <1>3
<1> QED
  BY <1>2, <1>4, <1>5 DEF Inside

\* Where a region of the array after a cut was before.
Origin(p) == [k \in Nat |-> IF k <= p THEN k ELSE k - 1]

Moved(p, d) == IF d = 0 THEN [k \in Nat |-> k] ELSE Origin(p)

LEMMA CutFollows ==
    ASSUME NEW q \in Seq(Region), NEW t, NEW p \in 1 .. Len(q), NEW rm \in Region, NEW d \in {0, 1},
           CutAt(t, q, p, rm, d), NEW s \in Nat \ {0}, s > 1 \/ Allocatable(q[p])
    PROVE  Follows(t, Active(t, p, s + 1), q, Active(q, p, s), Moved(p, d))
<1> DEFINE T == Active(t, p, s + 1)
           S == Active(q, p, s)
           h == Moved(p, d)
<1>1. /\ t \in Seq(Region) /\ Len(t) = Len(q) + d /\ Len(q) \in Nat /\ p \in Nat
      /\ 1 <= p /\ p <= Len(q)
  BY LenProperties DEF CutAt
<1>2. ASSUME NEW k \in 1 .. Len(t)
      PROVE  /\ h[k] = IF d = 0 THEN k ELSE IF k <= p THEN k ELSE k - 1
             /\ h[k] \in 1 .. Len(q)
             /\ k < p => t[k] = q[k] /\ h[k] = k
             /\ k > p + d => t[k] = q[h[k]] /\ h[k] = k - d
             /\ k >= p /\ k <= p + d => h[k] = p
  <2>1. k \in Nat /\ 1 <= k /\ k <= Len(q) + d
    BY <1>1
  <2>2. h[k] = IF d = 0 THEN k ELSE IF k <= p THEN k ELSE k - 1
    BY <2>1 DEF Moved, Origin
  <2> HIDE DEF h
  <2>3. h[k] \in 1 .. Len(q) /\ (k < p => h[k] = k) /\ (k > p + d => h[k] = k - d)
        /\ (k >= p /\ k <= p + d => h[k] = p)
    BY <1>1, <2>1, <2>2
  <2> QED
    BY <2>2, <2>3 DEF CutAt
<1> HIDE DEF h
<1>3. ASSUME NEW k \in 1 .. Len(t), ~(k < p), ~(k > p + d)
      PROVE  Piece(t[k], q[p], rm)
  <2>1. k = p \/ (d = 1 /\ k = p + 1)
    BY <1>1, <1>3
  <2> QED
    BY <2>1 DEF CutAt
<1>4. ASSUME NEW k \in T
      PROVE  /\ h[k] \in S
             /\ q[h[k]].Address <= t[k].Address /\ Top(t[k]) <= Top(q[h[k]])
             /\ Allocatable(t[k]) => Allocatable(q[h[k]])
  <2>1. k \in 1 .. Len(t) /\ (Allocatable(t[k]) \/ k = p)
    BY DEF Active
  <2>2. h[k] \in 1 .. Len(q)
    BY <1>2, <2>1
  <2>3. CASE k < p \/ k > p + d
    <3>1. t[k] = q[h[k]] /\ k # p
      BY <1>1, <1>2, <2>1, <2>3
    <3>2. q[h[k]].Address \in Nat /\ Top(q[h[k]]) \in Nat
      BY <2>2, RegionIn
    <3> QED
      BY <2>1, <2>2, <3>1, <3>2 DEF Active
  <2>4. CASE ~(k < p) /\ ~(k > p + d)
    <3>1. h[k] = p /\ Piece(t[k], q[p], rm)
      BY <1>1, <1>2, <1>3, <2>1, <2>4
    <3>2. p \in S
      BY DEF Active
    <3> QED
      BY <3>1, <3>2 DEF Piece
  <2> QED
    BY <2>3, <2>4
<1>5. ASSUME NEW k \in T, NEW l \in T, k < l
      PROVE  h[k] < h[l] \/ (h[k] = h[l] /\ Top(t[k]) <= t[l].Address)
  <2>1. k \in 1 .. Len(t) /\ l \in 1 .. Len(t) /\ k \in Nat /\ l \in Nat
    BY <1>1 DEF Active
  <2>2. h[k] < h[l] \/ (d = 1 /\ k = p /\ l = p + 1)
    <3>1. /\ h[k] = IF d = 0 THEN k ELSE IF k <= p THEN k ELSE k - 1
          /\ h[l] = IF d = 0 THEN l ELSE IF l <= p THEN l ELSE l - 1
      BY <1>2, <2>1
    <3> QED
      BY <1>1, <1>5, <2>1, <3>1
  <2>3. CASE d = 1 /\ k = p /\ l = p + 1
    <3>1. h[k] = p /\ h[l] = p
      BY <1>1, <1>2, <2>1, <2>3
    <3>2. Top(t[k]) = rm.Address /\ t[l].Address = Top(rm)
      BY <2>3 DEF CutAt
    <3>3. rm.Address <= Top(rm)
      BY DEF Region, Top
    <3> QED
      BY <3>1, <3>2, <3>3
  <2> QED
    BY <2>2, <2>3
<1> QED
  BY <1>4, <1>5 DEF Follows, h

-----------------------------------------------------------------------------
\* One range is cut out of one region

LEMMA EntryIs ==
    ASSUME NEW map \in BiosMaps
    PROVE  /\ Len(map) \in Nat
           /\ \A l \in 1 .. Len(map) :
                 /\ map[l].BaseAddress \in Nat /\ map[l].Length \in Nat /\ map[l].Type \in Nat
                 /\ map[l].Extended \in BOOLEAN
                 /\ Allocatable(map[l]) /\ map[l].BaseAddress < AddressMod =>
                       /\ Multiple(map[l].BaseAddress)
                       /\ map[l].BaseAddress + map[l].Length < AddressMod
<1>1. map \in Seq(MapEntry)
  BY BiosAssumption
<1>2. Len(map) \in Nat
  BY <1>1, LenProperties
<1>3. ASSUME NEW l \in 1 .. Len(map) PROVE map[l] \in MapEntry
  BY <1>1, ElementOfSeq
<1> QED
  BY <1>2, <1>3, BiosAssumption DEF Multiple, MapEntry

\* Which region of the array after the cut is which before.
CutCase(t, q, p, rm, d, k) ==
    \/ k < p /\ t[k] = q[k] /\ k \in 1 .. Len(q)
    \/ k > p /\ t[k] = q[k - d] /\ k - d \in 1 .. Len(q) /\ k - d > p
    \/ Piece(t[k], q[p], rm) /\ (k = p \/ k = p + 1)

LEMMA CutCases ==
    ASSUME NEW q \in Seq(Region), NEW t, NEW p \in 1 .. Len(q), NEW rm, NEW d \in {0, 1},
           CutAt(t, q, p, rm, d), NEW k \in 1 .. Len(t)
    PROVE  CutCase(t, q, p, rm, d, k)
<1>1. /\ t \in Seq(Region) /\ Len(t) = Len(q) + d /\ Len(q) \in Nat /\ p \in Nat
      /\ 1 <= p /\ p <= Len(q) /\ k \in Nat /\ 1 <= k /\ k <= Len(q) + d
  BY LenProperties DEF CutAt
<1>2. CASE k < p
  BY <1>1, <1>2 DEF CutAt, CutCase
<1>3. CASE k > p + d
  BY <1>1, <1>3 DEF CutAt, CutCase
<1>4. CASE ~(k < p) /\ ~(k > p + d)
  <2>1. k = p \/ (d = 1 /\ k = p + 1)
    BY <1>1, <1>4
  <2> QED
    BY <2>1 DEF CutAt, CutCase
<1> QED
  BY <1>2, <1>3, <1>4

LEMMA CutEven ==
    ASSUME NEW q \in Seq(Region), NEW t, NEW p \in 1 .. Len(q), NEW rm \in Seq(Region),
           NEW s \in 1 .. Len(rm), NEW d \in {0, 1}, CutAt(t, q, p, rm[s], d),
           \A k \in UsableIn(q) : Even(q[k], rm)
    PROVE  \A k \in UsableIn(t) : Even(t[k], rm)
<1> SUFFICES ASSUME NEW k \in UsableIn(t) PROVE Even(t[k], rm)
  OBVIOUS
<1>1. k \in 1 .. Len(t) /\ Allocatable(t[k])
  BY DEF UsableIn
<1>2. CASE k < p /\ t[k] = q[k] /\ k \in 1 .. Len(q)
  BY <1>1, <1>2 DEF UsableIn
<1>3. CASE k > p /\ t[k] = q[k - d] /\ k - d \in 1 .. Len(q)
  BY <1>1, <1>3 DEF UsableIn
<1>4. CASE Piece(t[k], q[p], rm[s])
  <2> DEFINE x == t[k]
             r == q[p]
             m == rm[s]
  <2>1. /\ Allocatable(r) /\ Clear(x, m)
        /\ x.Address = r.Address \/ Top(x) = Top(r)
        /\ Top(x) = Top(r) \/ Top(x) = m.Address
        /\ Clear(r, m) => x.Address = r.Address /\ x.Size = r.Size
    BY <1>1, <1>4 DEF Piece
  <2>2. Even(r, rm)
    BY <2>1 DEF UsableIn
  <2> HIDE DEF x, r, m
  <2>3. CASE Multiple(Top(r)) /\ \A l \in 1 .. Len(rm) : Multiple(rm[l].Address)
    BY <2>1, <2>3 DEF Even, m, x
  <2>4. CASE Multiple(r.Address) /\ Multiple(Top(r)) /\ Len(rm) = 1
    <3>1. s = 1
      BY <2>4
    <3>2. \A l \in 1 .. Len(rm) : Clear(x, rm[l])
      BY <2>1, <2>4, <3>1 DEF m
    <3> QED
      BY <2>1, <2>4, <3>2 DEF Even, x
  <2>5. CASE /\ Multiple(r.Address) \/ Multiple(Top(r))
             /\ \A l \in 1 .. Len(rm) : Clear(r, rm[l])
    <3>1. x.Address = r.Address /\ x.Size = r.Size /\ Top(x) = Top(r)
      BY <2>1, <2>5 DEF m, Top
    <3>2. \A l \in 1 .. Len(rm) : Clear(x, rm[l])
      BY <2>5, <3>1 DEF Clear
    <3> QED
      BY <2>5, <3>1, <3>2 DEF Even, x
  <2> QED
    BY <2>2, <2>3, <2>4, <2>5 DEF Even
<1>5. CutCase(t, q, p, rm[s], d, k)
  BY <1>1, CutCases
<1> QED
  BY <1>2, <1>3, <1>4, <1>5 DEF CutCase

LEMMA CutCleared ==
    ASSUME NEW q \in Seq(Region), NEW t, NEW p \in 1 .. Len(q), NEW rm \in Seq(Region),
           NEW s \in 1 .. Len(rm), NEW d \in {0, 1}, CutAt(t, q, p, rm[s], d),
           Cleared(q, rm, p, s)
    PROVE  Cleared(t, rm, p, s + 1)
<1> SUFFICES ASSUME NEW k \in UsableIn(t), NEW m \in 1 .. Len(rm),
                    k < p \/ (k = p /\ m < s + 1)
             PROVE  Clear(t[k], rm[m])
  BY DEF Cleared
<1>1. k \in 1 .. Len(t) /\ Allocatable(t[k]) /\ t \in Seq(Region) /\ k \in Nat /\ p \in Nat
      /\ Len(rm) \in Nat /\ m \in Nat /\ s \in Nat
  BY LenProperties DEF UsableIn, CutAt
<1>2. CASE k < p /\ t[k] = q[k] /\ k \in 1 .. Len(q)
  BY <1>1, <1>2 DEF UsableIn, Cleared
<1>3. CASE k = p /\ Piece(t[k], q[p], rm[s])
  <2>1. CASE m = s
    BY <1>1, <1>3, <2>1 DEF Piece
  <2>2. CASE m < s
    <3>1. p \in UsableIn(q)
      BY <1>1, <1>3 DEF Piece, UsableIn
    <3>2. Clear(q[p], rm[m])
      BY <2>2, <3>1 DEF Cleared
    <3>3. t[k] \in Region /\ q[p] \in Region /\ rm[m] \in Region
      BY <1>1, ElementOfSeq
    <3>4. q[p].Address <= t[k].Address /\ Top(t[k]) <= Top(q[p])
      BY <1>3 DEF Piece
    <3> QED
      BY <3>2, <3>3, <3>4, ClearPart
  <2> QED
    BY <1>1, <1>3, <2>1, <2>2
<1>4. ~(k > p) /\ k # p + 1
  BY <1>1
<1>5. CutCase(t, q, p, rm[s], d, k)
  BY <1>1, CutCases
<1> QED
  BY <1>2, <1>3, <1>4, <1>5 DEF CutCase

LEMMA CutLost ==
    ASSUME NEW map, NEW n, NEW q \in Seq(Region), NEW t, NEW p \in 1 .. Len(q),
           NEW rm \in Seq(Region), NEW s \in 1 .. Len(rm), NEW d \in {0, 1},
           CutAt(t, q, p, rm[s], d), NothingLost(map, n, q, rm)
    PROVE  NothingLost(map, n, t, rm)
<1> SUFFICES ASSUME NEW a \in Frames, Free(map, n, rm, a)
             PROVE  \E k \in 1 .. Len(t) : Holds(t[k], a)
  BY DEF NothingLost
<1>1. PICK k \in 1 .. Len(q) : Holds(q[k], a)
  BY DEF NothingLost
<1>2. /\ t \in Seq(Region) /\ Len(t) = Len(q) + d /\ Len(q) \in Nat /\ p \in Nat
      /\ 1 <= p /\ p <= Len(q) /\ k \in Nat /\ 1 <= k /\ k <= Len(q)
  BY LenProperties DEF CutAt
<1>3. CASE k < p
  <2>1. k \in 1 .. Len(t) /\ t[k] = q[k]
    BY <1>2, <1>3 DEF CutAt
  <2> QED
    BY <1>1, <2>1
<1>4. CASE k > p
  <2>1. k + d \in 1 .. Len(t) /\ k + d > p + d /\ (k + d) - d = k
    BY <1>2, <1>4
  <2>2. t[k + d] = q[(k + d) - d]
    BY <2>1 DEF CutAt
  <2> QED
    BY <1>1, <2>1, <2>2
<1>5. CASE k = p
  <2>1. Clear(Frame(a), rm[s]) /\ a \in Nat
    BY FrameIs DEF Free
  <2>2. CASE d = 0
    <3>1. Holds(t[p], a)
      BY <1>1, <1>5, <2>1, <2>2 DEF CutAt, Kept
    <3> QED
      BY <1>2, <2>2, <3>1
  <2>3. CASE d = 1
    <3>1. Holds(t[p], a) \/ Holds(t[p + 1], a)
      BY <1>1, <1>5, <2>1, <2>3 DEF CutAt, Kept
    <3>2. p \in 1 .. Len(t) /\ p + 1 \in 1 .. Len(t)
      BY <1>2, <2>3
    <3> QED
      BY <3>1, <3>2
  <2> QED
    BY <2>2, <2>3
<1> QED
  BY <1>2, <1>3, <1>4, <1>5

LEMMA InsideFinite ==
    ASSUME NEW q, NEW S, NEW rm \in Seq(Region)
    PROVE  /\ IsFiniteSet(Inside(q, S, rm)) /\ Cardinality(Inside(q, S, rm)) \in Nat
           /\ Cardinality(Inside(q, S, rm)) <= Len(rm)
<1>1. Len(rm) \in Nat
  BY LenProperties
<1>2. IsFiniteSet(1 .. Len(rm)) /\ Cardinality(1 .. Len(rm)) = Len(rm)
  BY <1>1, FS_Interval
<1>3. Inside(q, S, rm) \in SUBSET (1 .. Len(rm))
  BY DEF Inside
<1>4. /\ IsFiniteSet(Inside(q, S, rm))
      /\ Cardinality(Inside(q, S, rm)) <= Cardinality(1 .. Len(rm))
  BY <1>2, <1>3, FS_Subset
<1> QED
  BY <1>2, <1>4, FS_CardinalityType

\* A range that has split a region splits no other, since the regions are apart.
LEMMA SplitOnce ==
    ASSUME NEW q \in Seq(Region), NEW t \in Seq(Region), NEW p \in 1 .. Len(q),
           NEW rm \in Seq(Region), NEW s \in 1 .. Len(rm), CutAt(t, q, p, rm[s], 1),
           NEW S \in SUBSET (1 .. Len(q)), NEW T \in SUBSET (1 .. Len(t)),
           Follows(t, T, q, S, Moved(p, 1)), Ordered(q, S), p \in S
    PROVE  s \in Inside(q, S, rm) /\ s \notin Inside(t, T, rm)
<1> DEFINE x == rm[s]
           h == Moved(p, 1)
<1>1. x \in Region /\ x.Address \in Nat /\ x.Size \in Nat /\ Top(x) = x.Address + x.Size
  BY RegionIn
<1>2. /\ x.Size > 0 /\ q[p].Address <= x.Address /\ Top(x) <= Top(q[p])
      /\ Top(t[p]) = x.Address /\ t[p + 1].Address = Top(x)
  BY DEF CutAt
<1>3. s \in Inside(q, S, rm)
  BY <1>2 DEF Inside
<1> HIDE DEF x, h
<1>4. ASSUME NEW k \in T, t[k].Address <= x.Address, Top(x) <= Top(t[k]) PROVE FALSE
  <2>1. k \in 1 .. Len(t) /\ k \in Nat /\ p \in Nat /\ h[k] \in S /\ h[k] \in 1 .. Len(q)
        /\ h[k] \in Nat
    <3>1. h[k] \in S
      BY DEF Follows, h
    <3>2. k \in 1 .. Len(t) /\ h[k] \in 1 .. Len(q) /\ Len(t) \in Nat /\ Len(q) \in Nat
      BY <3>1, LenProperties
    <3> QED
      BY <3>1, <3>2
  <2>2. h[k] = IF k <= p THEN k ELSE k - 1
    BY <2>1 DEF h, Moved, Origin
  <2>3. q[h[k]].Address <= t[k].Address /\ Top(t[k]) <= Top(q[h[k]])
    BY DEF Follows, h
  <2>4. /\ q[h[k]].Address \in Nat /\ Top(q[h[k]]) \in Nat
        /\ t[k].Address \in Nat /\ Top(t[k]) \in Nat
        /\ q[p].Address \in Nat /\ Top(q[p]) \in Nat
    BY <2>1, RegionIn
  <2>5. CASE h[k] = p
    <3>1. k = p \/ k = p + 1
      BY <2>1, <2>2, <2>5
    <3>2. x.Address < Top(x)
      BY <1>1, <1>2
    <3>3. CASE k = p
      BY <1>1, <1>2, <1>4, <3>2, <3>3
    <3>4. CASE k = p + 1
      BY <1>1, <1>2, <1>4, <3>2, <3>4
    <3> QED
      BY <3>1, <3>3, <3>4
  <2>6. CASE h[k] < p
    <3>1. Top(q[h[k]]) <= q[p].Address
      BY <2>1, <2>6 DEF Ordered
    <3>2. Top(x) <= q[p].Address
      BY <1>1, <1>4, <2>3, <2>4, <3>1
    <3>3. q[p].Address <= x.Address /\ x.Address < Top(x)
      BY <1>1, <1>2
    <3> QED
      BY <1>1, <2>4, <3>2, <3>3
  <2>7. CASE h[k] > p
    <3>1. Top(q[p]) <= q[h[k]].Address
      BY <2>1, <2>7 DEF Ordered
    <3>2. Top(q[p]) <= x.Address
      BY <1>1, <1>4, <2>3, <2>4, <3>1
    <3>3. x.Address < Top(x) /\ Top(x) <= Top(q[p])
      BY <1>1, <1>2
    <3> QED
      BY <1>1, <2>4, <3>2, <3>3
  <2> QED
    BY <2>1, <2>5, <2>6, <2>7
<1>5. s \notin Inside(t, T, rm)
  BY <1>4 DEF Inside, x
<1> QED
  BY <1>3, <1>5

LEMMA CutFits ==
    ASSUME NEW q \in Seq(Region), NEW t, NEW p \in 1 .. Len(q),
           NEW rm \in Seq(Region), NEW s \in 1 .. Len(rm), NEW d \in {0, 1},
           CutAt(t, q, p, rm[s], d), s > 1 \/ Allocatable(q[p]),
           Ordered(q, Active(q, p, s)), NEW total \in Nat, Fits(q, rm, p, s, total)
    PROVE  Fits(t, rm, p, s + 1, total)
<1> DEFINE S == Active(q, p, s)
           T == Active(t, p, s + 1)
           X == Inside(q, S, rm)
           Y == Inside(t, T, rm)
<1>1. /\ t \in Seq(Region) /\ Len(t) = Len(q) + d /\ Len(q) \in Nat
      /\ S \in SUBSET (1 .. Len(q)) /\ T \in SUBSET (1 .. Len(t)) /\ p \in S
      /\ s \in Nat \ {0} /\ rm[s] \in Region
  BY LenProperties, ElementOfSeq DEF CutAt, Active
<1>2. Follows(t, T, q, S, Moved(p, d))
  BY <1>1, CutFollows
<1> HIDE DEF S, T
<1>3. Y \subseteq X
  BY <1>1, <1>2, FollowsInside
<1>4. d = 1 => s \in X /\ s \notin Y
  BY <1>1, <1>2, SplitOnce DEF S
<1>5. /\ IsFiniteSet(X) /\ Cardinality(X) \in Nat
      /\ IsFiniteSet(Y) /\ Cardinality(Y) \in Nat
  BY InsideFinite
<1>6. Len(q) + Cardinality(X) <= total
  BY DEF Fits, S
<1> HIDE DEF X, Y
<1>7. Cardinality(Y) + d <= Cardinality(X)
  <2>1. CASE d = 0
    <3>1. Cardinality(Y) <= Cardinality(X)
      BY <1>3, <1>5, FS_Subset
    <3> QED
      BY <1>5, <2>1, <3>1
  <2>2. CASE d = 1
    <3>1. Y \in SUBSET (X \ {s})
      BY <1>3, <1>4, <2>2
    <3>2. IsFiniteSet(X \ {s}) /\ Cardinality(X \ {s}) = Cardinality(X) - 1
      BY <1>4, <1>5, <2>2, FS_RemoveElement
    <3>3. Cardinality(Y) <= Cardinality(X \ {s})
      BY <3>1, <3>2, FS_Subset
    <3> QED
      BY <1>5, <2>2, <3>2, <3>3
  <2> QED
    BY <2>1, <2>2
<1>8. Len(t) + Cardinality(Y) <= total
  BY <1>1, <1>5, <1>6, <1>7
<1> QED
  BY <1>8 DEF Fits, Y, T

LEMMA CutKeeps ==
    ASSUME NEW map \in BiosMaps, NEW q, NEW rm, NEW p \in 1 .. Len(q), NEW s \in 1 .. Len(rm),
           Cutting(map, q, rm, p, s), s > 1 \/ Allocatable(q[p])
    PROVE  LET t == Spliced(q, p, Cut(q[p], rm[s]))
           IN /\ Cutting(map, t, rm, p, s + 1)
              /\ ClearOfExtra(q) => ClearOfExtra(t)
              /\ \A total \in Nat : Fits(q, rm, p, s, total) => Fits(t, rm, p, s + 1, total)
<1> DEFINE t == Spliced(q, p, Cut(q[p], rm[s]))
           S == Active(q, p, s)
           T == Active(t, p, s + 1)
<1>1. /\ q \in Seq(Region) /\ rm \in Seq(Region) /\ rm[s] \in Region
      /\ Len(q) \in Nat /\ Len(rm) \in Nat /\ s \in Nat \ {0}
      /\ Top(rm[s]) < AddressMod
  BY LenProperties, ElementOfSeq DEF Cutting
<1>2. p \in S /\ S \in SUBSET (1 .. Len(q)) /\ T \in SUBSET (1 .. Len(t)) /\ UsableIn(t) \subseteq T
  BY <1>1 DEF Active, UsableIn
<1>3. Top(q[p]) < AddressMod
  BY <1>2 DEF Cutting, Placed
<1>4. PICK d \in {0, 1} : CutAt(t, q, p, rm[s], d)
  BY <1>1, <1>3, CutSpliced
<1>5. t \in Seq(Region) /\ Len(t) = Len(q) + d
  BY <1>4 DEF CutAt
<1> HIDE DEF t
<1>6. Follows(t, T, q, S, Moved(p, d))
  BY <1>1, <1>4, CutFollows
<1>7. (\A k \in T : Placed(map, Len(map), t[k])) /\ Ordered(t, T)
  <2>1. (\A k \in S : Placed(map, Len(map), q[k])) /\ Ordered(q, S)
    BY DEF Cutting
  <2> HIDE DEF S, T
  <2> QED
    BY <1>1, <1>2, <1>5, <1>6, <2>1, EntryIs, FollowsKeeps
<1>8. Cleared(t, rm, p, s + 1)
  BY <1>1, <1>4, CutCleared DEF Cutting
<1>9. \A k \in UsableIn(t) : Even(t[k], rm)
  BY <1>1, <1>4, CutEven DEF Cutting
<1>10. NothingLost(map, Len(map), t, rm)
  BY <1>1, <1>4, CutLost DEF Cutting
<1>11. p \in 1 .. Len(t) + 1 /\ s + 1 \in 1 .. Len(rm) + 1 /\ p # Len(t) + 1
  BY <1>1, <1>5
<1>12. \A m \in 1 .. Len(rm) : Top(rm[m]) < AddressMod
  BY DEF Cutting
<1>13. Cutting(map, t, rm, p, s + 1)
  BY <1>1, <1>5, <1>7, <1>8, <1>9, <1>10, <1>11, <1>12 DEF Cutting
<1>14. ClearOfExtra(q) => ClearOfExtra(t)
  BY <1>1, <1>2, <1>5, <1>6, FollowsClear
<1>15. ASSUME NEW total \in Nat, Fits(q, rm, p, s, total) PROVE Fits(t, rm, p, s + 1, total)
  BY <1>1, <1>4, <1>15, CutFits DEF Cutting
<1> QED
  BY <1>13, <1>14, <1>15 DEF t

-----------------------------------------------------------------------------
\* On to the next region

LEMMA FewerFit ==
    ASSUME NEW q \in Seq(Region), NEW rm \in Seq(Region), NEW S, NEW T, T \subseteq S,
           NEW total \in Nat, Len(q) + Cardinality(Inside(q, S, rm)) <= total
    PROVE  Len(q) + Cardinality(Inside(q, T, rm)) <= total
<1>1. Inside(q, T, rm) \in SUBSET Inside(q, S, rm)
  BY DEF Inside
<1>2. Cardinality(Inside(q, T, rm)) <= Cardinality(Inside(q, S, rm))
  BY <1>1, InsideFinite, FS_Subset
<1>3. Cardinality(Inside(q, T, rm)) \in Nat /\ Cardinality(Inside(q, S, rm)) \in Nat
  BY InsideFinite
<1>4. Len(q) \in Nat
  BY LenProperties
<1> QED
  BY <1>2, <1>3, <1>4

LEMMA NextKeeps ==
    ASSUME NEW map, NEW q, NEW rm, NEW p \in 1 .. Len(q), NEW s,
           Cutting(map, q, rm, p, s), s > Len(rm) \/ ~Allocatable(q[p])
    PROVE  /\ Cutting(map, q, rm, p + 1, 1)
           /\ \A total \in Nat : Fits(q, rm, p, s, total) => Fits(q, rm, p + 1, 1, total)
<1>1. /\ q \in Seq(Region) /\ rm \in Seq(Region)
      /\ Len(q) \in Nat /\ Len(rm) \in Nat /\ s \in 1 .. Len(rm) + 1
  BY LenProperties DEF Cutting
<1> DEFINE S == Active(q, p, s)
           T == Active(q, p + 1, 1)
<1>2. T \subseteq S
  BY DEF Active
<1>3. (\A k \in T : Placed(map, Len(map), q[k])) /\ Ordered(q, T)
  BY <1>2 DEF Cutting, Ordered
<1>4. Cleared(q, rm, p + 1, 1)
  <2> SUFFICES ASSUME NEW k \in UsableIn(q), NEW m \in 1 .. Len(rm), k < p + 1
               PROVE  Clear(q[k], rm[m])
    BY <1>1 DEF Cleared
  <2>1. k < p \/ (k = p /\ m < s)
    BY <1>1 DEF UsableIn
  <2> QED
    BY <2>1 DEF Cutting, Cleared
<1>5. p + 1 \in 1 .. Len(q) + 1 /\ 1 \in 1 .. Len(rm) + 1
  BY <1>1
<1>6. Cutting(map, q, rm, p + 1, 1)
  BY <1>1, <1>3, <1>4, <1>5 DEF Cutting
<1>7. ASSUME NEW total \in Nat, Fits(q, rm, p, s, total) PROVE Fits(q, rm, p + 1, 1, total)
  <2> HIDE DEF S, T
  <2>1. Len(q) + Cardinality(Inside(q, S, rm)) <= total
    BY <1>7 DEF Fits, S
  <2>2. Len(q) + Cardinality(Inside(q, T, rm)) <= total
    BY <1>1, <1>2, <2>1, FewerFit
  <2> QED
    BY <2>2 DEF Fits, T
<1> QED
  BY <1>6, <1>7

-----------------------------------------------------------------------------
\* The regions are rounded

AlignedAll(map, q, rm) ==
    /\ q \in Seq(Region)
    /\ \A k \in UsableIn(q) : /\ Placed(map, Len(map), q[k])
                              /\ Multiple(q[k].Address) /\ Multiple(q[k].Size)
                              /\ \A m \in 1 .. Len(rm) : Clear(q[k], rm[m])
    /\ Ordered(q, UsableIn(q))
    /\ NothingLost(map, Len(map), q, rm)

LEMMA AlignKeeps ==
    ASSUME NEW map \in BiosMaps, NEW q, NEW rm, NEW p, NEW s, Cutting(map, q, rm, p, s), p > Len(q)
    PROVE  LET t == [k \in 1 .. Len(q) |-> Aligned(q[k])]
           IN /\ Len(t) = Len(q) /\ AlignedAll(map, t, rm)
              /\ ClearOfExtra(q) => ClearOfExtra(t)
<1> DEFINE t == [k \in 1 .. Len(q) |-> Aligned(q[k])]
           S == UsableIn(q)
           T == UsableIn(t)
           h == [k \in 1 .. Len(q) |-> k]
<1>1. /\ q \in Seq(Region) /\ rm \in Seq(Region) /\ Len(q) \in Nat
      /\ p = Len(q) + 1 /\ s = 1 /\ \A k \in 1 .. Len(q) : q[k] \in Region
  BY LenProperties, ElementOfSeq DEF Cutting
<1>2. \A k \in 1 .. Len(q) : t[k] = Aligned(q[k]) /\ t[k] \in Region /\ t[k].Type = q[k].Type
  BY <1>1, AlignedTyped
<1>3. t \in Seq(Region) /\ Len(t) = Len(q)
  <2>1. t \in [1 .. Len(q) -> Region]
    BY <1>2
  <2> HIDE DEF t
  <2> QED
    BY <1>1, <2>1
<1>4. S = Active(q, p, s) /\ S \subseteq 1 .. Len(q)
  BY <1>1 DEF Active, UsableIn
<1> HIDE DEF t
<1>5. T = S
  BY <1>2, <1>3 DEF UsableIn, Allocatable
<1>6. ASSUME NEW k \in S PROVE AlignedTo(t[k], q[k]) /\ k \in 1 .. Len(q)
  <2>1. k \in 1 .. Len(q) /\ q[k] \in Region
    BY <1>1, <1>4
  <2>2. Multiple(q[k].Address) \/ Multiple(Top(q[k]))
    BY DEF Cutting, Even
  <2>3. Top(q[k]) < AddressMod
    BY <1>4 DEF Cutting, Placed
  <2>4. AlignedTo(Aligned(q[k]), q[k])
    BY <2>1, <2>2, <2>3, AlignedIs
  <2> QED
    BY <1>2, <2>1, <2>4
<1>7. Follows(t, T, q, S, h)
  <2>1. \A k \in T : k \in S /\ k \in 1 .. Len(q) /\ AlignedTo(t[k], q[k]) /\ h[k] = k /\ Allocatable(q[k])
    BY <1>5, <1>6 DEF UsableIn
  <2>2. \A k, l \in T : k < l => h[k] < h[l]
    BY <2>1
  <2> QED
    BY <2>1, <2>2 DEF Follows, AlignedTo
<1>8. (\A k \in T : Placed(map, Len(map), t[k])) /\ Ordered(t, T)
  <2>1. (\A k \in S : Placed(map, Len(map), q[k])) /\ Ordered(q, S)
    BY <1>4 DEF Cutting
  <2>2. T \in SUBSET (1 .. Len(t)) /\ S \in SUBSET (1 .. Len(q))
    BY DEF UsableIn
  <2> HIDE DEF S, T, h
  <2> QED
    BY <1>1, <1>3, <1>7, <2>1, <2>2, EntryIs, FollowsKeeps
<1>9. ASSUME NEW k \in T, NEW m \in 1 .. Len(rm) PROVE Clear(t[k], rm[m])
  <2>1. Clear(q[k], rm[m])
    BY <1>1, <1>5, <1>6 DEF Cutting, Cleared
  <2>2. q[k] \in Region /\ t[k] \in Region /\ rm[m] \in Region
        /\ q[k].Address <= t[k].Address /\ Top(t[k]) <= Top(q[k])
    BY <1>1, <1>5, <1>6, ElementOfSeq DEF AlignedTo
  <2> QED
    BY <2>1, <2>2, ClearPart
<1>10. NothingLost(map, Len(map), t, rm)
  <2> SUFFICES ASSUME NEW a \in Frames, Free(map, Len(map), rm, a)
               PROVE  \E k \in 1 .. Len(t) : Holds(t[k], a)
    BY DEF NothingLost
  <2>1. PICK k \in 1 .. Len(q) : Holds(q[k], a)
    BY DEF Cutting, NothingLost
  <2>2. k \in S
    BY <2>1 DEF Holds, UsableIn
  <2>3. Holds(t[k], a)
    BY <1>6, <2>1, <2>2 DEF AlignedTo
  <2> QED
    BY <1>3, <2>3
<1>11. \A k \in T : Multiple(t[k].Address) /\ Multiple(t[k].Size)
  BY <1>5, <1>6 DEF AlignedTo
<1>12. AlignedAll(map, t, rm)
  BY <1>3, <1>8, <1>9, <1>10, <1>11 DEF AlignedAll
<1>13. ClearOfExtra(q) => ClearOfExtra(t)
  <2>1. T \in SUBSET (1 .. Len(t)) /\ S \in SUBSET (1 .. Len(q)) /\ UsableIn(t) \subseteq T
    BY DEF UsableIn
  <2> HIDE DEF S, T, h
  <2> QED
    BY <1>1, <1>3, <1>7, <2>1, FollowsClear
<1> QED
  BY <1>3, <1>12, <1>13 DEF t

-----------------------------------------------------------------------------
\* From KernelMain's call to InstallPMM's, and to the regions that it installs

LEMMA MapRegionIs ==
    ASSUME NEW map \in BiosMaps, NEW count \in 0 .. Len(map) + Len(extraMemRegs)
    PROVE  /\ MapRegion(count) \in Region /\ Top(MapRegion(count)) < AddressMod
           /\ MapRegion(count).Address = MemoryMapAddress
           /\ MapRegion(count).Size = RegionSize * (count + 2)
<1> DEFINE most == Len(map) + Len(extraMemRegs)
<1>1. most \in Nat /\ count \in Nat /\ count <= most
  BY BiosAssumption, ReservedAssumption, LenProperties
<1>2. MemoryMapAddress + RegionSize * (most + 2) < AddressMod
  BY RoomAssumption
<1>3. RegionSize \in Nat /\ MemoryMapAddress \in Nat /\ AddressMod \in Nat
  BY SizesAssumption
<1> HIDE DEF most
<1>4. /\ (count + 2) * RegionSize <= (most + 2) * RegionSize
      /\ RegionSize * (count + 2) = (count + 2) * RegionSize
      /\ RegionSize * (most + 2) = (most + 2) * RegionSize
      /\ RegionSize * (count + 2) \in Nat /\ RegionSize * (most + 2) \in Nat
  <2>1. count + 2 <= most + 2
    BY <1>1
  <2>2. (count + 2) * RegionSize <= (most + 2) * RegionSize
    BY <1>1, <1>3, <2>1, TimesLeq
  <2>3. ASSUME NEW x \in Nat, NEW y \in Nat PROVE x * y = y * x /\ x * y \in Nat
    BY SMT
  <2> QED
    BY <1>1, <1>3, <2>2, <2>3
<1>5. MapRegion(count) = [Address |-> MemoryMapAddress, Size |-> RegionSize * (count + 2),
                          Type |-> RESERVED]
  BY DEF MapRegion
<1> DEFINE x == RegionSize * (count + 2)
           y == RegionSize * (most + 2)
<1>6. x \in Nat /\ y \in Nat /\ x <= y /\ MemoryMapAddress + y < AddressMod
  BY <1>2, <1>4
<1> HIDE DEF x, y
<1>7. MemoryMapAddress + x < AddressMod
  BY <1>3, <1>6
<1>8. MapRegion(count) \in Region
  BY <1>3, <1>5, <1>6 DEF Region, RESERVED, x
<1> QED
  BY <1>5, <1>7, <1>8 DEF Top, x

LEMMA FirstEnds ==
    ASSUME NEW map \in BiosMaps, NEW q, NEW rm, NEW p, NEW s, FirstCall(map, q, rm, p, s),
           p > Len(q)
    PROVE  SecondCall(map, [k \in 1 .. Len(q) |-> Aligned(q[k])], <<MapRegion(Len(q))>>, 1, 1)
<1> DEFINE t == [k \in 1 .. Len(q) |-> Aligned(q[k])]
           count == Len(q)
           new == <<MapRegion(count)>>
           most == Len(map) + Len(extraMemRegs)
<1>1. Len(t) = Len(q) /\ AlignedAll(map, t, rm) /\ rm = extraMemRegs
  BY AlignKeeps DEF FirstCall
<1>2. count \in Nat /\ most \in Nat /\ q \in Seq(Region) /\ rm \in Seq(Region)
  BY BiosAssumption, ReservedAssumption, LenProperties DEF FirstCall, Cutting
<1>3. count <= most
  <2> DEFINE X == Inside(q, Active(q, p, s), rm)
  <2>1. Len(q) + Cardinality(X) <= most
    BY DEF FirstCall, Fits
  <2>2. Cardinality(X) \in Nat
    BY <1>2, InsideFinite
  <2> HIDE DEF X
  <2> QED
    BY <1>2, <2>1, <2>2
<1>4. count \in 0 .. most
  BY <1>2, <1>3
<1> HIDE DEF t, count
<1>5. MapRegion(count) \in Region /\ Top(MapRegion(count)) < AddressMod
  BY <1>4, MapRegionIs
<1>6. new \in Seq(Region) /\ Len(new) = 1 /\ new[1] = MapRegion(count)
  BY <1>5
<1> HIDE DEF new, most
<1>7. /\ t \in Seq(Region) /\ Ordered(t, UsableIn(t)) /\ NothingLost(map, Len(map), t, rm)
      /\ \A k \in UsableIn(t) : /\ Placed(map, Len(map), t[k])
                                /\ Multiple(t[k].Address) /\ Multiple(t[k].Size)
                                /\ \A m \in 1 .. Len(rm) : Clear(t[k], rm[m])
  BY <1>1 DEF AlignedAll
<1>8. Active(t, 1, 1) = UsableIn(t)
  BY DEF Active, UsableIn
<1>9. \A k \in UsableIn(t) : Even(t[k], new)
  <2> SUFFICES ASSUME NEW k \in UsableIn(t) PROVE Even(t[k], new)
    OBVIOUS
  <2>1. t[k] \in Region
    BY <1>7, ElementOfSeq DEF UsableIn
  <2>2. /\ t[k].Address \in Nat /\ t[k].Size \in Nat
        /\ Multiple(t[k].Address) /\ Multiple(t[k].Size)
    BY <1>7, <2>1 DEF Region
  <2>3. Multiple(Top(t[k]))
    BY <2>2, MultipleSums DEF Top
  <2> QED
    BY <1>6, <2>2, <2>3 DEF Even
<1>10. NothingLost(map, Len(map), t, new)
  BY <1>1, <1>7 DEF NothingLost, Free
<1>11. Cleared(t, new, 1, 1)
  BY <1>6 DEF Cleared, UsableIn
<1>12. Cutting(map, t, new, 1, 1)
  <2>1. Len(t) \in Nat
    BY <1>7, LenProperties
  <2>2. 1 \in 1 .. Len(t) + 1 /\ 1 \in 1 .. Len(new) + 1
    BY <1>6, <2>1
  <2>3. \A m \in 1 .. Len(new) : Top(new[m]) < AddressMod
    BY <1>5, <1>6
  <2> QED
    BY <1>6, <1>7, <1>8, <1>9, <1>10, <1>11, <2>2, <2>3 DEF Cutting
<1>13. ClearOfExtra(t)
  BY <1>1, <1>7 DEF ClearOfExtra
<1>14. Fits(t, new, 1, 1, count + 1)
  <2> DEFINE X == Inside(t, Active(t, 1, 1), new)
  <2>1. Cardinality(X) \in Nat /\ Cardinality(X) <= 1
    BY <1>6, InsideFinite
  <2>2. Len(t) = count
    BY <1>1 DEF count
  <2>3. Len(t) + Cardinality(X) <= count + 1
    <3> HIDE DEF X
    <3> QED
      BY <1>2, <2>1, <2>2 DEF count
  <2> QED
    BY <2>3 DEF Fits
<1>15. count \in 0 .. Len(map) + Len(extraMemRegs) /\ new = <<MapRegion(count)>>
  BY <1>4 DEF most, new
<1>16. SecondCall(map, t, new, 1, 1)
  BY <1>12, <1>13, <1>14, <1>15 DEF SecondCall
<1> QED
  BY <1>16 DEF t, new, count

LEMMA SecondEnds ==
    ASSUME NEW map \in BiosMaps, NEW q, NEW rm, NEW p, NEW s, SecondCall(map, q, rm, p, s),
           p > Len(q)
    PROVE  Finished(map, [k \in 1 .. Len(q) |-> Aligned(q[k])], rm)
<1> DEFINE t == [k \in 1 .. Len(q) |-> Aligned(q[k])]
<1>1. Len(t) = Len(q) /\ AlignedAll(map, t, rm) /\ ClearOfExtra(t)
  BY AlignKeeps DEF SecondCall
<1>2. PICK count \in 0 .. Len(map) + Len(extraMemRegs) :
          rm = <<MapRegion(count)>> /\ Fits(q, rm, p, s, count + 1)
  BY DEF SecondCall
<1>3. Len(q) <= count + 1
  <2> DEFINE X == Inside(q, Active(q, p, s), rm)
  <2>1. q \in Seq(Region) /\ rm \in Seq(Region)
    BY DEF SecondCall, Cutting
  <2>2. Len(q) \in Nat /\ Cardinality(X) \in Nat
    BY <2>1, InsideFinite, LenProperties
  <2>3. Len(q) + Cardinality(X) <= count + 1
    BY <1>2 DEF Fits
  <2>4. count \in Nat
    BY <1>2
  <2> HIDE DEF X
  <2> QED
    BY <2>2, <2>3, <2>4
<1>4. 1 \in 1 .. Len(rm)
  BY <1>2
<1> HIDE DEF t
<1>5. Finished(map, t, rm)
  BY <1>1, <1>2, <1>3, <1>4 DEF Finished, AlignedAll
<1> QED
  BY <1>5 DEF t

-----------------------------------------------------------------------------
\* The sort

LEMMA SortBegins ==
    ASSUME NEW q \in Seq(Region)
    PROVE  SortedSoFar(q, 1, 1, FALSE)
<1>1. Len(q) \in Nat
  BY LenProperties
<1> QED
  BY <1>1 DEF SortedSoFar

\* The region that a swap moves to k was at k before, or at its neighbour.
Partner(k, s) == IF k = s THEN s + 1 ELSE IF k = s + 1 THEN s ELSE k

Swapped(q, s) == [q EXCEPT ![s] = q[s + 1], ![s + 1] = q[s]]

Compared(q, s) == IF q[s].Address >= q[s + 1].Address THEN Swapped(q, s) ELSE q

LEMMA SwapIs ==
    ASSUME NEW q \in Seq(Region), NEW s \in 1 .. Len(q), s + 1 \in 1 .. Len(q)
    PROVE  LET t == Swapped(q, s)
           IN /\ t \in Seq(Region) /\ Len(t) = Len(q)
              /\ \A k \in 1 .. Len(q) : t[k] = q[Partner(k, s)] /\ Partner(k, s) \in 1 .. Len(q)
              /\ \A k, l \in 1 .. Len(q) : k # l => Partner(k, s) # Partner(l, s)
              /\ \A k \in 1 .. Len(q) : Partner(Partner(k, s), s) = k
<1> DEFINE t == Swapped(q, s)
<1>1. /\ q \in [1 .. Len(q) -> Region] /\ Len(q) \in Nat /\ s \in Nat
      /\ q[s] \in Region /\ q[s + 1] \in Region
  BY LenProperties, ElementOfSeq
<1>2. \A k \in 1 .. Len(q) : Partner(k, s) \in 1 .. Len(q) /\ Partner(Partner(k, s), s) = k
  BY <1>1 DEF Partner
<1>3. \A k, l \in 1 .. Len(q) : k # l => Partner(k, s) # Partner(l, s)
  BY <1>1 DEF Partner
<1>4. t = [k \in 1 .. Len(q) |-> q[Partner(k, s)]]
  BY <1>1 DEF Partner, Swapped
<1>5. t \in [1 .. Len(q) -> Region]
  BY <1>1 DEF Swapped
<1> HIDE DEF t
<1>6. t \in Seq(Region) /\ Len(t) = Len(q)
  BY <1>1, <1>5
<1>7. \A k \in 1 .. Len(q) : t[k] = q[Partner(k, s)]
  BY <1>4
<1> QED
  BY <1>2, <1>3, <1>6, <1>7 DEF t

LEMMA SwapKeeps ==
    ASSUME NEW map, NEW n, NEW q, Collected(map, n, q), NEW s \in 1 .. Len(q),
           s + 1 \in 1 .. Len(q)
    PROVE  Collected(map, n, Swapped(q, s))
<1> DEFINE t == Swapped(q, s)
<1>1. q \in Seq(Region) /\ Len(q) <= n
  BY DEF Collected
<1>2. /\ t \in Seq(Region) /\ Len(t) = Len(q)
      /\ \A k \in 1 .. Len(q) : t[k] = q[Partner(k, s)] /\ Partner(k, s) \in 1 .. Len(q)
      /\ \A k, l \in 1 .. Len(q) : k # l => Partner(k, s) # Partner(l, s)
      /\ \A k \in 1 .. Len(q) : Partner(Partner(k, s), s) = k
  BY <1>1, SwapIs
<1> HIDE DEF t
<1>3. \A k \in UsableIn(t) : k \in 1 .. Len(q) /\ t[k] = q[Partner(k, s)] /\ Partner(k, s) \in UsableIn(q)
  BY <1>2 DEF UsableIn
<1>4. \A k \in UsableIn(t) : Whole(t[k]) /\ Placed(map, n, t[k])
  BY <1>3 DEF Collected
<1>5. \A k, l \in UsableIn(t) : k # l => Top(t[k]) <= t[l].Address \/ Top(t[l]) <= t[k].Address
  BY <1>2, <1>3 DEF Collected
<1>6. NothingLost(map, n, t, <<>>)
  <2> SUFFICES ASSUME NEW a \in Frames, Free(map, n, <<>>, a)
               PROVE  \E k \in 1 .. Len(t) : Holds(t[k], a)
    BY DEF NothingLost
  <2>1. PICK k \in 1 .. Len(q) : Holds(q[k], a)
    BY DEF Collected, NothingLost
  <2>2. Partner(k, s) \in 1 .. Len(q) /\ t[Partner(k, s)] = q[k]
    BY <1>2
  <2> QED
    BY <1>2, <2>1, <2>2
<1> QED
  BY <1>1, <1>2, <1>4, <1>5, <1>6 DEF Collected, t

LEMMA CompareKeeps ==
    ASSUME NEW map, NEW n, NEW q, NEW p, NEW s, NEW w, Collected(map, n, q),
           SortedSoFar(q, p, s, w), p < Len(q), s <= Len(q) - p
    PROVE  /\ Collected(map, n, Compared(q, s))
           /\ SortedSoFar(Compared(q, s), p, s + 1, w \/ q[s].Address >= q[s + 1].Address)
<1> DEFINE swap == q[s].Address >= q[s + 1].Address
           t == Compared(q, s)
<1>1. /\ q \in Seq(Region) /\ Len(q) \in Nat /\ p \in Nat \ {0} /\ s \in Nat \ {0}
      /\ s \in 1 .. Len(q) /\ s + 1 \in 1 .. Len(q) /\ w \in BOOLEAN /\ s + 1 + p <= Len(q) + 1
  BY LenProperties DEF Collected, SortedSoFar
<1>2. \A k \in 1 .. Len(q) : q[k].Address \in Nat
  BY <1>1, RegionIn
<1>3. /\ \A k, l \in 1 .. Len(q) : k < l /\ l + p > Len(q) + 1 => q[k].Address <= q[l].Address
      /\ \A k \in 1 .. Len(q) : k < s => q[k].Address <= q[s].Address
      /\ ~w => \A k, l \in 1 .. Len(q) : k < l /\ l <= s => q[k].Address <= q[l].Address
  BY DEF SortedSoFar
<1>4. CASE swap
  <2>1. t = Swapped(q, s)
    BY <1>4 DEF Compared
  <2>2. Collected(map, n, t)
    BY <1>1, <2>1, SwapKeeps
  <2>3. /\ t \in Seq(Region) /\ Len(t) = Len(q)
        /\ \A k \in 1 .. Len(q) : t[k] = q[Partner(k, s)] /\ Partner(k, s) \in 1 .. Len(q)
    BY <1>1, <2>1, SwapIs
  <2> HIDE DEF t
  <2>4. ASSUME NEW k \in 1 .. Len(q), NEW l \in 1 .. Len(q), k < l, l + p > Len(q) + 1
        PROVE  t[k].Address <= t[l].Address
    <3>1. l > s + 1 /\ Partner(l, s) = l
      BY <1>1, <2>4 DEF Partner
    <3>2. Partner(k, s) < l
      BY <1>1, <2>4, <3>1 DEF Partner
    <3> QED
      BY <1>3, <2>3, <2>4, <3>1, <3>2
  <2>5. ASSUME NEW k \in 1 .. Len(q), k < s + 1 PROVE t[k].Address <= t[s + 1].Address
    <3>1. t[s + 1] = q[s]
      BY <1>1, <2>3 DEF Partner
    <3>2. CASE k = s
      BY <1>1, <1>4, <2>3, <3>1, <3>2 DEF Partner
    <3>3. CASE k < s
      <4>1. t[k] = q[k]
        BY <1>1, <2>3, <3>3 DEF Partner
      <4> QED
        BY <1>3, <3>1, <3>3, <4>1
    <3> QED
      BY <1>1, <2>5, <3>2, <3>3
  <2>6. SortedSoFar(t, p, s + 1, w \/ swap)
    <3>1. (w \/ swap) = TRUE
      BY <1>1, <1>4
    <3> QED
      BY <1>1, <2>3, <2>4, <2>5, <3>1 DEF SortedSoFar
  <2> QED
    BY <2>2, <2>6 DEF t
<1>5. CASE ~swap
  <2>1. t = q
    BY <1>5 DEF Compared
  <2>2. q[s].Address <= q[s + 1].Address
    BY <1>1, <1>2, <1>5
  <2>3. ASSUME NEW k \in 1 .. Len(q), k < s + 1 PROVE q[k].Address <= q[s + 1].Address
    <3>1. k = s \/ (k < s /\ q[k].Address <= q[s].Address)
      BY <1>1, <1>3, <2>3
    <3> QED
      BY <1>1, <1>2, <2>2, <3>1
  <2>4. ASSUME ~w, NEW k \in 1 .. Len(q), NEW l \in 1 .. Len(q), k < l, l <= s + 1
        PROVE  q[k].Address <= q[l].Address
    <3>1. l = s + 1 \/ l <= s
      BY <1>1, <2>4
    <3>2. CASE l = s + 1
      BY <2>3, <2>4, <3>2
    <3>3. CASE l <= s
      BY <1>3, <2>4, <3>3
    <3> QED
      BY <3>1, <3>2, <3>3
  <2>5. (w \/ swap) = w
    BY <1>1, <1>5
  <2>6. SortedSoFar(q, p, s + 1, w)
    BY <1>1, <1>3, <2>3, <2>4 DEF SortedSoFar
  <2> QED
    BY <2>1, <2>5, <2>6
<1> QED
  BY <1>4, <1>5

LEMMA PassKeeps ==
    ASSUME NEW q \in Seq(Region), NEW p, NEW s, NEW w, SortedSoFar(q, p, s, w),
           p < Len(q), s > Len(q) - p
    PROVE  SortedSoFar(q, p + 1, 1, FALSE)
<1>1. /\ Len(q) \in Nat /\ p \in Nat \ {0} /\ s \in Nat \ {0} /\ s = Len(q) + 1 - p
  BY LenProperties DEF SortedSoFar
<1>2. /\ \A k, l \in 1 .. Len(q) : k < l /\ l + p > Len(q) + 1 => q[k].Address <= q[l].Address
      /\ \A k \in 1 .. Len(q) : k < s => q[k].Address <= q[s].Address
  BY DEF SortedSoFar
<1>3. ASSUME NEW k \in 1 .. Len(q), NEW l \in 1 .. Len(q), k < l, l + (p + 1) > Len(q) + 1
      PROVE  q[k].Address <= q[l].Address
  <2>1. l = s \/ l + p > Len(q) + 1
    BY <1>1, <1>3
  <2> QED
    BY <1>2, <1>3, <2>1
<1> QED
  BY <1>1, <1>3 DEF SortedSoFar

LEMMA SortEnds ==
    ASSUME NEW q \in Seq(Region), NEW p, NEW s, NEW w, SortedSoFar(q, p, s, w),
           p >= Len(q) \/ (s > Len(q) - p /\ ~w)
    PROVE  \A k, l \in 1 .. Len(q) : k < l => q[k].Address <= q[l].Address
<1> SUFFICES ASSUME NEW k \in 1 .. Len(q), NEW l \in 1 .. Len(q), k < l
             PROVE  q[k].Address <= q[l].Address
  OBVIOUS
<1>1. /\ Len(q) \in Nat /\ p \in Nat \ {0} /\ s \in Nat \ {0} /\ k \in Nat \ {0} /\ l \in Nat
  BY LenProperties DEF SortedSoFar
<1>2. l + p > Len(q) + 1 => q[k].Address <= q[l].Address
  BY DEF SortedSoFar
<1>3. CASE p >= Len(q)
  <2>1. l + p > Len(q) + 1
    BY <1>1, <1>3
  <2> QED
    BY <1>2, <2>1
<1>4. CASE s > Len(q) - p /\ ~w
  <2>1. l <= s \/ l + p > Len(q) + 1
    BY <1>1, <1>4
  <2>2. l <= s => q[k].Address <= q[l].Address
    BY <1>4 DEF SortedSoFar
  <2> QED
    BY <1>2, <2>1, <2>2
<1> QED
  BY <1>3, <1>4

LEMMA FirstBegins ==
    ASSUME NEW map \in BiosMaps, NEW q, Collected(map, Len(map), q),
           \A k, l \in 1 .. Len(q) : k < l => q[k].Address <= q[l].Address
    PROVE  FirstCall(map, q, extraMemRegs, 1, 1)
<1> DEFINE rm == extraMemRegs
           U == UsableIn(q)
<1>1. /\ q \in Seq(Region) /\ Len(q) \in Nat /\ Len(q) <= Len(map) /\ Len(map) \in Nat
      /\ rm \in Seq(Region) /\ Len(rm) \in Nat
  BY BiosAssumption, ReservedAssumption, LenProperties DEF Collected
<1>2. \A m \in 1 .. Len(rm) : Multiple(rm[m].Address) /\ Top(rm[m]) < AddressMod
  BY ReservedAssumption DEF Multiple, Top
<1>3. \A k \in U : /\ k \in 1 .. Len(q) /\ q[k].Address \in Nat /\ q[k].Size \in Nat
                   /\ Top(q[k]) = q[k].Address + q[k].Size
                   /\ Whole(q[k]) /\ Placed(map, Len(map), q[k])
  <2> SUFFICES ASSUME NEW k \in U
               PROVE  /\ k \in 1 .. Len(q) /\ q[k].Address \in Nat /\ q[k].Size \in Nat
                      /\ Top(q[k]) = q[k].Address + q[k].Size
                      /\ Whole(q[k]) /\ Placed(map, Len(map), q[k])
    OBVIOUS
  <2>1. k \in 1 .. Len(q)
    BY DEF UsableIn
  <2>2. Whole(q[k]) /\ Placed(map, Len(map), q[k])
    BY DEF Collected
  <2> QED
    BY <1>1, <2>1, <2>2, RegionIn
<1>4. Active(q, 1, 1) = U
  BY DEF Active, UsableIn
<1>5. Ordered(q, U)
  <2> SUFFICES ASSUME NEW k \in U, NEW l \in U, k < l PROVE Top(q[k]) <= q[l].Address
    BY DEF Ordered
  <2>1. k # l /\ q[k].Address <= q[l].Address /\ q[l].Size > 0
    BY <1>1, <1>3 DEF Whole
  <2>2. Top(q[k]) <= q[l].Address \/ Top(q[l]) <= q[k].Address
    BY <2>1 DEF Collected
  <2> QED
    BY <1>3, <2>1, <2>2
<1>6. \A k \in U : Even(q[k], rm)
  <2> SUFFICES ASSUME NEW k \in U PROVE Even(q[k], rm)
    OBVIOUS
  <2>1. Multiple(Top(q[k]))
    BY <1>3, MultipleSums DEF Whole
  <2> QED
    BY <1>2, <2>1 DEF Even
<1>7. NothingLost(map, Len(map), q, rm)
  <2>1. \A a \in Frames : Free(map, Len(map), rm, a) => Free(map, Len(map), <<>>, a)
    BY DEF Free
  <2> QED
    BY <2>1 DEF Collected, NothingLost
<1>8. Cleared(q, rm, 1, 1)
  BY <1>1 DEF Cleared, UsableIn
<1>9. 1 \in 1 .. Len(q) + 1 /\ 1 \in 1 .. Len(rm) + 1
  BY <1>1
<1>10. Cutting(map, q, rm, 1, 1)
  <2> HIDE DEF rm, U
  <2> QED
    BY <1>1, <1>2, <1>3, <1>4, <1>5, <1>6, <1>7, <1>8, <1>9 DEF Cutting, U
<1>11. Fits(q, rm, 1, 1, Len(map) + Len(rm))
  <2> DEFINE X == Inside(q, Active(q, 1, 1), rm)
  <2>1. Cardinality(X) \in Nat /\ Cardinality(X) <= Len(rm)
    BY <1>1, InsideFinite
  <2>2. Len(q) + Cardinality(X) <= Len(map) + Len(rm)
    <3> HIDE DEF X, rm
    <3> QED
      BY <1>1, <2>1
  <2> QED
    BY <2>2 DEF Fits
<1> QED
  BY <1>10, <1>11 DEF FirstCall

-----------------------------------------------------------------------------
\* TransformBIOSMemoryMap

EntryRegion(e) == [Address |-> e.BaseAddress, Size |-> e.Length, Type |-> e.Type]

\* An entry that can be allocated becomes its whole frames.
LEMMA TransformedIs ==
    ASSUME NEW map \in BiosMaps, NEW n \in 1 .. Len(map), map[n].BaseAddress < AddressMod
    PROVE  /\ Transformed(map[n]) \in Region
           /\ map[n].Extended /\ Allocatable(map[n]) =>
                 /\ AlignedTo(Transformed(map[n]), EntryRegion(map[n]))
                 /\ Top(EntryRegion(map[n])) < AddressMod
           /\ Allocatable(Transformed(map[n])) => map[n].Extended /\ Allocatable(map[n])
<1> DEFINE e == map[n]
           B == e.BaseAddress
           L == e.Length
           size == IF B + L > AddressMod THEN AddressMod - B ELSE L
<1>1. /\ B \in Nat /\ L \in Nat /\ e.Type \in Nat /\ e.Extended \in BOOLEAN /\ B < AddressMod
      /\ AddressMod \in Nat \ {0}
  BY EntryIs, Modulus
<1>2. Allocatable(e) => Multiple(B) /\ B + L < AddressMod
  BY EntryIs
<1>3. Transformed(e) = [Address |-> AlignUp(B), Size |-> AlignDown(size % AddressMod),
                        Type |-> IF e.Extended THEN e.Type ELSE RESERVED]
  BY DEF Transformed
<1>4. Allocatable(Transformed(e)) => e.Extended /\ Allocatable(e)
  BY <1>1, <1>3 DEF Allocatable, RESERVED, USABLE, RECLAIMABLE
<1> HIDE DEF e
<1>5. size % AddressMod \in Nat
  BY <1>1
<1>6. Transformed(e) \in Region
  <2> HIDE DEF B, L, size
  <2>1. AlignUp(B) \in Nat /\ AlignDown(size % AddressMod) \in Nat
    BY <1>1, <1>5, AlignUpTyped, AlignDownIs
  <2>2. (IF e.Extended THEN e.Type ELSE RESERVED) \in Nat
    BY <1>1 DEF RESERVED
  <2> QED
    BY <1>3, <2>1, <2>2 DEF Region
<1>7. ASSUME e.Extended, Allocatable(e)
      PROVE  AlignedTo(Transformed(e), EntryRegion(e)) /\ Top(EntryRegion(e)) < AddressMod
  <2>1. size = L /\ L < AddressMod
    BY <1>1, <1>2, <1>7
  <2>2. L % AddressMod = L
    BY <1>1, <2>1, ModSmall
  <2>3. /\ EntryRegion(e) \in Region
        /\ EntryRegion(e).Address = B /\ EntryRegion(e).Size = L /\ EntryRegion(e).Type = e.Type
        /\ Top(EntryRegion(e)) = B + L
    BY <1>1 DEF EntryRegion, Region, Top
  <2>4. Aligned(EntryRegion(e)) = [Address |-> AlignUp(B), Size |-> AlignDown(L), Type |-> e.Type]
    BY <2>3, AlignedTyped
  <2>5. Aligned(EntryRegion(e)) = Transformed(e)
    BY <1>3, <1>7, <2>1, <2>2, <2>4
  <2>6. Top(EntryRegion(e)) < AddressMod /\ Multiple(EntryRegion(e).Address)
    BY <1>2, <1>7, <2>3
  <2> QED
    BY <2>3, <2>5, <2>6, AlignedIs
<1> QED
  BY <1>4, <1>6, <1>7 DEF e

LEMMA FrameBelow == ASSUME NEW a \in Frames PROVE a < AddressMod
<1>1. AddressMod \in Nat /\ FrameSize \in Nat \ {0}
  BY Modulus
<1> DEFINE count == AddressMod \div FrameSize
<1>2. count \in Nat /\ count * FrameSize <= AddressMod
  BY <1>1, DivBounds
<1>3. PICK f \in 0 .. count - 1 : a = f * FrameSize
  BY DEF Frames
<1> HIDE DEF count
<1>4. (f + 1) * FrameSize <= count * FrameSize /\ (f + 1) * FrameSize = a + FrameSize /\ a \in Nat
  <2>1. f \in Nat /\ f + 1 \in Int /\ f + 1 <= count
    BY <1>2
  <2>2. (f + 1) * FrameSize = f * FrameSize + 1 * FrameSize
    BY <1>1, <2>1, TimesPlus
  <2> QED
    BY <1>1, <1>2, <1>3, <2>1, <2>2, TimesLeq, FrameIs
<1> DEFINE top == count * FrameSize
<1>5. a + FrameSize <= top /\ top <= AddressMod
  BY <1>2, <1>4
<1>6. top \in Nat
  BY <1>1, <1>2, MultipleMod
<1> HIDE DEF top
<1> QED
  BY <1>1, <1>4, <1>5, <1>6

LEMMA CollectBegins == ASSUME NEW map PROVE Collected(map, 0, <<>>)
<1>1. <<>> \in Seq(Region) /\ Len(<<>>) = 0 /\ UsableIn(<<>>) = {}
  BY DEF UsableIn
<1>2. \A a \in Frames : ~Free(map, 0, <<>>, a)
  BY DEF Free
<1> QED
  BY <1>1, <1>2 DEF Collected, NothingLost

\* One more entry that gives no region.
LEMMA EntrySkipped ==
    ASSUME NEW map \in BiosMaps, NEW n \in 1 .. Len(map), NEW q, Collected(map, n - 1, q),
           map[n].BaseAddress >= AddressMod \/ Transformed(map[n]).Size = 0
    PROVE  Collected(map, n, q)
<1>1. /\ q \in Seq(Region) /\ Len(q) \in Nat /\ Len(q) <= n - 1 /\ n \in Nat \ {0}
  BY BiosAssumption, LenProperties DEF Collected
<1>2. Len(q) <= n
  BY <1>1
<1>3. \A k \in UsableIn(q) : Whole(q[k]) /\ Placed(map, n, q[k])
  <2>1. 1 .. n - 1 \subseteq 1 .. n
    BY <1>1
  <2> QED
    BY <2>1 DEF Collected, Placed
<1>4. ASSUME NEW a \in Frames, Within(Frame(a), map[n]) PROVE FALSE
  <2> DEFINE e == map[n]
             p == Transformed(e)
             r == EntryRegion(e)
  <2>1. a \in Nat /\ a < AddressMod /\ FrameSize \in Nat \ {0}
    BY FrameIs, FrameBelow, Modulus
  <2>2. /\ e.Extended /\ Allocatable(e) /\ e.BaseAddress <= a
        /\ a + FrameSize <= e.BaseAddress + e.Length
    BY <1>4 DEF Within, Frame, Top
  <2>3. e.BaseAddress \in Nat
    BY EntryIs
  <2>4. e.BaseAddress < AddressMod /\ p.Size = 0
    BY <2>1, <2>2, <2>3, Modulus
  <2>5. AlignedTo(p, r)
    BY <2>2, <2>4, TransformedIs
  <2>6. Holds(r, a)
    BY <2>2 DEF Holds, EntryRegion, Top, Allocatable
  <2>7. Holds(p, a) /\ p \in Region
    BY <2>5, <2>6 DEF AlignedTo
  <2> HIDE DEF p
  <2>8. p.Address <= a /\ a + FrameSize <= p.Address + p.Size /\ p.Address \in Nat
    BY <2>7 DEF Holds, Top, Region
  <2> QED
    BY <2>1, <2>4, <2>8
<1>5. NothingLost(map, n, q, <<>>)
  <2> SUFFICES ASSUME NEW a \in Frames, Free(map, n, <<>>, a)
               PROVE  \E k \in 1 .. Len(q) : Holds(q[k], a)
    BY DEF NothingLost
  <2>1. PICK l \in 1 .. n : Within(Frame(a), map[l])
    BY DEF Free
  <2>2. l \in 1 .. n - 1
    BY <1>1, <1>4, <2>1
  <2>3. Free(map, n - 1, <<>>, a)
    BY <2>1, <2>2 DEF Free
  <2> QED
    BY <2>3 DEF Collected, NothingLost
<1> QED
  BY <1>1, <1>2, <1>3, <1>5 DEF Collected

\* One more entry that gives one.
LEMMA EntryAdded ==
    ASSUME NEW map \in BiosMaps, NEW n \in 1 .. Len(map), NEW q, Collected(map, n - 1, q),
           map[n].BaseAddress < AddressMod, Transformed(map[n]).Size # 0
    PROVE  Collected(map, n, Append(q, Transformed(map[n])))
<1> DEFINE e == map[n]
           x == Transformed(e)
           r == EntryRegion(e)
           t == Append(q, x)
           c == Len(q) + 1
<1>1. /\ q \in Seq(Region) /\ Len(q) \in Nat /\ Len(q) <= n - 1 /\ n \in Nat \ {0}
      /\ n \in 1 .. n /\ 1 .. n - 1 \subseteq 1 .. n
  BY BiosAssumption, LenProperties DEF Collected
<1>2. /\ x \in Region
      /\ e.Extended /\ Allocatable(e) => AlignedTo(x, r) /\ Top(r) < AddressMod
      /\ Allocatable(x) => e.Extended /\ Allocatable(e)
  BY TransformedIs
<1>3. x.Size > 0 /\ x.Address \in Nat /\ x.Size \in Nat /\ Top(x) = x.Address + x.Size
  BY <1>2 DEF Region, Top
<1>4. r.Address = e.BaseAddress /\ r.Size = e.Length /\ Top(r) = e.BaseAddress + e.Length
      /\ r.Type = e.Type
  BY DEF EntryRegion, Top
<1>5. e.BaseAddress \in Nat /\ e.Length \in Nat
  BY EntryIs
<1> HIDE DEF x, r
<1>6. /\ t \in Seq(Region) /\ Len(t) = c /\ t[c] = x
      /\ \A k \in 1 .. Len(q) : t[k] = q[k]
  BY <1>1, <1>2
<1> HIDE DEF t
<1>7. \A k \in UsableIn(t) : k = c \/ (k \in UsableIn(q) /\ t[k] = q[k])
  BY <1>1, <1>6 DEF UsableIn
<1>8. Allocatable(x) => Whole(x) /\ Within(x, e) /\ Top(x) < AddressMod
  <2> SUFFICES ASSUME Allocatable(x) PROVE Whole(x) /\ Within(x, e) /\ Top(x) < AddressMod
    OBVIOUS
  <2>1. /\ AlignedTo(x, r) /\ Top(r) < AddressMod /\ e.Extended /\ Allocatable(e)
    BY <1>2
  <2>2. /\ Multiple(x.Address) /\ Multiple(x.Size) /\ e.BaseAddress <= x.Address
        /\ Top(x) <= e.BaseAddress + e.Length /\ e.BaseAddress + e.Length < AddressMod
    BY <1>4, <2>1 DEF AlignedTo
  <2>3. Top(x) < AddressMod
    BY <1>3, <1>5, <2>2, Modulus
  <2> QED
    BY <1>3, <2>1, <2>2, <2>3 DEF Whole, Within
<1> HIDE DEF e
<1>9. \A k \in UsableIn(t) : Whole(t[k]) /\ Placed(map, n, t[k])
  <2> SUFFICES ASSUME NEW k \in UsableIn(t) PROVE Whole(t[k]) /\ Placed(map, n, t[k])
    OBVIOUS
  <2>1. CASE k = c
    <3>1. Allocatable(x) /\ t[k] = x
      BY <1>6, <2>1 DEF UsableIn
    <3> QED
      BY <1>1, <1>8, <3>1 DEF Placed, e
  <2>2. CASE k \in UsableIn(q) /\ t[k] = q[k]
    BY <1>1, <2>2 DEF Collected, Placed
  <2> QED
    BY <1>7, <2>1, <2>2
<1>10. ASSUME NEW k \in UsableIn(q), Allocatable(x)
       PROVE  Top(q[k]) <= x.Address \/ Top(x) <= q[k].Address
  <2>1. PICK l \in 1 .. n - 1 : Within(q[k], map[l])
    BY <1>1 DEF Collected, Placed
  <2>2. l \in 1 .. Len(map) /\ l # n /\ Len(map) \in Nat
    BY <1>1, EntryIs
  <2>3. /\ map[l].BaseAddress + map[l].Length <= e.BaseAddress
           \/ e.BaseAddress + e.Length <= map[l].BaseAddress
        /\ map[l].BaseAddress \in Nat /\ map[l].Length \in Nat
    BY <2>2, BiosAssumption, EntryIs DEF e
  <2>4. k \in 1 .. Len(q) /\ q[k].Address \in Nat /\ Top(q[k]) \in Nat
    BY <1>1, RegionIn DEF UsableIn
  <2>5. /\ map[l].BaseAddress <= q[k].Address /\ Top(q[k]) <= map[l].BaseAddress + map[l].Length
        /\ e.BaseAddress <= x.Address /\ Top(x) <= e.BaseAddress + e.Length
    BY <1>8, <1>10, <2>1 DEF Within
  <2>6. Top(x) \in Nat
    BY <1>3
  <2> DEFINE lb == map[l].BaseAddress
             ll == map[l].Length
             eb == e.BaseAddress
             el == e.Length
             xa == x.Address
             xt == Top(x)
             qa == q[k].Address
             qt == Top(q[k])
  <2>7. /\ lb \in Nat /\ ll \in Nat /\ eb \in Nat /\ el \in Nat
        /\ xa \in Nat /\ xt \in Nat /\ qa \in Nat /\ qt \in Nat
        /\ lb + ll <= eb \/ eb + el <= lb
        /\ lb <= qa /\ qt <= lb + ll /\ eb <= xa /\ xt <= eb + el
    BY <1>3, <1>5, <2>3, <2>4, <2>5, <2>6
  <2>8. qt <= xa \/ xt <= qa
    <3> HIDE DEF lb, ll, eb, el, xa, xt, qa, qt
    <3> QED
      BY <2>7
  <2> QED
    BY <2>8
<1>11. \A k, l \in UsableIn(t) : k # l => Top(t[k]) <= t[l].Address \/ Top(t[l]) <= t[k].Address
  <2> SUFFICES ASSUME NEW k \in UsableIn(t), NEW l \in UsableIn(t), k # l
               PROVE  Top(t[k]) <= t[l].Address \/ Top(t[l]) <= t[k].Address
    OBVIOUS
  <2>1. CASE k = c
    <3>1. t[k] = x /\ Allocatable(x) /\ l \in UsableIn(q) /\ t[l] = q[l]
      BY <1>6, <1>7, <2>1 DEF UsableIn
    <3> QED
      BY <1>10, <3>1
  <2>2. CASE l = c
    <3>1. t[l] = x /\ Allocatable(x) /\ k \in UsableIn(q) /\ t[k] = q[k]
      BY <1>6, <1>7, <2>2 DEF UsableIn
    <3> QED
      BY <1>10, <3>1
  <2>3. CASE k # c /\ l # c
    BY <1>7, <2>3 DEF Collected
  <2> QED
    BY <2>1, <2>2, <2>3
<1>12. NothingLost(map, n, t, <<>>)
  <2> SUFFICES ASSUME NEW a \in Frames, Free(map, n, <<>>, a)
               PROVE  \E k \in 1 .. Len(t) : Holds(t[k], a)
    BY DEF NothingLost
  <2>1. PICK l \in 1 .. n : Within(Frame(a), map[l])
    BY DEF Free
  <2>2. CASE l = n
    <3>1. /\ e.Extended /\ Allocatable(e) /\ e.BaseAddress <= a
          /\ a + FrameSize <= e.BaseAddress + e.Length
      BY <2>1, <2>2 DEF Within, Frame, Top, e
    <3>2. Holds(r, a)
      BY <1>4, <3>1 DEF Holds, Allocatable
    <3>3. Holds(x, a)
      BY <1>2, <3>1, <3>2 DEF AlignedTo
    <3>4. c \in 1 .. Len(t)
      BY <1>1, <1>6
    <3> QED
      BY <1>6, <3>3, <3>4
  <2>3. CASE l # n
    <3>1. l \in 1 .. n - 1
      BY <1>1, <2>3
    <3>2. Free(map, n - 1, <<>>, a)
      BY <2>1, <3>1 DEF Free
    <3>3. PICK k \in 1 .. Len(q) : Holds(q[k], a)
      BY <3>2 DEF Collected, NothingLost
    <3>4. k \in 1 .. Len(t) /\ t[k] = q[k]
      BY <1>1, <1>6
    <3> QED
      BY <3>3, <3>4
  <2> QED
    BY <2>2, <2>3
<1>13. Len(t) <= n
  BY <1>1, <1>6
<1>14. Collected(map, n, t)
  BY <1>6, <1>9, <1>11, <1>12, <1>13 DEF Collected
<1> QED
  BY <1>14 DEF t, x, e

-----------------------------------------------------------------------------
\* The invariant

LEMMA MapInvInit == Init => MapInv
<1> SUFFICES ASSUME Init PROVE MapInv
  OBVIOUS
<1>1. bios \in BiosMaps /\ pc = "transform" /\ i = 1 /\ regs = <<>>
  BY DEF Init
<1>2. Len(bios) \in Nat
  BY <1>1, EntryIs
<1>3. i \in 1 .. Len(bios) + 1 /\ i - 1 = 0
  BY <1>1, <1>2
<1>4. Collected(bios, i - 1, regs)
  BY <1>1, <1>3, CollectBegins
<1> QED
  BY <1>1, <1>3, <1>4 DEF MapInv

LEMMA TransformStep == MapInv /\ (TransformEntry \/ BeginSort) => MapInv'
<1> SUFFICES ASSUME MapInv, TransformEntry \/ BeginSort PROVE MapInv'
  OBVIOUS
<1>1. /\ bios \in BiosMaps /\ pc = "transform" /\ bios' = bios
      /\ i \in 1 .. Len(bios) + 1 /\ Collected(bios, i - 1, regs)
  BY DEF MapInv, TransformEntry, BeginSort
<1>2. Len(bios) \in Nat
  BY <1>1, EntryIs
<1>3. CASE TransformEntry
  <2> DEFINE skip == bios[i].BaseAddress >= AddressMod \/ Transformed(bios[i]).Size = 0
  <2>1. /\ i \in 1 .. Len(bios) /\ i' = i + 1 /\ pc' = "transform"
        /\ regs' = IF skip THEN regs ELSE Append(regs, Transformed(bios[i]))
    BY <1>1, <1>2, <1>3 DEF TransformEntry
  <2>2. Collected(bios, i, regs')
    <3>1. CASE skip
      BY <1>1, <2>1, <3>1, EntrySkipped
    <3>2. CASE ~skip
      <4>1. bios[i].BaseAddress \in Nat /\ AddressMod \in Nat
        BY <1>1, <2>1, EntryIs, Modulus
      <4>2. bios[i].BaseAddress < AddressMod /\ Transformed(bios[i]).Size # 0
        BY <3>2, <4>1
      <4> QED
        BY <1>1, <2>1, <3>2, <4>2, EntryAdded
    <3> QED
      BY <3>1, <3>2
  <2>3. i' \in 1 .. Len(bios) + 1 /\ i' - 1 = i
    BY <1>2, <2>1
  <2> QED
    BY <1>1, <2>1, <2>2, <2>3 DEF MapInv
<1>4. CASE BeginSort
  <2>1. /\ i > Len(bios) /\ pc' = "sort" /\ regs' = regs
        /\ i' = 1 /\ j' = 1 /\ swapped' = FALSE
    BY <1>4 DEF BeginSort
  <2>2. i - 1 = Len(bios)
    BY <1>1, <1>2, <2>1
  <2>3. Collected(bios, Len(bios), regs) /\ regs \in Seq(Region)
    BY <1>1, <2>2 DEF Collected
  <2>4. SortedSoFar(regs', i', j', swapped')
    BY <2>1, <2>3, SortBegins
  <2> QED
    BY <1>1, <2>1, <2>3, <2>4 DEF MapInv
<1> QED
  BY <1>3, <1>4

LEMMA SortStep == MapInv /\ (CompareNeighbours \/ NextPass \/ EndSort) => MapInv'
<1> SUFFICES ASSUME MapInv, CompareNeighbours \/ NextPass \/ EndSort PROVE MapInv'
  OBVIOUS
<1>1. /\ bios \in BiosMaps /\ pc = "sort" /\ bios' = bios
      /\ Collected(bios, Len(bios), regs) /\ SortedSoFar(regs, i, j, swapped)
  BY DEF MapInv, CompareNeighbours, NextPass, EndSort
<1>2. regs \in Seq(Region) /\ Len(regs) \in Nat /\ i \in Nat /\ j \in Nat
  BY <1>1, LenProperties DEF Collected, SortedSoFar
<1>3. CASE CompareNeighbours
  <2> DEFINE swap == regs[j].Address >= regs[j + 1].Address
  <2>1. /\ i < Len(regs) /\ j <= Len(regs) - i /\ pc' = "sort" /\ i' = i /\ j' = j + 1
        /\ regs' = Compared(regs, j) /\ swapped' = (swapped \/ swap)
    BY <1>1, <1>3 DEF CompareNeighbours, Compared, Swapped
  <2>2. /\ Collected(bios, Len(bios), Compared(regs, j))
        /\ SortedSoFar(Compared(regs, j), i, j + 1, swapped \/ swap)
    BY <1>1, <2>1, CompareKeeps
  <2> HIDE DEF swap
  <2>3. Collected(bios, Len(bios), regs') /\ SortedSoFar(regs', i', j', swapped')
    BY <2>1, <2>2
  <2> QED
    BY <1>1, <2>1, <2>3 DEF MapInv
<1>4. CASE NextPass
  <2>1. /\ i < Len(regs) /\ j > Len(regs) - i /\ pc' = "sort" /\ regs' = regs
        /\ i' = i + 1 /\ j' = 1 /\ swapped' = FALSE
    BY <1>1, <1>2, <1>4 DEF NextPass, Sorted
  <2>2. SortedSoFar(regs, i + 1, 1, FALSE)
    BY <1>1, <1>2, <2>1, PassKeeps
  <2>3. SortedSoFar(regs', i', j', swapped')
    BY <2>1, <2>2
  <2> QED
    BY <1>1, <2>1, <2>3 DEF MapInv
<1>5. CASE EndSort
  <2>1. /\ i >= Len(regs) \/ (j > Len(regs) - i /\ ~swapped)
        /\ pc' = "remove" /\ regs' = regs /\ rmRegs' = extraMemRegs /\ i' = 1 /\ j' = 1
    BY <1>5 DEF EndSort, Sorted
  <2>2. \A k, l \in 1 .. Len(regs) : k < l => regs[k].Address <= regs[l].Address
    BY <1>1, <1>2, <2>1, SortEnds
  <2>3. FirstCall(bios, regs, extraMemRegs, 1, 1)
    BY <1>1, <2>2, FirstBegins
  <2>4. FirstCall(bios', regs', rmRegs', i', j')
    BY <1>1, <2>1, <2>3
  <2> QED
    BY <1>1, <2>1, <2>4 DEF MapInv
<1> QED
  BY <1>3, <1>4, <1>5

\* A step that keeps Cutting, and the budget of regions, keeps either call.
LEMMA CallKeeps ==
    ASSUME NEW map, NEW q, NEW t, NEW rm, NEW p, NEW s, NEW u, NEW v,
           Cutting(map, q, rm, p, s) => Cutting(map, t, rm, u, v),
           ClearOfExtra(q) => ClearOfExtra(t),
           Len(map) \in Nat,
           Cutting(map, q, rm, p, s) =>
               \A total \in Nat : Fits(q, rm, p, s, total) => Fits(t, rm, u, v, total)
    PROVE  /\ FirstCall(map, q, rm, p, s) => FirstCall(map, t, rm, u, v)
           /\ SecondCall(map, q, rm, p, s) => SecondCall(map, t, rm, u, v)
<1>1. Len(extraMemRegs) \in Nat
  BY ReservedAssumption, LenProperties
<1>2. Len(map) + Len(extraMemRegs) \in Nat
  BY <1>1
<1>3. FirstCall(map, q, rm, p, s) => FirstCall(map, t, rm, u, v)
  BY <1>2 DEF FirstCall
<1>4. ASSUME SecondCall(map, q, rm, p, s) PROVE SecondCall(map, t, rm, u, v)
  <2>1. PICK count \in 0 .. Len(map) + Len(extraMemRegs) :
            rm = <<MapRegion(count)>> /\ Fits(q, rm, p, s, count + 1)
    BY <1>4 DEF SecondCall
  <2>2. count + 1 \in Nat
    BY <2>1
  <2>3. Fits(t, rm, u, v, count + 1)
    BY <1>4, <2>1, <2>2 DEF SecondCall
  <2> QED
    BY <1>4, <2>1, <2>3 DEF SecondCall
<1> QED
  BY <1>3, <1>4

LEMMA RemoveStep == MapInv /\ (SkipRegion \/ RemoveRange \/ NextRegion) => MapInv'
<1> SUFFICES ASSUME MapInv, SkipRegion \/ RemoveRange \/ NextRegion PROVE MapInv'
  OBVIOUS
<1>1. /\ bios \in BiosMaps /\ bios' = bios /\ pc' = pc /\ rmRegs' = rmRegs
      /\ pc \in {"remove", "removeMap"} /\ i <= Len(regs)
  BY DEF MapInv, SkipRegion, RemoveRange, NextRegion, Removing
<1>2. /\ pc = "remove" => FirstCall(bios, regs, rmRegs, i, j)
      /\ pc = "removeMap" => SecondCall(bios, regs, rmRegs, i, j)
  BY DEF MapInv
<1>3. Cutting(bios, regs, rmRegs, i, j)
  BY <1>1, <1>2 DEF FirstCall, SecondCall
<1>4. /\ regs \in Seq(Region) /\ rmRegs \in Seq(Region) /\ Len(regs) \in Nat /\ Len(rmRegs) \in Nat
      /\ i \in 1 .. Len(regs) /\ j \in 1 .. Len(rmRegs) + 1 /\ Len(bios) \in Nat
  BY <1>1, <1>3, LenProperties, EntryIs DEF Cutting
<1>5. SUFFICES /\ FirstCall(bios, regs, rmRegs, i, j) => FirstCall(bios, regs', rmRegs, i', j')
               /\ SecondCall(bios, regs, rmRegs, i, j) => SecondCall(bios, regs', rmRegs, i', j')
  BY <1>1, <1>2 DEF MapInv
<1>6. CASE SkipRegion \/ NextRegion
  <2>1. regs' = regs /\ i' = i + 1 /\ j' = 1 /\ (j > Len(rmRegs) \/ ~Allocatable(regs[i]))
    BY <1>6 DEF SkipRegion, NextRegion
  <2>2. /\ Cutting(bios, regs, rmRegs, i + 1, 1)
        /\ \A total \in Nat : Fits(regs, rmRegs, i, j, total) => Fits(regs, rmRegs, i + 1, 1, total)
    BY <1>3, <1>4, <2>1, NextKeeps
  <2>3. /\ FirstCall(bios, regs, rmRegs, i, j) => FirstCall(bios, regs, rmRegs, i + 1, 1)
        /\ SecondCall(bios, regs, rmRegs, i, j) => SecondCall(bios, regs, rmRegs, i + 1, 1)
    BY <1>4, <2>2, CallKeeps
  <2> QED
    BY <2>1, <2>3
<1>7. CASE RemoveRange
  <2> DEFINE t == Spliced(regs, i, Cut(regs[i], rmRegs[j]))
  <2>1. /\ regs' = t /\ i' = i /\ j' = j + 1 /\ j \in 1 .. Len(rmRegs)
        /\ j > 1 \/ Allocatable(regs[i])
    BY <1>4, <1>7 DEF RemoveRange, Spliced
  <2> HIDE DEF t
  <2>2. /\ Cutting(bios, t, rmRegs, i, j + 1)
        /\ ClearOfExtra(regs) => ClearOfExtra(t)
        /\ \A total \in Nat : Fits(regs, rmRegs, i, j, total) => Fits(t, rmRegs, i, j + 1, total)
    BY <1>1, <1>3, <1>4, <2>1, CutKeeps DEF t
  <2>3. /\ FirstCall(bios, regs, rmRegs, i, j) => FirstCall(bios, t, rmRegs, i, j + 1)
        /\ SecondCall(bios, regs, rmRegs, i, j) => SecondCall(bios, t, rmRegs, i, j + 1)
    BY <1>4, <2>2, CallKeeps
  <2> QED
    BY <2>1, <2>3
<1> QED
  BY <1>6, <1>7

LEMMA EndStep == MapInv /\ (EndRemove \/ EndRemoveMap \/ Install) => MapInv'
<1> SUFFICES ASSUME MapInv, EndRemove \/ EndRemoveMap \/ Install PROVE MapInv'
  OBVIOUS
<1>1. bios \in BiosMaps /\ bios' = bios
  BY DEF MapInv, EndRemove, EndRemoveMap, Install
<1>2. CASE EndRemove
  <2>1. /\ FirstCall(bios, regs, rmRegs, i, j) /\ i > Len(regs)
        /\ regs' = [k \in 1 .. Len(regs) |-> Aligned(regs[k])] /\ pc' = "removeMap"
        /\ rmRegs' = <<MapRegion(Len(regs))>> /\ i' = 1 /\ j' = 1
    BY <1>2 DEF MapInv, EndRemove, AlignRegions
  <2>2. SecondCall(bios, [k \in 1 .. Len(regs) |-> Aligned(regs[k])],
                   <<MapRegion(Len(regs))>>, 1, 1)
    BY <1>1, <2>1, FirstEnds
  <2>3. SecondCall(bios', regs', rmRegs', i', j')
    BY <1>1, <2>1, <2>2
  <2> QED
    BY <1>1, <2>1, <2>3 DEF MapInv
<1>3. CASE EndRemoveMap
  <2>1. /\ SecondCall(bios, regs, rmRegs, i, j) /\ i > Len(regs)
        /\ regs' = [k \in 1 .. Len(regs) |-> Aligned(regs[k])] /\ pc' = "install"
        /\ rmRegs' = rmRegs
    BY <1>3 DEF MapInv, EndRemoveMap, AlignRegions
  <2>2. Finished(bios, [k \in 1 .. Len(regs) |-> Aligned(regs[k])], rmRegs)
    BY <1>1, <2>1, SecondEnds
  <2>3. Finished(bios', regs', rmRegs')
    BY <1>1, <2>1, <2>2
  <2> QED
    BY <1>1, <2>1, <2>3 DEF MapInv
<1>4. CASE Install
  <2>1. /\ Finished(bios, regs, rmRegs) /\ pc' = "done" /\ regs' = regs /\ rmRegs' = rmRegs
        /\ data' = [k \in 1 .. Len(regs) |-> FirstData(regs[k])]
    BY <1>4 DEF MapInv, Install
  <2>2. Finished(bios', regs', rmRegs')
    BY <1>1, <2>1
  <2>3. data' = [k \in 1 .. Len(regs') |-> FirstData(regs'[k])]
    BY <2>1
  <2> QED
    BY <1>1, <2>1, <2>2, <2>3 DEF MapInv
<1> QED
  BY <1>2, <1>3, <1>4

LEMMA MapInvNext == MapInv /\ [Next]_vars => MapInv'
<1>1. MapInv /\ UNCHANGED vars => MapInv'
  <2> SUFFICES ASSUME MapInv, UNCHANGED vars PROVE MapInv'
    OBVIOUS
  <2>1. /\ bios' = bios /\ pc' = pc /\ regs' = regs /\ rmRegs' = rmRegs /\ i' = i /\ j' = j
        /\ swapped' = swapped /\ data' = data
    BY DEF vars
  <2> QED
    BY <2>1 DEF MapInv
<1> QED
  BY <1>1, TransformStep, SortStep, RemoveStep, EndStep DEF Next

\* Whatever the BIOS reports and the kernel reserves, the array passes through the stages
\* that MapInv describes (memory.c:10-143).
THEOREM MapInvAlways == Spec => []MapInv
<1> QED
  BY MapInvInit, MapInvNext, PTL DEF Spec

-----------------------------------------------------------------------------
\* What the allocator gets

LEMMA BytesApart ==
    ASSUME NEW x \in Nat, NEW n \in Nat, NEW y \in Nat, NEW m \in Nat
    PROVE  Bytes(x, n) \cap Bytes(y, m) = {} <=>
               n = 0 \/ m = 0 \/ x + n <= y \/ y + m <= x
<1>1. ASSUME n = 0 \/ m = 0 \/ x + n <= y \/ y + m <= x
      PROVE  Bytes(x, n) \cap Bytes(y, m) = {}
  BY <1>1 DEF Bytes
<1>2. ASSUME n # 0, m # 0, y < x + n, x < y + m, Bytes(x, n) \cap Bytes(y, m) = {}
      PROVE  FALSE
  <2>1. CASE x <= y
    <3>1. y \in Bytes(x, n) \cap Bytes(y, m)
      BY <1>2, <2>1 DEF Bytes
    <3> QED
      BY <1>2, <3>1
  <2>2. CASE y <= x
    <3>1. x \in Bytes(x, n) \cap Bytes(y, m)
      BY <1>2, <2>2 DEF Bytes
    <3> QED
      BY <1>2, <3>1
  <2> QED
    BY <2>1, <2>2
<1> QED
  BY <1>1, <1>2

\* All that the allocator writes in a region is in it.
LEMMA WrittenInside ==
    ASSUME MapInv, pc = "done", NEW k \in UsableIn(regs)
    PROVE  /\ regs[k] \in Region /\ Laid(regs[k])
           /\ data[k] = FirstData(regs[k]) /\ data[k] % FrameSize = 0
           /\ \A a \in Descriptors(k) \cup DataFrames(k) :
                 a \in Nat /\ regs[k].Address <= a /\ a < Top(regs[k])
           /\ Descriptors(k) \cap DataFrames(k) = {}
<1>1. /\ Finished(bios, regs, rmRegs) /\ data = [n \in 1 .. Len(regs) |-> FirstData(regs[n])]
  BY DEF MapInv
<1>2. regs \in Seq(Region) /\ k \in 1 .. Len(regs)
  BY <1>1 DEF Finished, UsableIn
<1> DEFINE r == regs[k]
           D == FramesCount(r) * DescriptorSize
           F == FramesCount(r) * FrameSize
<1>3. /\ r \in Region /\ r.Address \in Nat /\ Top(r) \in Nat /\ r.Address <= Top(r)
  BY <1>2, RegionIn
<1>4. Top(r) < AddressMod /\ Multiple(r.Address) /\ Multiple(r.Size)
  BY <1>1 DEF Finished, Placed
<1>5. Laid(r)
  BY <1>3, <1>4, LaidOut
<1>6. data[k] = FirstData(r)
  BY <1>1, <1>2
<1>7. /\ D \in Nat /\ F \in Nat /\ data[k] \in Nat /\ Multiple(data[k])
      /\ r.Address + D <= data[k] /\ data[k] + F <= Top(r)
  BY <1>5, <1>6 DEF Laid
<1>8. Descriptors(k) = Bytes(r.Address, D) /\ DataFrames(k) = Bytes(data[k], F)
  BY DEF Descriptors, DataFrames
<1> HIDE DEF r, D, F
<1>9. \A a \in Descriptors(k) \cup DataFrames(k) : a \in Nat /\ r.Address <= a /\ a < Top(r)
  BY <1>3, <1>7, <1>8 DEF Bytes
<1>10. Descriptors(k) \cap DataFrames(k) = {}
  BY <1>3, <1>7, <1>8, BytesApart
<1> QED
  BY <1>3, <1>5, <1>6, <1>7, <1>9, <1>10 DEF r, Multiple

\* No region has a byte of the reserved ranges or of the array of regions.
LEMMA TakenOutside ==
    ASSUME MapInv, pc = "done", NEW k \in UsableIn(regs), NEW a \in Nat,
           regs[k].Address <= a, a < Top(regs[k])
    PROVE  a \notin Taken
<1>1. Finished(bios, regs, rmRegs) /\ bios \in BiosMaps
  BY DEF MapInv
<1>2. PICK count \in 0 .. Len(bios) + Len(extraMemRegs) :
          rmRegs = <<MapRegion(count)>> /\ Len(regs) <= count + 1
  BY <1>1 DEF Finished
<1>3. /\ regs \in Seq(Region) /\ k \in 1 .. Len(regs) /\ Len(regs) \in Nat /\ count \in Nat
  BY <1>1, <1>2, LenProperties DEF Finished, UsableIn
<1>4. regs[k].Address \in Nat /\ Top(regs[k]) \in Nat
  BY <1>3, RegionIn
<1>5. ASSUME NEW reg \in Region, Clear(regs[k], reg) PROVE a \notin Bytes(reg.Address, reg.Size)
  <2>1. reg.Address \in Nat /\ reg.Size \in Nat /\ Top(reg) = reg.Address + reg.Size
    BY DEF Region, Top
  <2>2. reg.Size = 0 \/ Top(regs[k]) <= reg.Address \/ Top(reg) <= regs[k].Address
    BY <1>5 DEF Clear
  <2> QED
    BY <1>4, <2>1, <2>2 DEF Bytes
<1>6. ASSUME NEW m \in 1 .. Len(extraMemRegs)
      PROVE  a \notin Bytes(extraMemRegs[m].Address, extraMemRegs[m].Size)
  <2>1. extraMemRegs[m] \in Region
    BY ReservedAssumption, ElementOfSeq
  <2>2. Clear(regs[k], extraMemRegs[m])
    BY <1>1 DEF Finished, ClearOfExtra
  <2> QED
    BY <1>5, <2>1, <2>2
<1>7. a \notin Bytes(MemoryMapAddress, RegionSize * Len(regs))
  <2> DEFINE x == RegionSize * Len(regs)
             y == RegionSize * (count + 2)
  <2>1. /\ MapRegion(count) \in Region /\ MapRegion(count).Address = MemoryMapAddress
        /\ MapRegion(count).Size = y
    BY <1>1, MapRegionIs
  <2>2. Clear(regs[k], MapRegion(count))
    <3>1. rmRegs[1] = MapRegion(count)
      BY <1>2
    <3> QED
      BY <1>1, <3>1 DEF Finished
  <2>3. a \notin Bytes(MemoryMapAddress, y)
    BY <1>5, <2>1, <2>2
  <2>4. x <= y /\ x \in Nat /\ y \in Nat
    <3>1. RegionSize \in Nat
      BY SizesAssumption
    <3>2. Len(regs) <= count + 2 /\ count + 2 \in Nat
      BY <1>2, <1>3
    <3>3. Len(regs) * RegionSize <= (count + 2) * RegionSize
      BY <1>3, <3>1, <3>2, TimesLeq
    <3>4. ASSUME NEW u \in Nat, NEW v \in Nat PROVE u * v = v * u /\ u * v \in Nat
      BY SMT
    <3> QED
      BY <1>3, <3>1, <3>2, <3>3, <3>4
  <2>5. MemoryMapAddress \in Nat
    BY SizesAssumption
  <2> HIDE DEF x, y
  <2>6. a \notin Bytes(MemoryMapAddress, x)
    BY <2>3, <2>4, <2>5 DEF Bytes
  <2> QED
    BY <2>6 DEF x
<1> QED
  BY <1>6, <1>7 DEF Taken

LEMMA OnlyFreeIfMapInv == MapInv => OnlyFreeMemory
<1> SUFFICES ASSUME MapInv, pc = "done", NEW k \in Usable
             PROVE  /\ Descriptors(k) \cup DataFrames(k)
                          \subseteq UNION {Offered(l) : l \in 1 .. Len(bios)}
                    /\ (Descriptors(k) \cup DataFrames(k)) \cap Taken = {}
                    /\ FramesCount(regs[k]) > 0 => data[k] % FrameSize = 0
                    /\ Descriptors(k) \cap DataFrames(k) = {}
                    /\ \A l \in Usable :
                          k < l => \A a \in Descriptors(k) \cup DataFrames(k) :
                                      \A b \in Descriptors(l) \cup DataFrames(l) : a < b
  BY DEF OnlyFreeMemory
<1>1. Usable = UsableIn(regs)
  BY DEF Usable, UsableIn
<1>2. Finished(bios, regs, rmRegs) /\ bios \in BiosMaps
  BY DEF MapInv
<1>3. ASSUME NEW l \in Usable
      PROVE  /\ regs[l].Address \in Nat /\ Top(regs[l]) \in Nat
             /\ \A a \in Descriptors(l) \cup DataFrames(l) :
                   a \in Nat /\ regs[l].Address <= a /\ a < Top(regs[l])
  <2>1. l \in 1 .. Len(regs) /\ regs \in Seq(Region)
    BY <1>2 DEF Usable, Finished
  <2> QED
    BY <1>1, <2>1, RegionIn, WrittenInside
<1>4. Descriptors(k) \cup DataFrames(k) \subseteq UNION {Offered(l) : l \in 1 .. Len(bios)}
  <2>1. PICK l \in 1 .. Len(bios) : Within(regs[k], bios[l])
    BY <1>1, <1>2 DEF Finished, Placed
  <2>2. bios[l].BaseAddress \in Nat /\ bios[l].Length \in Nat
    BY <1>2, EntryIs
  <2>3. Top(regs[k]) < AddressMod
    BY <1>1, <1>2 DEF Finished, Placed
  <2>4. ASSUME NEW a \in Descriptors(k) \cup DataFrames(k) PROVE a \in Offered(l)
    <3>1. a \in Nat /\ regs[k].Address <= a /\ a < Top(regs[k])
      BY <1>3
    <3>2. /\ bios[l].Extended /\ Allocatable(bios[l]) /\ bios[l].BaseAddress <= regs[k].Address
          /\ Top(regs[k]) <= bios[l].BaseAddress + bios[l].Length
      BY <2>1 DEF Within
    <3>3. a < AddressMod /\ bios[l].BaseAddress <= a /\ a < bios[l].BaseAddress + bios[l].Length
      BY <1>3, <2>2, <2>3, <3>1, <3>2, Modulus
    <3> QED
      BY <2>2, <3>1, <3>2, <3>3, Modulus DEF Offered, Bytes
  <2> QED
    BY <2>4
<1>5. (Descriptors(k) \cup DataFrames(k)) \cap Taken = {}
  BY <1>1, <1>3, TakenOutside
<1>6. FramesCount(regs[k]) > 0 => data[k] % FrameSize = 0
  BY <1>1, WrittenInside
<1>7. Descriptors(k) \cap DataFrames(k) = {}
  BY <1>1, WrittenInside
<1>8. ASSUME NEW l \in Usable, k < l, NEW a \in Descriptors(k) \cup DataFrames(k),
             NEW b \in Descriptors(l) \cup DataFrames(l)
      PROVE  a < b
  <2>1. Top(regs[k]) <= regs[l].Address
    BY <1>1, <1>2, <1>8 DEF Finished, Ordered
  <2> QED
    BY <1>3, <2>1
<1> QED
  BY <1>4, <1>5, <1>6, <1>7, <1>8

LEMMA NothingLostIfMapInv == MapInv => NoFrameIsLost
<1> SUFFICES ASSUME MapInv, pc = "done", NEW f \in 0 .. AddressMod \div FrameSize - 1,
                    Bytes(f * FrameSize, FrameSize)
                        \cap (Taken \cup Bytes(MemoryMapAddress, rmRegs[1].Size)) = {},
                    NEW l \in 1 .. Len(bios), Bytes(f * FrameSize, FrameSize) \subseteq Offered(l)
             PROVE  \E k \in Usable : Bytes(f * FrameSize, FrameSize)
                                         \subseteq Bytes(regs[k].Address, regs[k].Size)
  BY DEF NoFrameIsLost
<1> DEFINE a == f * FrameSize
<1>1. Finished(bios, regs, rmRegs) /\ bios \in BiosMaps
  BY DEF MapInv
<1>2. a \in Frames
  BY DEF Frames
<1>3. a \in Nat /\ FrameSize \in Nat \ {0}
  BY <1>2, FrameIs, Modulus
<1> HIDE DEF a
<1>4. /\ Bytes(a, FrameSize) \cap (Taken \cup Bytes(MemoryMapAddress, rmRegs[1].Size)) = {}
      /\ Bytes(a, FrameSize) \subseteq Offered(l)
  BY DEF a
<1>5. ASSUME NEW reg \in Region, Bytes(a, FrameSize) \cap Bytes(reg.Address, reg.Size) = {}
      PROVE  Clear(Frame(a), reg)
  <2>1. reg.Address \in Nat /\ reg.Size \in Nat /\ Top(reg) = reg.Address + reg.Size
    BY DEF Region, Top
  <2>2. FrameSize = 0 \/ reg.Size = 0 \/ a + FrameSize <= reg.Address
        \/ reg.Address + reg.Size <= a
    <3> DEFINE x == reg.Address
               n == reg.Size
    <3>1. x \in Nat /\ n \in Nat /\ Bytes(a, FrameSize) \cap Bytes(x, n) = {}
      BY <1>5, <2>1
    <3> HIDE DEF x, n
    <3>2. FrameSize = 0 \/ n = 0 \/ a + FrameSize <= x \/ x + n <= a
      BY <1>3, <3>1, BytesApart
    <3> QED
      BY <3>2 DEF x, n
  <2> QED
    BY <1>3, <2>2 DEF Clear, Frame, Top
<1>6. Within(Frame(a), bios[l])
  <2>1. a \in Bytes(a, FrameSize) /\ a + FrameSize - 1 \in Bytes(a, FrameSize)
    BY <1>3 DEF Bytes
  <2>2. a \in Offered(l) /\ a + FrameSize - 1 \in Offered(l)
    BY <1>4, <2>1
  <2>3. /\ bios[l].Extended /\ Allocatable(bios[l])
        /\ a \in Bytes(bios[l].BaseAddress, bios[l].Length)
        /\ a + FrameSize - 1 \in Bytes(bios[l].BaseAddress, bios[l].Length)
    BY <2>2 DEF Offered
  <2>4. bios[l].BaseAddress \in Nat /\ bios[l].Length \in Nat
    BY <1>1, EntryIs
  <2>5. bios[l].BaseAddress <= a /\ a + FrameSize <= bios[l].BaseAddress + bios[l].Length
    BY <1>3, <2>3, <2>4 DEF Bytes
  <2> QED
    BY <2>3, <2>5 DEF Within, Frame, Top
<1>7. \A m \in 1 .. Len(extraMemRegs) : Clear(Frame(a), extraMemRegs[m])
  <2> SUFFICES ASSUME NEW m \in 1 .. Len(extraMemRegs) PROVE Clear(Frame(a), extraMemRegs[m])
    OBVIOUS
  <2>1. extraMemRegs[m] \in Region
    BY ReservedAssumption, ElementOfSeq
  <2>2. Bytes(a, FrameSize) \cap Bytes(extraMemRegs[m].Address, extraMemRegs[m].Size) = {}
    BY <1>4 DEF Taken
  <2> QED
    BY <1>5, <2>1, <2>2
<1>8. \A m \in 1 .. Len(rmRegs) : Clear(Frame(a), rmRegs[m])
  <2>1. PICK count \in 0 .. Len(bios) + Len(extraMemRegs) : rmRegs = <<MapRegion(count)>>
    BY <1>1 DEF Finished
  <2>2. rmRegs[1] = MapRegion(count) /\ Len(rmRegs) = 1
    BY <2>1
  <2>3. rmRegs[1] \in Region /\ rmRegs[1].Address = MemoryMapAddress
    BY <1>1, <2>2, MapRegionIs
  <2>4. Clear(Frame(a), rmRegs[1])
    BY <1>4, <1>5, <2>3
  <2> QED
    BY <2>2, <2>4
<1>9. Free(bios, Len(bios), rmRegs, a)
  BY <1>6, <1>7, <1>8 DEF Free
<1>10. PICK k \in 1 .. Len(regs) : Holds(regs[k], a)
  BY <1>1, <1>2, <1>9 DEF Finished, NothingLost
<1>11. k \in Usable
  BY <1>10 DEF Usable, Holds
<1>12. /\ regs[k].Address \in Nat /\ regs[k].Size \in Nat
       /\ Top(regs[k]) = regs[k].Address + regs[k].Size
  BY <1>1, RegionIn DEF Finished
<1>13. Bytes(a, FrameSize) \subseteq Bytes(regs[k].Address, regs[k].Size)
  BY <1>3, <1>10, <1>12 DEF Holds, Bytes
<1> QED
  BY <1>11, <1>13 DEF a

\* Everything the allocator will write lies in memory that the BIOS offers, outside the
\* reserved ranges and the array, and no two regions share a byte, whatever the map, the
\* ranges and the sizes are (memory.c:10-143).
THEOREM OnlyFreeMemoryAlways == Spec => []OnlyFreeMemory
<1> QED
  BY MapInvAlways, OnlyFreeIfMapInv, PTL

\* Every whole frame of the memory that is offered and not taken is in a region, however
\* the ranges cut the entries (memory.c:86-143).
THEOREM NoFrameIsLostAlways == Spec => []NoFrameIsLost
<1> QED
  BY MapInvAlways, NothingLostIfMapInv, PTL

-----------------------------------------------------------------------------
\* The boot loader

-----------------------------------------------------------------------------
\* The invariant

\* The place n bytes after an address, in the segment of that address.
After(address, n) ==
    [seg |-> (address \div Segment) * (Segment \div Paragraph), off |-> (address % Segment) + n]

\* The first n sectors of the kernel, each where it is linked to.
Layout(n) ==
    [k \in 1 .. n |-> [lba |-> kernelSectorLba + k - 1, address |-> BaseAddress + (k - 1) * SectorSize]]

HandedOver(r) == IF r.ending = "zero" THEN r.list ELSE Append(r.list, Unwritten)

KernelLoaded ==
    \E n \in 0 .. Sectors :
        /\ placed = Layout(n)
        /\ stage = "load" /\ n < Sectors => at = After(BaseAddress, n * SectorSize)
        /\ stage \in {"map", "kernel"} => n = Sectors

\* GetMemoryMap before its first call, between two calls, and when it returns.
NothingYet == table = <<>> /\ prevOffset = 0 /\ entriesCount = 0

Between ==
    /\ prevOffset = Len(table) /\ entriesCount = Len(table)
    /\ Len(table) \in 1 .. Len(report.list)
    /\ report.ending = "zero" => Len(table) # Len(report.list)
    /\ table = SubSeq(report.list, 1, Len(table))
    /\ at = After(MemoryMapAddress, ArdSize * Len(table))

Complete ==
    /\ table = HandedOver(report) /\ prevOffset = 0 /\ entriesCount = Len(table)
    /\ at = After(MemoryMapAddress, ArdSize * (Len(table) - 1))

LoaderInv ==
    /\ stage \in {"load", "map", "kernel", "stop"} /\ FileLength \in FileLengths
    /\ KernelLoaded
    /\ stage = "load" => NothingYet
    /\ stage \in {"map", "kernel"} => report \in Reports
    /\ stage = "map" => \/ NothingYet /\ at = After(MemoryMapAddress, 0)
                        \/ Between \/ Complete
    /\ stage = "kernel" => Complete /\ bios = table
    /\ stage # "kernel" => pc = "transform" /\ bios = <<>> /\ regs = <<>> /\ i = 1

BootInv == LoaderInv /\ MapInv

-----------------------------------------------------------------------------
\* Addresses, parts and sectors

LEMMA AfterIs ==
    ASSUME NEW address \in Nat, NEW n \in Nat
    PROVE  /\ Address(After(address, n)) = address + n
           /\ After(address, 0) = SegOff(address)
<1> DEFINE q == address \div Segment
           r == address % Segment
           c == Segment \div Paragraph
<1>1. Segment \in Nat \ {0} /\ Paragraph \in Nat \ {0} /\ Segment % Paragraph = 0
  BY LoaderAssumption
<1>2. c \in Nat /\ Segment = c * Paragraph
  BY <1>1, ModMultiple
<1>3. q \in Nat /\ r \in Nat /\ address = q * Segment + r
  <2>1. \A x \in Nat, m \in Nat \ {0} :
            x \div m \in Nat /\ x % m \in Nat /\ x = (x \div m) * m + (x % m)
    BY SMT
  <2> QED
    BY <1>1, <2>1
<1>4. Address(After(address, n)) = (q * c) * Paragraph + (r + n)
  BY DEF Address, After
<1> HIDE DEF q, r, c
<1>5. (q * c) * Paragraph = q * Segment /\ q * Segment \in Nat
  <2>1. \A x, y, z \in Nat : (x * y) * z = x * (y * z) /\ x * y \in Nat
    BY SMT
  <2> QED
    BY <1>1, <1>2, <1>3, <2>1
<1>6. Address(After(address, n)) = address + n
  BY <1>3, <1>4, <1>5
<1>7. After(address, 0) = SegOff(address)
  BY <1>3 DEF After, SegOff, r
<1> QED
  BY <1>6, <1>7

LEMMA AddIs ==
    ASSUME NEW address \in Nat, NEW n \in Nat, NEW value \in Nat,
           (address % Segment) + n + value < Segment
    PROVE  AddValueToSegOff(After(address, n), value) = After(address, n + value)
<1> DEFINE r == address % Segment
<1>1. r \in Nat /\ Segment \in Nat \ {0} /\ r + n + value < Segment
  BY LoaderAssumption
<1>2. /\ After(address, n).off = r + n
      /\ After(address, n).seg = (address \div Segment) * (Segment \div Paragraph)
      /\ After(address, n + value).off = r + n + value
  BY <1>1 DEF After
<1> HIDE DEF r
<1>3. ~(r + n >= Segment - value) /\ (r + n + value) % Segment = r + n + value
  BY <1>1, ModSmall
<1>4. AddValueToSegOff(After(address, n), value)
          = [seg |-> (address \div Segment) * (Segment \div Paragraph), off |-> r + n + value]
  BY <1>2, <1>3 DEF AddValueToSegOff
<1>5. r + n + value = r + (n + value)
  BY <1>1
<1> QED
  BY <1>4, <1>5 DEF After, r

\* The BIOS reads the sector that ReadSectors means.
LEMMA ChsIs == ASSUME NEW lba \in Nat PROVE LbaOf(LbaToChs(lba)) = lba
<1> DEFINE t == lba \div MaxSectors
<1>1. MaxSectors \in Nat \ {0} /\ Heads \in Nat \ {0}
  BY LoaderAssumption
<1>2. \A x \in Nat, m \in Nat \ {0} :
          x \div m \in Nat /\ x % m \in Nat /\ x = (x \div m) * m + (x % m)
  BY SMT
<1>3. t \in Nat /\ lba % MaxSectors \in Nat /\ lba = t * MaxSectors + (lba % MaxSectors)
  BY <1>1, <1>2
<1>4. LbaOf(LbaToChs(lba))
          = ((t \div Heads) * Heads + (t % Heads)) * MaxSectors + ((lba % MaxSectors) + 1) - 1
  BY DEF LbaOf, LbaToChs
<1> HIDE DEF t
<1>5. t = (t \div Heads) * Heads + (t % Heads)
  BY <1>1, <1>2, <1>3
<1>6. t * MaxSectors \in Nat
  BY <1>1, <1>3, MultipleMod
<1>7. LbaOf(LbaToChs(lba)) = t * MaxSectors + ((lba % MaxSectors) + 1) - 1
  BY <1>4, <1>5
<1> QED
  BY <1>3, <1>6, <1>7

\* A part, read to where the last one ends.
PartAt(n, m) ==
    [k \in 1 .. m |-> [lba     |-> (kernelSectorLba + n) + k - 1,
                       address |-> (BaseAddress + n * SectorSize) + (k - 1) * SectorSize]]

LEMMA LayoutGrows ==
    ASSUME NEW n \in Nat, NEW m \in Nat
    PROVE  Layout(n) \o PartAt(n, m) = Layout(n + m) /\ Len(Layout(n)) = n
<1> DEFINE S == [lba : Int, address : Int]
           a == Layout(n)
           b == PartAt(n, m)
           c == Layout(n + m)
<1>1. kernelSectorLba \in Nat /\ BaseAddress \in Nat /\ SectorSize \in Nat \ {0}
  BY LoaderAssumption
<1>2. \A x \in Int : x * SectorSize \in Int
  BY <1>1, TimesPlus
<1>3. a \in [1 .. n -> S] /\ b \in [1 .. m -> S] /\ c \in [1 .. n + m -> S]
  <2>1. ASSUME NEW x \in Int, NEW y \in Int
        PROVE  [lba |-> x, address |-> y] \in S
    OBVIOUS
  <2>2. \A k \in Int : /\ kernelSectorLba + k - 1 \in Int /\ (kernelSectorLba + n) + k - 1 \in Int
                       /\ BaseAddress + (k - 1) * SectorSize \in Int
                       /\ (BaseAddress + n * SectorSize) + (k - 1) * SectorSize \in Int
    BY <1>1, <1>2
  <2> HIDE DEF S
  <2>3. 1 .. n \subseteq Int /\ 1 .. m \subseteq Int /\ 1 .. n + m \subseteq Int
    OBVIOUS
  <2>4. a \in [1 .. n -> S]
    BY <2>1, <2>2, <2>3 DEF Layout
  <2>5. b \in [1 .. m -> S]
    BY <2>1, <2>2, <2>3 DEF PartAt
  <2>6. c \in [1 .. n + m -> S]
    BY <2>1, <2>2, <2>3 DEF Layout
  <2> QED
    BY <2>4, <2>5, <2>6
<1>4. /\ \A k \in 1 .. n : a[k] = [lba |-> kernelSectorLba + k - 1,
                                   address |-> BaseAddress + (k - 1) * SectorSize]
      /\ \A k \in 1 .. m : b[k] = [lba |-> (kernelSectorLba + n) + k - 1,
                                   address |-> (BaseAddress + n * SectorSize) + (k - 1) * SectorSize]
      /\ \A k \in 1 .. n + m : c[k] = [lba |-> kernelSectorLba + k - 1,
                                       address |-> BaseAddress + (k - 1) * SectorSize]
  BY DEF Layout, PartAt
<1> HIDE DEF a, b, c, S
<1>5. /\ a \in Seq(S) /\ b \in Seq(S) /\ c \in Seq(S)
      /\ Len(a) = n /\ Len(b) = m /\ Len(c) = n + m
  <2>1. ASSUME NEW l \in Nat, NEW f \in [1 .. l -> S] PROVE f \in Seq(S) /\ Len(f) = l
    OBVIOUS
  <2>2. n + m \in Nat
    OBVIOUS
  <2> QED
    BY <1>3, <2>1, <2>2
<1>6. /\ a \o b \in Seq(S) /\ Len(a \o b) = Len(a) + Len(b)
      /\ \A k \in 1 .. Len(a) + Len(b) :
            (a \o b)[k] = IF k <= Len(a) THEN a[k] ELSE b[k - Len(a)]
  BY <1>5, ConcatProperties
<1>7. ASSUME NEW k \in 1 .. n + m PROVE (a \o b)[k] = c[k]
  <2>1. CASE k <= n
    <3>1. k \in 1 .. n
      BY <2>1
    <3> QED
      BY <1>4, <1>5, <1>6, <2>1, <3>1
  <2>2. CASE k > n
    <3>1. k - n \in 1 .. m /\ (a \o b)[k] = b[k - n]
      BY <1>5, <1>6, <2>2
    <3>2. (kernelSectorLba + n) + (k - n) - 1 = kernelSectorLba + k - 1
      BY <1>1
    <3>3. (BaseAddress + n * SectorSize) + ((k - n) - 1) * SectorSize
              = BaseAddress + (k - 1) * SectorSize
      <4> DEFINE x == (k - n) - 1
      <4>1. x \in Int /\ n + x = k - 1
        OBVIOUS
      <4> HIDE DEF x
      <4>2. (n + x) * SectorSize = n * SectorSize + x * SectorSize
            /\ n * SectorSize \in Int /\ x * SectorSize \in Int
        BY <1>1, <4>1, TimesPlus
      <4>3. (BaseAddress + n * SectorSize) + x * SectorSize = BaseAddress + (n + x) * SectorSize
        <5> DEFINE y == n * SectorSize
                   z == x * SectorSize
        <5>1. y \in Int /\ z \in Int /\ (n + x) * SectorSize = y + z
          BY <4>2
        <5> HIDE DEF y, z
        <5>2. (BaseAddress + y) + z = BaseAddress + (y + z)
          BY <1>1, <5>1
        <5> QED
          BY <5>1, <5>2 DEF y, z
      <4> QED
        BY <4>1, <4>3 DEF x
    <3>4. b[k - n] = [lba |-> kernelSectorLba + k - 1, address |-> BaseAddress + (k - 1) * SectorSize]
      <4>1. b[k - n] = [lba |-> (kernelSectorLba + n) + (k - n) - 1,
                        address |-> (BaseAddress + n * SectorSize) + ((k - n) - 1) * SectorSize]
        BY <1>4, <3>1, Zenon
      <4> QED
        BY <3>2, <3>3, <4>1, Zenon
    <3>5. c[k] = [lba |-> kernelSectorLba + k - 1, address |-> BaseAddress + (k - 1) * SectorSize]
      BY <1>4
    <3> QED
      BY <3>1, <3>4, <3>5
  <2>3. k <= n \/ k > n
    OBVIOUS
  <2> QED
    BY <2>1, <2>2, <2>3
<1>8. a \o b = c
  <2>1. Len(a \o b) = n + m /\ Len(c) = n + m
    BY <1>5, <1>6
  <2> QED
    BY <1>5, <1>6, <1>7, <2>1, SeqEqual
<1> QED
  BY <1>5, <1>8 DEF a, b, c

\* The kernel's length in sectors covers the kernel.
LEMMA SectorsAre ==
    ASSUME FileLength \in FileLengths
    PROVE  /\ Sectors \in Nat /\ FileLength <= Sectors * SectorSize
           /\ MemoryMapAddress = BaseAddress + Sectors * SectorSize
           /\ (BaseAddress % Segment) + Sectors * SectorSize <= Segment
<1>1. FileLength \in Nat /\ SectorSize \in Nat \ {0}
  BY LoaderAssumption
<1>2. Sectors = (FileLength + SectorSize - 1) \div SectorSize
  BY DEF Sectors, SectorsOf
<1> DEFINE x == FileLength + SectorSize - 1
<1>3. x \in Nat
  BY <1>1
<1> HIDE DEF x
<1>4. x \div SectorSize \in Nat /\ x < (x \div SectorSize) * SectorSize + SectorSize
  BY <1>1, <1>3, DivBounds
<1>5. (x \div SectorSize) * SectorSize \in Nat
  BY <1>1, <1>4, MultipleMod
<1>6. Sectors = x \div SectorSize
  BY <1>2 DEF x
<1> DEFINE y == Sectors * SectorSize
<1>7. y \in Nat /\ x < y + SectorSize
  BY <1>4, <1>5, <1>6
<1> HIDE DEF y
<1>8. FileLength <= y
  BY <1>1, <1>7 DEF x
<1>9. /\ MemoryMapAddress = BaseAddress + Sectors * SectorSize
      /\ (BaseAddress % Segment) + Sectors * SectorSize <= Segment
  BY KernelAssumption DEF Sectors
<1> QED
  BY <1>4, <1>6, <1>8, <1>9 DEF y

-----------------------------------------------------------------------------
\* The loader's steps

LEMMA LoaderInit == BootInit => LoaderInv
<1> SUFFICES ASSUME BootInit PROVE LoaderInv
  OBVIOUS
<1>1. /\ bios = <<>> /\ pc = "transform" /\ regs = <<>> /\ i = 1
      /\ stage = "load" /\ FileLength \in FileLengths /\ at = SegOff(BaseAddress)
      /\ placed = <<>> /\ prevOffset = 0 /\ table = <<>> /\ entriesCount = 0
  BY DEF BootInit, Init
<1>2. Sectors \in Nat /\ 0 \in 0 .. Sectors
  BY <1>1, SectorsAre
<1>3. at = After(BaseAddress, 0 * SectorSize)
  <2>1. 0 * SectorSize = 0 /\ BaseAddress \in Nat
    BY LoaderAssumption
  <2> QED
    BY <1>1, <2>1, AfterIs
<1>4. placed = Layout(0)
  BY <1>1 DEF Layout
<1>5. KernelLoaded
  BY <1>1, <1>2, <1>3, <1>4 DEF KernelLoaded
<1> QED
  BY <1>1, <1>5 DEF LoaderInv, NothingYet

LEMMA ReadPartStep ==
    ASSUME LoaderInv, ReadPart
    PROVE  KernelLoaded'
<1>1. /\ stage = "load" /\ stage' = "load" /\ FileLength' = FileLength /\ FileLength \in FileLengths
      /\ Part > 0
      /\ at' = AddValueToSegOff(at, MaxSectors * SectorSize)
  BY DEF ReadPart, LoaderInv
<1>2. PICK n \in 0 .. Sectors :
          placed = Layout(n) /\ (n < Sectors => at = After(BaseAddress, n * SectorSize))
  BY <1>1 DEF LoaderInv, KernelLoaded
<1>3. /\ Sectors \in Nat /\ n \in Nat /\ MaxSectors \in Nat \ {0} /\ SectorSize \in Nat \ {0}
      /\ BaseAddress \in Nat /\ kernelSectorLba \in Nat /\ Segment \in Nat \ {0}
      /\ (BaseAddress % Segment) + Sectors * SectorSize <= Segment
      /\ Sectors' = Sectors
  BY <1>1, SectorsAre, LoaderAssumption DEF Sectors
<1>4. Len(placed) = n
  BY <1>2, <1>3, LayoutGrows
<1>5. /\ Part = IF Sectors - n >= MaxSectors THEN MaxSectors ELSE Sectors - n
      /\ n < Sectors /\ Part \in Nat /\ n + Part <= Sectors
      /\ n + Part < Sectors => Part = MaxSectors
  <2>1. Part = IF Sectors - n >= MaxSectors THEN MaxSectors ELSE Sectors - n
    BY <1>4 DEF Part
  <2> QED
    BY <1>1, <1>3, <2>1
<1>6. n * SectorSize \in Nat
  BY <1>3, MultipleMod
<1>7. Address(at) = BaseAddress + n * SectorSize
  BY <1>2, <1>3, <1>5, <1>6, AfterIs
<1>8. placed' = placed \o PartAt(n, Part)
  <2>1. LbaOf(LbaToChs(kernelSectorLba + Len(placed))) = kernelSectorLba + n
    <3>1. kernelSectorLba + n \in Nat
      BY <1>3
    <3> QED
      BY <1>4, <3>1, ChsIs
  <2> QED
    BY <1>7, <2>1 DEF ReadPart, PartAt
<1>9. placed' = Layout(n + Part)
  BY <1>2, <1>3, <1>5, <1>8, LayoutGrows
<1>10. n + Part < Sectors => at' = After(BaseAddress, (n + Part) * SectorSize)
  <2> SUFFICES ASSUME n + Part < Sectors
               PROVE  at' = After(BaseAddress, (n + Part) * SectorSize)
    OBVIOUS
  <2> DEFINE x == n * SectorSize
             v == MaxSectors * SectorSize
             z == Sectors * SectorSize
  <2>1. Part = MaxSectors
    BY <1>5
  <2>2. (n + MaxSectors) * SectorSize = x + v /\ v \in Nat /\ x \in Nat
    BY <1>3, <1>6, TimesPlus, MultipleMod
  <2>3. (n + MaxSectors + 1) * SectorSize <= z
    <3>1. n + MaxSectors + 1 <= Sectors
      BY <1>3, <2>1
    <3> QED
      BY <1>3, <3>1, TimesLeq
  <2>4. (n + MaxSectors + 1) * SectorSize = x + v + SectorSize
    <3>1. n + MaxSectors \in Int /\ 1 * SectorSize = SectorSize
      BY <1>3
    <3>2. ((n + MaxSectors) + 1) * SectorSize = (n + MaxSectors) * SectorSize + 1 * SectorSize
      BY <1>3, <3>1, TimesPlus
    <3> QED
      BY <2>2, <3>1, <3>2
  <2>5. x + v + SectorSize <= z /\ (BaseAddress % Segment) + z <= Segment /\ z \in Nat
    BY <1>3, <2>3, <2>4, MultipleMod
  <2> DEFINE r == BaseAddress % Segment
  <2>6. r \in Nat /\ r + z <= Segment
    BY <1>3, <2>5
  <2>7. at = After(BaseAddress, x) /\ at' = AddValueToSegOff(at, v)
    BY <1>1, <1>2, <1>5
  <2> HIDE DEF x, v, z, r
  <2>8. r + x + v < Segment
    BY <1>3, <2>2, <2>5, <2>6
  <2>9. AddValueToSegOff(After(BaseAddress, x), v) = After(BaseAddress, x + v)
    BY <1>3, <2>2, <2>8, AddIs DEF r
  <2> QED
    BY <2>1, <2>2, <2>7, <2>9
<1>11. n + Part \in 0 .. Sectors'
  BY <1>3, <1>5
<1> QED
  BY <1>1, <1>3, <1>9, <1>10, <1>11 DEF KernelLoaded

\* At the end of the parts every sector is there.
LEMMA AllParts ==
    ASSUME LoaderInv, stage = "load", Part = 0
    PROVE  Sectors \in Nat /\ placed = Layout(Sectors)
<1>1. FileLength \in FileLengths
  BY DEF LoaderInv
<1>2. PICK n \in 0 .. Sectors : placed = Layout(n)
  BY DEF LoaderInv, KernelLoaded
<1>3. Sectors \in Nat /\ n \in Nat /\ MaxSectors \in Nat \ {0}
  BY <1>1, SectorsAre, LoaderAssumption
<1>4. Len(placed) = n
  BY <1>2, <1>3, LayoutGrows
<1>5. n = Sectors
  <2>1. Part = IF Sectors - n >= MaxSectors THEN MaxSectors ELSE Sectors - n
    BY <1>4 DEF Part
  <2> QED
    BY <1>3, <2>1
<1> QED
  BY <1>2, <1>3, <1>5

LEMMA EndLoadStep ==
    ASSUME LoaderInv, EndLoad
    PROVE  LoaderInv'
<1>1. /\ stage = "load" /\ Part = 0 /\ stage' = "map" /\ at' = SegOff(BaseAddress + Sectors * SectorSize)
      /\ report' \in Reports /\ pc' = pc /\ bios' = bios /\ regs' = regs /\ i' = i
      /\ FileLength' = FileLength /\ placed' = placed /\ prevOffset' = prevOffset
      /\ table' = table /\ entriesCount' = entriesCount
  BY DEF EndLoad, vars
<1>2. Sectors \in Nat /\ placed = Layout(Sectors) /\ Sectors' = Sectors
  BY <1>1, AllParts DEF Sectors
<1>3. FileLength \in FileLengths /\ NothingYet
      /\ pc = "transform" /\ bios = <<>> /\ regs = <<>> /\ i = 1
  BY <1>1 DEF LoaderInv
<1>4. KernelLoaded'
  <2>1. Sectors \in 0 .. Sectors
    BY <1>2
  <2> QED
    BY <1>1, <1>2, <2>1 DEF KernelLoaded
<1>5. at' = After(MemoryMapAddress, 0)
  <2>1. MemoryMapAddress = BaseAddress + Sectors * SectorSize /\ MemoryMapAddress \in Nat
    BY <1>3, SectorsAre, SizesAssumption
  <2> QED
    BY <1>1, <2>1, AfterIs
<1>6. NothingYet'
  BY <1>1, <1>3 DEF NothingYet
<1> QED
  BY <1>1, <1>3, <1>4, <1>5, <1>6 DEF LoaderInv

-----------------------------------------------------------------------------
\* GetMemoryMap

LEMMA ReportIs ==
    ASSUME NEW r \in Reports
    PROVE  /\ r.list \in Seq(MapEntry) /\ Len(r.list) \in Nat \ {0}
           /\ r.ending \in {"zero", "error"}
           /\ \A k \in 1 .. Len(r.list) : r.list[k].Length > 0
           /\ HandedOver(r) \in BiosMaps
           /\ FileLength \in FileLengths =>
                 (MemoryMapAddress % Segment) + ArdSize * Len(r.list) < Segment
<1>1. r.list \in Seq(MapEntry) /\ r.list # <<>>
  BY ReportsAssumption
<1>2. Len(r.list) \in Nat \ {0}
  BY <1>1, EmptySeq
<1>3. HandedOver(r) \in BiosMaps
  BY HandedAssumption DEF HandedOver
<1> QED
  BY <1>1, <1>2, <1>3, ReportsAssumption, KernelAssumption

\* One more entry of the list.
LEMMA PrefixGrows ==
    ASSUME NEW list \in Seq(MapEntry), NEW n \in 0 .. Len(list) - 1
    PROVE  /\ Append(SubSeq(list, 1, n), list[n + 1]) = SubSeq(list, 1, n + 1)
           /\ Len(SubSeq(list, 1, n)) = n /\ Len(SubSeq(list, 1, n + 1)) = n + 1
<1>1. Len(list) \in Nat /\ n + 1 \in 1 .. Len(list) /\ 1 \in 1 .. Len(list) /\ n + 1 \in 1 .. Len(list)
  BY LenProperties
<1>2. SubSeq(list, 1, n + 1) = SubSeq(list, 1, n) \o <<list[n + 1]>>
  <2>1. SubSeq(list, 1, n + 1) = SubSeq(list, 1, (n + 1) - 1) \o <<list[n + 1]>>
    BY <1>1, SubSeqRecursiveSecond
  <2>2. (n + 1) - 1 = n
    BY <1>1
  <2> QED
    BY <2>1, <2>2
<1>3. \A k \in 1 .. n + 1 : list[k] \in MapEntry
  BY <1>1, ElementOfSeq
<1>4. SubSeq(list, 1, n) \in Seq(MapEntry) /\ Len(SubSeq(list, 1, n)) = n
  <2>1. \A k \in 1 .. n : list[k] \in MapEntry
    BY <1>1, <1>3
  <2>2. /\ SubSeq(list, 1, n) \in Seq(MapEntry)
        /\ Len(SubSeq(list, 1, n)) = IF 1 <= n THEN n - 1 + 1 ELSE 0
    BY <2>1, SubSeqProperties
  <2> QED
    BY <1>1, <2>2
<1>5. Len(SubSeq(list, 1, n + 1)) = n + 1
  <2>1. Len(SubSeq(list, 1, n + 1)) = IF 1 <= n + 1 THEN (n + 1) - 1 + 1 ELSE 0
    BY <1>3, SubSeqProperties
  <2> QED
    BY <1>1, <2>1
<1>6. Append(SubSeq(list, 1, n), list[n + 1]) = SubSeq(list, 1, n) \o <<list[n + 1]>>
  BY <1>3, <1>4
<1> QED
  BY <1>2, <1>4, <1>5, <1>6

\* Between two calls there is room for the next entry in the segment.
LEMMA NextPlace ==
    ASSUME NEW r \in Reports, FileLength \in FileLengths, NEW n \in 0 .. Len(r.list) - 1
    PROVE  AddValueToSegOff(After(MemoryMapAddress, ArdSize * n), ArdSize)
               = After(MemoryMapAddress, ArdSize * (n + 1))
<1> DEFINE o == MemoryMapAddress % Segment
           L == Len(r.list)
           x == ArdSize * n
<1>1. /\ ArdSize \in Nat /\ MemoryMapAddress \in Nat /\ Segment \in Nat \ {0}
      /\ L \in Nat /\ n \in Nat /\ n + 1 <= L
  BY SizesAssumption, LoaderAssumption, ReportIs
<1>2. o \in Nat /\ o + ArdSize * L < Segment
  BY <1>1, ReportIs
<1>3. \A y, z \in Nat : y * z = z * y /\ y * z \in Nat
  BY SMT
<1> HIDE DEF L
<1>4. (n + 1) * ArdSize = n * ArdSize + 1 * ArdSize /\ 1 * ArdSize = ArdSize
  BY <1>1, TimesPlus
<1>5. (n + 1) * ArdSize <= L * ArdSize
  BY <1>1, TimesLeq
<1>6. x \in Nat /\ ArdSize * (n + 1) = x + ArdSize
  <2>1. ArdSize * (n + 1) = (n + 1) * ArdSize /\ x = n * ArdSize /\ x \in Nat
    BY <1>1, <1>3
  <2> QED
    BY <1>4, <2>1
<1>7. x + ArdSize <= ArdSize * L
  <2>1. ArdSize * L = L * ArdSize /\ ArdSize * (n + 1) = (n + 1) * ArdSize
    BY <1>1, <1>3
  <2> QED
    BY <1>5, <1>6, <2>1
<1> DEFINE y == ArdSize * L
<1>8. y \in Nat /\ o + y < Segment /\ x + ArdSize <= y
  BY <1>1, <1>2, <1>3, <1>7
<1> HIDE DEF o, x, y
<1>9. o + x + ArdSize < Segment
  BY <1>1, <1>2, <1>6, <1>8
<1>10. AddValueToSegOff(After(MemoryMapAddress, x), ArdSize)
           = After(MemoryMapAddress, x + ArdSize)
  BY <1>1, <1>6, <1>9, AddIs DEF o
<1> QED
  BY <1>6, <1>10 DEF x

LEMMA FirstElementStep ==
    ASSUME LoaderInv, FirstElement, stage' = "map"
    PROVE  Between'
<1>1. /\ stage = "map" /\ table = <<>> /\ report \in Reports /\ FileLength \in FileLengths
  BY DEF FirstElement, LoaderInv
<1>2. NothingYet /\ at = After(MemoryMapAddress, 0)
  <2>1. ~Between
    BY <1>1, EmptySeq DEF Between
  <2>2. ~Complete
    <3>1. SUFFICES ASSUME Complete PROVE FALSE
      OBVIOUS
    <3>2. HandedOver(report) = <<>>
      BY <1>1, <3>1 DEF Complete
    <3>3. report.list \in Seq(MapEntry) /\ Len(report.list) \in Nat \ {0}
      BY <1>1, ReportIs
    <3>4. Len(HandedOver(report)) # 0
      BY <3>3 DEF HandedOver
    <3> QED
      BY <3>2, <3>4
  <2> QED
    BY <1>1, <2>1, <2>2 DEF LoaderInv
<1> DEFINE L == report.list
<1>3. /\ L \in Seq(MapEntry) /\ Len(L) \in Nat \ {0} /\ report.ending \in {"zero", "error"}
  BY <1>1, ReportIs
<1>4. /\ Element(0).entry = L[1]
      /\ Element(0).next = IF report.ending = "zero" /\ 1 = Len(L) THEN 0 ELSE 1
  BY <1>3 DEF Element
<1>5. /\ Element(0).next # 0 /\ table' = <<Element(0).entry>> /\ prevOffset' = Element(0).next
      /\ entriesCount' = entriesCount + 1 /\ at' = AddValueToSegOff(at, ArdSize)
      /\ report' = report
  BY <1>1 DEF FirstElement, Stop
<1>6. table' = SubSeq(L, 1, 1) /\ Len(table') = 1
  <2>1. 0 \in 0 .. Len(L) - 1 /\ 0 + 1 = 1
    BY <1>3
  <2>2. Append(SubSeq(L, 1, 0), L[1]) = SubSeq(L, 1, 1)
    BY <1>3, <2>1, PrefixGrows
  <2>3. SubSeq(L, 1, 0) = <<>>
    BY SubSeqEmpty
  <2>4. Append(<<>>, L[1]) = <<L[1]>>
    BY <1>3
  <2> QED
    BY <1>4, <1>5, <2>2, <2>3, <2>4
<1>7. at' = After(MemoryMapAddress, ArdSize * 1)
  <2>1. 0 \in 0 .. Len(report.list) - 1 /\ ArdSize * 0 = 0 /\ 0 + 1 = 1
    BY <1>3, LoaderAssumption
  <2> QED
    BY <1>1, <1>2, <1>5, <2>1, NextPlace
<1>8. /\ prevOffset' = 1 /\ entriesCount' = 1 /\ Len(table') \in 1 .. Len(L)
      /\ report.ending = "zero" => 1 # Len(L)
  BY <1>2, <1>3, <1>4, <1>5, <1>6 DEF NothingYet
<1> QED
  BY <1>5, <1>6, <1>7, <1>8 DEF Between

LEMMA NextElementStep ==
    ASSUME LoaderInv, NextElement
    PROVE  Between' \/ Complete'
<1>1. /\ stage = "map" /\ table # <<>> /\ prevOffset # 0 /\ report \in Reports
      /\ FileLength \in FileLengths
  BY DEF NextElement, LoaderInv
<1>2. Between
  BY <1>1 DEF LoaderInv, NothingYet, Complete
<1> DEFINE L == report.list
           n == Len(table)
           e == Element(n)
<1>3. /\ L \in Seq(MapEntry) /\ Len(L) \in Nat \ {0} /\ report.ending \in {"zero", "error"}
  BY <1>1, ReportIs
<1>4. /\ n \in 1 .. Len(L) /\ table = SubSeq(L, 1, n) /\ prevOffset = n /\ entriesCount = n
      /\ report.ending = "zero" => n # Len(L)
      /\ at = After(MemoryMapAddress, ArdSize * n)
  BY <1>2 DEF Between
<1>5. /\ table' = Append(table, e.entry) /\ prevOffset' = e.next /\ report' = report
      /\ entriesCount' = n + 1
      /\ at' = IF e.next = 0 THEN at ELSE AddValueToSegOff(at, ArdSize)
  BY <1>4 DEF NextElement, Counted
<1> HIDE DEF n
<1>6. CASE n < Len(L)
  <2>1. /\ e.entry = L[n + 1]
        /\ e.next = IF report.ending = "zero" /\ n + 1 = Len(L) THEN 0 ELSE n + 1
    BY <1>6 DEF Element
  <2>2. n \in 0 .. Len(L) - 1
    BY <1>3, <1>4, <1>6
  <2>3. table' = SubSeq(L, 1, n + 1) /\ Len(table') = n + 1
    BY <1>3, <1>4, <1>5, <2>1, <2>2, PrefixGrows
  <2>4. CASE report.ending = "zero" /\ n + 1 = Len(L)
    <3>1. table' = L
      BY <1>3, <2>3, <2>4, SubSeqFull
    <3>2. e.next = 0 /\ at' = After(MemoryMapAddress, ArdSize * n) /\ (n + 1) - 1 = n
      BY <1>4, <1>5, <2>1, <2>4
    <3>3. HandedOver(report) = L
      BY <2>4 DEF HandedOver
    <3> HIDE DEF e
    <3> QED
      BY <1>5, <2>3, <3>1, <3>2, <3>3 DEF Complete
  <2>5. CASE ~(report.ending = "zero" /\ n + 1 = Len(L))
    <3>1. e.next = n + 1 /\ n + 1 # 0
      BY <1>4, <2>1, <2>5
    <3>2. at' = After(MemoryMapAddress, ArdSize * (n + 1))
      BY <1>1, <1>4, <1>5, <2>2, <3>1, NextPlace
    <3>3. n + 1 \in 1 .. Len(L)
      BY <1>3, <2>2
    <3> HIDE DEF e
    <3> QED
      BY <1>5, <2>3, <2>5, <3>1, <3>2, <3>3 DEF Between
  <2> QED
    BY <2>4, <2>5
<1>7. CASE n = Len(L)
  <2>1. report.ending = "error" /\ table = L
    BY <1>3, <1>4, <1>7, SubSeqFull
  <2>2. e = [entry |-> Unwritten, next |-> 0]
    BY <1>3, <1>7 DEF Element
  <2>3. /\ table' = Append(L, Unwritten) /\ prevOffset' = 0 /\ at' = at
    BY <1>5, <2>1, <2>2
  <2>4. Len(table') = n + 1 /\ (n + 1) - 1 = n
    BY <1>3, <1>4, <1>7, <2>3
  <2>5. HandedOver(report) = Append(L, Unwritten)
    BY <2>1 DEF HandedOver
  <2> QED
    BY <1>4, <1>5, <2>3, <2>4, <2>5 DEF Complete
<1> QED
  BY <1>3, <1>4, <1>6, <1>7

-----------------------------------------------------------------------------
\* The invariant holds

LEMMA EnterKernelStep ==
    ASSUME BootInv, EnterKernel
    PROVE  BootInv'
<1>1. /\ stage = "map" /\ table # <<>> /\ prevOffset = 0 /\ stage' = "kernel"
      /\ bios' = [k \in 1 .. entriesCount |-> table[k]]
      /\ pc' = pc /\ regs' = regs /\ rmRegs' = rmRegs /\ i' = i /\ j' = j
      /\ swapped' = swapped /\ data' = data
      /\ FileLength' = FileLength /\ at' = at /\ placed' = placed /\ report' = report
      /\ prevOffset' = prevOffset /\ table' = table /\ entriesCount' = entriesCount
  BY DEF EnterKernel
<1>2. /\ FileLength \in FileLengths /\ KernelLoaded /\ report \in Reports
      /\ pc = "transform" /\ regs = <<>> /\ i = 1
  BY <1>1 DEF BootInv, LoaderInv
<1>3. Complete
  <2>1. ~Between
    BY <1>1, <1>2, ReportIs DEF Between
  <2> QED
    BY <1>1, <2>1 DEF BootInv, LoaderInv, NothingYet
<1>4. table \in BiosMaps /\ entriesCount = Len(table)
  BY <1>2, <1>3, ReportIs DEF Complete
<1>5. table \in Seq(MapEntry)
  BY <1>4, BiosAssumption
<1>6. bios' = table
  BY <1>1, <1>4, <1>5, LenProperties
<1>7. KernelLoaded'
  <2>1. Sectors' = Sectors
    BY <1>1 DEF Sectors
  <2> QED
    BY <1>1, <1>2, <2>1 DEF KernelLoaded
<1>8. Complete'
  BY <1>1, <1>3 DEF Complete
<1>9. LoaderInv'
  BY <1>1, <1>2, <1>6, <1>7, <1>8 DEF LoaderInv
<1>10. MapInv'
  <2>1. Len(table) \in Nat
    BY <1>4, EntryIs
  <2>2. i' \in 1 .. Len(bios') + 1 /\ i' - 1 = 0
    <3>1. Len(bios') = Len(table) /\ i' = 1
      BY <1>1, <1>2, <1>6, Zenon
    <3> DEFINE n == Len(bios')
    <3>2. n \in Nat /\ i' = 1
      BY <2>1, <3>1
    <3> HIDE DEF n
    <3>3. i' \in 1 .. n + 1 /\ i' - 1 = 0
      BY <3>2
    <3> QED
      BY <3>3 DEF n
  <2>3. Collected(bios', i' - 1, regs')
    BY <1>1, <1>2, <2>2, CollectBegins
  <2> QED
    BY <1>1, <1>2, <1>4, <1>6, <2>2, <2>3 DEF MapInv
<1> QED
  BY <1>9, <1>10 DEF BootInv

LEMMA LoaderStep ==
    ASSUME BootInv, ReadPart \/ FailRead \/ EndLoad \/ FirstElement \/ NextElement
    PROVE  BootInv'
<1>1. /\ UNCHANGED vars /\ FileLength' = FileLength /\ stage \in {"load", "map"}
      /\ stage' \in {"load", "map", "stop"}
  BY DEF ReadPart, FailRead, EndLoad, FirstElement, NextElement, Stop
<1>2. MapInv'
  BY <1>1, MapInvNext DEF BootInv
<1>3. /\ pc' = "transform" /\ bios' = <<>> /\ regs' = <<>> /\ i' = 1
      /\ FileLength \in FileLengths /\ LoaderInv /\ Sectors' = Sectors
  BY <1>1 DEF BootInv, LoaderInv, vars, Sectors
<1>4. CASE ReadPart
  <2>1. stage = "load" /\ stage' = "load" /\ KernelLoaded'
    BY <1>3, <1>4, ReadPartStep DEF ReadPart
  <2>2. NothingYet'
    BY <1>3, <1>4, <2>1 DEF ReadPart, LoaderInv, NothingYet
  <2>3. LoaderInv'
    BY <1>1, <1>3, <2>1, <2>2 DEF LoaderInv
  <2> QED
    BY <1>2, <2>3 DEF BootInv
<1>5. CASE stage' = "stop" /\ placed' = placed
  <2>1. KernelLoaded'
    BY <1>3, <1>5 DEF LoaderInv, KernelLoaded
  <2>2. LoaderInv'
    BY <1>1, <1>3, <1>5, <2>1 DEF LoaderInv
  <2> QED
    BY <1>2, <2>2 DEF BootInv
<1>6. CASE EndLoad
  BY <1>2, <1>3, <1>6, EndLoadStep DEF BootInv
<1>7. CASE FirstElement /\ stage' # "stop"
  <2>1. stage = "map" /\ stage' = "map" /\ placed' = placed /\ report' = report
    BY <1>7 DEF FirstElement, Stop
  <2>2. Between' /\ report' \in Reports
    BY <1>3, <1>7, <2>1, FirstElementStep DEF LoaderInv
  <2>3. KernelLoaded'
    BY <1>3, <2>1 DEF LoaderInv, KernelLoaded
  <2>4. LoaderInv'
    BY <1>1, <1>3, <2>1, <2>2, <2>3 DEF LoaderInv
  <2> QED
    BY <1>2, <2>4 DEF BootInv
<1>8. CASE NextElement
  <2>1. stage = "map" /\ stage' = "map" /\ placed' = placed /\ report' = report
    BY <1>8 DEF NextElement
  <2>2. (Between' \/ Complete') /\ report' \in Reports
    BY <1>3, <1>8, <2>1, NextElementStep DEF LoaderInv
  <2>3. KernelLoaded'
    BY <1>3, <2>1 DEF LoaderInv, KernelLoaded
  <2>4. LoaderInv'
    BY <1>1, <1>3, <2>1, <2>2, <2>3 DEF LoaderInv
  <2> QED
    BY <1>2, <2>4 DEF BootInv
<1>9. FailRead => stage' = "stop" /\ placed' = placed
  BY DEF FailRead, Stop
<1>10. FirstElement /\ stage' = "stop" => placed' = placed
  BY DEF FirstElement, Stop
<1> QED
  BY <1>4, <1>5, <1>6, <1>7, <1>8, <1>9, <1>10

LEMMA NextKeepsBios == Next => bios' = bios
BY DEF Next, TransformEntry, BeginSort, CompareNeighbours, NextPass, EndSort, SkipRegion,
       RemoveRange, NextRegion, EndRemove, EndRemoveMap, Install

LEMMA KernelStep ==
    ASSUME BootInv, \/ stage = "kernel" /\ Next /\ UNCHANGED loader
                    \/ UNCHANGED <<vars, loader>>
    PROVE  BootInv'
<1>1. /\ stage' = stage /\ FileLength' = FileLength /\ at' = at /\ placed' = placed
      /\ report' = report /\ prevOffset' = prevOffset /\ table' = table
      /\ entriesCount' = entriesCount /\ bios' = bios
      /\ stage = "kernel" \/ UNCHANGED vars
  BY NextKeepsBios DEF loader, vars
<1>2. MapInv'
  BY MapInvNext DEF BootInv
<1>3. Sectors' = Sectors
  BY <1>1 DEF Sectors
<1>4. /\ KernelLoaded => KernelLoaded'
      /\ NothingYet => NothingYet'
      /\ Between => Between'
      /\ Complete => Complete'
  BY <1>1, <1>3 DEF KernelLoaded, NothingYet, Between, Complete
<1>5. stage # "kernel" => pc' = pc /\ regs' = regs /\ i' = i
  BY <1>1 DEF vars
<1>6. LoaderInv'
  BY <1>1, <1>4, <1>5 DEF BootInv, LoaderInv
<1> QED
  BY <1>2, <1>6 DEF BootInv

LEMMA BootInvNext == BootInv /\ [BootNext]_<<vars, loader>> => BootInv'
<1> SUFFICES ASSUME BootInv, [BootNext]_<<vars, loader>> PROVE BootInv'
  OBVIOUS
<1>1. CASE ReadPart \/ FailRead \/ EndLoad \/ FirstElement \/ NextElement
  BY <1>1, LoaderStep
<1>2. CASE EnterKernel
  BY <1>2, EnterKernelStep
<1>3. CASE \/ stage = "kernel" /\ Next /\ UNCHANGED loader
           \/ UNCHANGED <<vars, loader>>
  BY <1>3, KernelStep
<1> QED
  BY <1>1, <1>2, <1>3 DEF BootNext

\* From the first sector to the last frame the loader and the kernel pass through the
\* stages that LoaderInv and MapInv describe (main.c:15-71, memory.c:10-143).
THEOREM BootInvAlways == BootSpec => []BootInv
<1>1. BootInit => BootInv
  BY LoaderInit, MapInvInit DEF BootInit, BootInv
<1> QED
  BY <1>1, BootInvNext, PTL DEF BootSpec

LEMMA FindsIfBootInv == BootInv => KernelFindsWhatItNeeds
<1> SUFFICES ASSUME BootInv, stage = "kernel"
             PROVE  /\ placed = [k \in 1 .. Len(placed) |->
                                    [lba     |-> kernelSectorLba + k - 1,
                                     address |-> BaseAddress + (k - 1) * SectorSize]]
                    /\ FileLength <= Len(placed) * SectorSize
                    /\ Address(at) = MemoryMapAddress + ArdSize * (entriesCount - 1)
                    /\ Len(report.list) <= Len(bios)
                    /\ \A k \in 1 .. Len(bios) :
                          IF k <= Len(report.list) THEN bios[k] = report.list[k]
                          ELSE bios[k].Length = 0
  BY DEF KernelFindsWhatItNeeds
<1>1. /\ KernelLoaded /\ Complete /\ bios = table /\ report \in Reports
      /\ FileLength \in FileLengths
  BY DEF BootInv, LoaderInv
<1> DEFINE L == report.list
<1>2. /\ Sectors \in Nat /\ placed = Layout(Sectors) /\ Len(placed) = Sectors
      /\ FileLength <= Sectors * SectorSize
  <2>1. Sectors \in Nat /\ FileLength <= Sectors * SectorSize
    BY <1>1, SectorsAre
  <2>2. placed = Layout(Sectors)
    BY <1>1 DEF KernelLoaded
  <2> QED
    BY <2>1, <2>2, LayoutGrows
<1>3. placed = [k \in 1 .. Len(placed) |-> [lba     |-> kernelSectorLba + k - 1,
                                            address |-> BaseAddress + (k - 1) * SectorSize]]
  BY <1>2 DEF Layout
<1>4. FileLength <= Len(placed) * SectorSize
  BY <1>2
<1>5. /\ L \in Seq(MapEntry) /\ Len(L) \in Nat \ {0} /\ report.ending \in {"zero", "error"}
      /\ bios = HandedOver(report) /\ entriesCount = Len(bios)
  BY <1>1, ReportIs DEF Complete
<1>6. /\ Len(bios) \in Nat \ {0} /\ Len(L) <= Len(bios)
      /\ \A k \in 1 .. Len(bios) :
            IF k <= Len(L) THEN bios[k] = L[k] ELSE bios[k].Length = 0
  <2>1. CASE report.ending = "zero"
    <3>1. bios = L
      BY <1>5, <2>1 DEF HandedOver
    <3> HIDE DEF L
    <3> QED
      BY <1>5, <3>1
  <2>2. CASE report.ending = "error"
    <3>1. bios = Append(L, Unwritten)
      BY <1>5, <2>2 DEF HandedOver
    <3> HIDE DEF L
    <3>2. /\ Len(bios) = Len(L) + 1 /\ bios[Len(L) + 1] = Unwritten
          /\ \A k \in 1 .. Len(L) : bios[k] = L[k]
      BY <1>5, <3>1
    <3>3. \A k \in 1 .. Len(bios) : k \in 1 .. Len(L) \/ (k = Len(L) + 1 /\ ~(k <= Len(L)))
      BY <1>5, <3>2
    <3>4. Unwritten.Length = 0
      BY DEF Unwritten
    <3> QED
      BY <1>5, <3>2, <3>3, <3>4
  <2> QED
    BY <1>5, <2>1, <2>2
<1>7. Address(at) = MemoryMapAddress + ArdSize * (entriesCount - 1)
  <2> DEFINE n == entriesCount - 1
  <2>1. n \in Nat /\ at = After(MemoryMapAddress, ArdSize * n)
    BY <1>1, <1>5, <1>6 DEF Complete
  <2>2. ArdSize * n \in Nat /\ MemoryMapAddress \in Nat
    <3>1. \A x, y \in Nat : x * y \in Nat
      BY SMT
    <3> QED
      BY <2>1, <3>1, LoaderAssumption, SizesAssumption
  <2> HIDE DEF n
  <2>3. Address(at) = MemoryMapAddress + ArdSize * n
    BY <2>1, <2>2, AfterIs
  <2> QED
    BY <2>3 DEF n
<1> QED
  BY <1>3, <1>4, <1>6, <1>7

\* Whatever the BIOS reports, the kernel starts only when it is in memory whole, with the
\* number and the place of entries that are the BIOS's (main.c:25-54, meminfo.c:6-17).
THEOREM KernelFindsWhatItNeedsAlways == BootSpec => []KernelFindsWhatItNeeds
<1> QED
  BY BootInvAlways, FindsIfBootInv, PTL

\* With the map that the loader hands over, all that the allocator writes lies in free
\* memory, in regions that are apart and in order (memory.c:10-143).
THEOREM BootedMemoryIsFree == BootSpec => []OnlyFreeMemory
<1>1. BootInv => OnlyFreeMemory
  BY OnlyFreeIfMapInv DEF BootInv
<1> QED
  BY <1>1, BootInvAlways, PTL

\* With that map no whole frame of free memory is missing from the regions
\* (memory.c:86-143).
THEOREM BootedMemoryIsWhole == BootSpec => []NoFrameIsLost
<1>1. BootInv => NoFrameIsLost
  BY NothingLostIfMapInv DEF BootInv
<1> QED
  BY <1>1, BootInvAlways, PTL

=============================================================================
