---------------------------- MODULE MCMemoryMap ----------------------------
(* Sixteen frames of four bytes; a kernel that ends inside a frame. *)
EXTENDS Boot, FiniteSets

Reserve(address, size) == [Address |-> address, Size |-> size, Type |-> RESERVED]

MCExtra == <<Reserve(8, 6), Reserve(0, 1), Reserve(24, 8), Reserve(48, 4)>>

Entry(base, length, type) ==
    [BaseAddress |-> base, Length |-> length, Type |-> type, Extended |-> TRUE]

\* Memory anywhere on the frames, in sizes that need not be whole frames.
Memory ==
    {Entry(b, l, t) : b \in {0, 4, 12, 16, 20, 28, 36, 44, 52},
                      l \in {3, 4, 5, 8, 13, 16, 20, 27, 44, 63}, t \in {USABLE, RECLAIMABLE}}

\* Firmware at the top, memory above it, a hole off the boundary, one entry of
\* the whole address space and more, an entry without its
\* attribute.
Other ==
    {Entry(62, 2, RESERVED), Entry(64, 40, USABLE), Entry(60, 30, RESERVED),
     Entry(17, 6, RESERVED), Entry(0, 100, RESERVED), [Entry(32, 8, USABLE) EXCEPT !.Extended = FALSE]}

Apart(map) ==
    \A k, l \in 1 .. Len(map) :
        k # l => \/ map[k].BaseAddress + map[k].Length <= map[l].BaseAddress
                 \/ map[l].BaseAddress + map[l].Length <= map[k].BaseAddress

Legal == {e \in Memory : e.BaseAddress + e.Length < 64}

Lists ==
    {map \in {<<a>> : a \in Legal \cup Other} \cup (Legal \X (Legal \cup Other))
             \cup {<<a, b, c>> : a \in {Entry(36, 13, USABLE), Entry(16, 20, RECLAIMABLE),
                                        Entry(52, 8, USABLE)},
                                 b \in Other, c \in Legal} : Apart(map)}

Ending(ending, lists) == {[list |-> l, ending |-> ending] : l \in lists}

\* Any of them may end with the last entry; those of one entry, and of three, may also
\* end with the error of the call after it.
MCReports == Ending("zero", Lists) \cup Ending("error", {l \in Lists : Len(l) # 2})

Handed(r) == IF r.ending = "zero" THEN r.list ELSE Append(r.list, Unwritten)

\* What the kernel may be handed: the list, or also what was where the failing call
\* should have written.  Nothing before that.
MCBiosMaps == {Handed(r) : r \in MCReports \cup Ending("zero", {<<>>})}
=============================================================================
