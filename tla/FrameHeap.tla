----------------------------- MODULE FrameHeap -----------------------------
(***************************************************************************)
(* What the physical memory manager (src/kernel/source/memory.c) promises  *)
(* the drivers that call it, with frames, descriptors and the allocation   *)
(* table hidden: a heap of blocks, each a function from byte offsets to    *)
(* bytes, that nothing but a write by its owner changes.                   *)
(***************************************************************************)
EXTENDS Naturals

CONSTANTS
    Handle,     \* the addresses a block may have
    Byte,       \* the values a byte of memory may have
    Size,       \* the sizes, in bytes, a block may have
    Request     \* the numbers of bytes an owner may ask for

VARIABLE heap   \* the live blocks: handle |-> (offset |-> byte)

Init == heap = <<>>

\* The blocks of S have the same bytes after the step as before it.
Untouched(S) == \A h \in S : heap'[h] = heap[h]

\* b is a block of the smallest size with room for n bytes.
Holds(b, n) ==
    \E size \in Size :
        /\ b \in [0 .. size - 1 -> Byte]
        /\ size >= n
        /\ \A other \in Size : other >= n => other >= size

\* A fresh block g of n bytes joins the heap as the blocks of "gone" leave it.
Replace(gone, g, n) ==
    /\ g \notin DOMAIN heap
    /\ DOMAIN heap' = (DOMAIN heap \ gone) \cup {g}
    /\ Holds(heap'[g], n)
    /\ Untouched(DOMAIN heap \ gone)

\* A new block; its bytes are whatever the memory held.
Alloc(n) == \E g \in Handle : Replace({}, g, n)

Free(h) ==
    /\ DOMAIN heap' = DOMAIN heap \ {h}
    /\ Untouched(DOMAIN heap \ {h})

\* h moves to a new block of n bytes; of these it keeps the ones that h had.
Realloc(h, n) ==
    \E g \in Handle :
        /\ Replace({h}, g, n)
        /\ \A x \in DOMAIN heap[h] \cap (0 .. n - 1) : heap'[g][x] = heap[h][x]

\* The owner of h overwrites bytes of its block.
Write(h) ==
    /\ DOMAIN heap' = DOMAIN heap
    /\ heap'[h] \in [DOMAIN heap[h] -> Byte]
    /\ Untouched(DOMAIN heap \ {h})

Next ==
    \/ \E n \in Request : Alloc(n)
    \/ \E h \in DOMAIN heap : Free(h) \/ Write(h) \/ \E n \in Request : Realloc(h, n)

Spec == Init /\ [][Next]_heap
=============================================================================
