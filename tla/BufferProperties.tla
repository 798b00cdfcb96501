--------------------------- MODULE BufferProperties ---------------------------
(***************************************************************************)
(* What is meant to hold of Buffers and their memory, and the promise to   *)
(* scripts (BufferViews), which they are shown to keep.                    *)
(***************************************************************************)
EXTENDS Buffer

\* The types of the variables.
TypeOK ==
    /\ live \subseteq BufferId
    /\ slices \in [BufferId -> Slice]
    /\ blocks \in [Block -> [ref : Nat, bytes : Seq(Byte)]]
    /\ pending \in [op : {"none", "string", "slice"}, slice : Slice,
                    self : BufferId \cup {None}]
    /\ destructs \in BOOLEAN
    /\ wrote \in (BufferId \X {"within", "beyond"}) \cup {None}
    /\ leaked \in [Block -> Nat]

\* A slice is in its block, and the block is allocated: what setData asserts, when
\* the slice is made and as long as it is used.  A slice of no bytes holds no block,
\* or one of no bytes: a copy of it, made with the size -1 that stands for all of
\* the block, is as empty.
SliceOK(s) ==
    IF s.block = Null THEN s = NullSlice
    ELSE /\ blocks[s.block].ref > 0
         /\ s.begin + s.size <= Len(blocks[s.block].bytes)
         /\ s.size = 0 => Len(blocks[s.block].bytes) = 0

InBounds ==
    /\ \A b \in live : SliceOK(slices[b])
    /\ SliceOK(pending.slice)

Holders(k) == {b \in live : slices[b].block = k}

\* The reference count of a block is the number of the slices that hold it, Buffers'
\* and the one on the stack, those of objects collected without a destructor
\* included: so it is freed with the last of them, and no earlier.
CountsExact ==
    \A k \in Block :
        blocks[k].ref = Cardinality(Holders(k)) + leaked[k]
                        + (IF pending.slice.block = k THEN 1 ELSE 0)

-----------------------------------------------------------------------------
(* The memory keeps the promises of BufferViews: a cell is a place in a block. *)

\* None stands for the slice on the stack.
Viewed == live \cup (IF pending = Idle THEN {} ELSE {None})
SliceOf == [b \in Viewed |-> IF b = None THEN pending.slice ELSE slices[b]]
Cell(s, i) == <<s.block, s.begin + i>>
UsedCells == UNION {{Cell(SliceOf[b], i) : i \in 1..SliceOf[b].size} : b \in Viewed}

Views == INSTANCE BufferViews WITH
            Buffer <- BufferId,
            Asked <- None,
            live  <- Viewed,
            view  <- [b \in Viewed |-> [i \in 1..SliceOf[b].size |-> Cell(SliceOf[b], i)]],
            store <- [c \in UsedCells |-> blocks[c[1]].bytes[c[2]]]

\* Scripts see nothing of the sharing, counting and freeing of memory but the bytes
\* that slice() and new Buffer(buffer) are meant to share, and what fill() writes past
\* the end of a slice: into the Buffer it was made from, and never into another's.
ViewsKept == Views!Spec
=============================================================================
