-------------------------------- MODULE Buffer --------------------------------
(***************************************************************************)
(* Buffers and the memory they share: Heap::Buffer and BufferPrototype     *)
(* (src/nodeqml/types/buffer.cpp), QTypedArrayDataSlice                    *)
(* (src/nodeqml/util/qarraydataslice.h).                                   *)
(*                                                                         *)
(* A Buffer holds a slice: a range of a block of memory (a QTypedArrayData *)
(* with its reference count), or nothing.  slice() and new Buffer(buffer)  *)
(* share the block.  While they, and the constructor from a string, run, a *)
(* slice on the C++ stack holds the block, and the allocation of the new   *)
(* object can make the garbage collector collect other Buffers: "pending"  *)
(* is that slice.                                                          *)
(***************************************************************************)
EXTENDS BufferBytes, FiniteSets

CONSTANTS
    BufferId,   \* the JavaScript objects
    Block,      \* the addresses of blocks
    Null,       \* no block
    None,       \* no Buffer
    Arg,        \* the numbers scripts pass
    Datum,      \* the byte sequences scripts pass, as strings or arrays
    Width,      \* the sizes of integers: 1, 2 and 4
    FloatWidth, \* the sizes of floats and doubles: 4 and 8
    Destructs,  \* what builds there are: that run destructors or not, or both
    MaxInt,     \* the largest int
    MaxLeaks    \* bound: references to a block lost with objects not destructed

ASSUME BufferAssumption ==
    /\ Null \notin Block
    /\ None \notin BufferId
    /\ Arg \subseteq Int
    /\ Datum \subseteq Seq(Byte)
    /\ Width \subseteq {1, 2, 4}
    /\ FloatWidth \subseteq {4, 8}
    /\ Destructs \subseteq BOOLEAN
    /\ IsFiniteSet(BufferId)
    /\ MaxInt \in Nat /\ MaxLeaks \in Nat

VARIABLES
    live,     \* the Buffers that scripts can reach, or that are not collected yet
    slices,   \* the slice each Buffer holds
    blocks,   \* the blocks; those with ref = 0 are free
    pending,  \* the slice on the C++ stack and what it is for
    destructs, \* whether the collector runs the destructors of objects
    wrote,    \* history: the Buffer the last operation wrote to, and if it had to stay
              \* "within" it or could go "beyond"; None if it did not write
    leaked    \* history: the references lost with objects not destructed

vars == <<live, slices, blocks, pending, destructs, wrote, leaked>>

\* A slice: m_arrayData, m_begin (as an offset in the block) and m_size.
Slice == [block : Block \cup {Null}, begin : Nat, size : Nat]
NullSlice == [block |-> Null, begin |-> 0, size |-> 0]

FreeBlock == [ref |-> 0, bytes |-> <<>>]

Idle == [op |-> "none", slice |-> NullSlice, self |-> None]

-----------------------------------------------------------------------------
(* QTypedArrayDataSlice. *)

\* setData.  A size of -1 stands for all of the block, whatever the offset.
SetData(m, k, offset, size) ==
    [block |-> k, begin |-> offset,
     size |-> IF size = -1 THEN Len(m[k].bytes) ELSE size]

\* Mutant: m_begin of the other slice is forgotten.
SubSliceFromStart(m, s, offset, size) ==
    IF s.block = Null \/ size = 0 THEN NullSlice
    ELSE SetData(m, s.block, offset,
                 IF size = -1 /\ s.size # 0 THEN s.size ELSE size)

\* Mutant: a slice of no bytes keeps the block.
SubSliceEmpty(m, s, offset, size) ==
    IF s.block = Null THEN NullSlice
    ELSE SetData(m, s.block, s.begin + offset,
                 IF size = -1 /\ s.size # 0 THEN s.size ELSE size)

\* The constructor from another slice, also its copy constructor (0, -1).
SubSlice(m, s, offset, size) ==
    IF s.block = Null \/ size = 0 THEN NullSlice
    ELSE SetData(m, s.block, s.begin + offset,
                 IF size = -1 /\ s.size # 0 THEN s.size ELSE size)

\* Mutant: the reference is not counted.
RetainedNot(m, s) == m

\* A new slice counts as a reference to its block.
Retained(m, s) ==
    IF s.block = Null THEN m ELSE [m EXCEPT ![s.block].ref = @ + 1]

\* clearData: the last reference frees the block.
Released(m, s) ==
    IF s.block = Null THEN m
    ELSE IF m[s.block].ref = 1 THEN [m EXCEPT ![s.block] = FreeBlock]
    ELSE [m EXCEPT ![s.block].ref = @ - 1]

\* A block allocated for bytes, held by one slice.
Allocated(m, k, bytes) == [m EXCEPT ![k] = [ref |-> 1, bytes |-> bytes]]

\* The bytes of a slice.
Content(m, s) == [i \in 1..s.size |-> m[s.block].bytes[s.begin + i]]

\* Bytes written to a slice, from the index "at" on.
Written(m, s, at, bytes) ==
    LET first == s.begin + at IN
    IF bytes = <<>> THEN m
    ELSE [m EXCEPT ![s.block].bytes =
             [j \in DOMAIN @ |-> IF j - first \in 1..Len(bytes)
                                 THEN bytes[j - first] ELSE @[j]]]

\* What is allocated for n bytes: one more, which no Buffer holds, or nothing.
Allocation(n) == IF n = 0 THEN 0 ELSE n + 1

\* What there is from the beginning of a slice to the end of its block's memory.
Room(m, s) == IF s.block = Null THEN 0 ELSE Allocation(Len(m[s.block].bytes)) - s.begin

-----------------------------------------------------------------------------
(* Buffers come and go. *)

Become(b, s) ==
    /\ live' = live \cup {b}
    /\ slices' = [slices EXCEPT ![b] = s]
    /\ wrote' = None

\* allocateData and the bytes that are put in the new block.
NewWith(b, bytes) ==
    IF bytes = <<>> THEN Become(b, NullSlice) /\ UNCHANGED blocks
    ELSE \E k \in Block :
            /\ blocks[k].ref = 0
            /\ blocks' = Allocated(blocks, k, bytes)
            /\ Become(b, SetData(blocks', k, 0, -1))

\* new Buffer(number): the bytes are whatever was in memory.
NewSized(b, n) ==
    /\ Greatest(0, n) <= MaxLength
    /\ \E bytes \in [1..Greatest(0, n) -> Byte] : NewWith(b, bytes)
    /\ UNCHANGED <<pending, destructs, leaked>>

\* new Buffer(array)
NewFromArray(b, bytes) ==
    /\ Len(bytes) <= MaxLength
    /\ NewWith(b, bytes)
    /\ UNCHANGED <<pending, destructs, leaked>>

Joined(a, c) == Content(blocks, slices[a]) \o Content(blocks, slices[c])

\* Buffer.concat([a, c], total), or with their length for total.  What nothing is copied
\* to is whatever was in memory.  Undefined, and left out: a total less than what is
\* copied, past the end of the new block.
Concat(b, a, c, total) ==
    LET joined == Joined(a, c) IN
    /\ 0 <= total /\ Len(joined) <= Allocation(total)
    /\ \E rest \in [1..(total - Len(joined)) -> Byte] :
          NewFromArray(b, SubSeq(joined, 1, Least(total, Len(joined))) \o rest)

\* new Buffer(buffer) shares the memory.
NewFromBuffer(b, a) ==
    LET s == SubSlice(blocks, slices[a], 0, -1)
    IN /\ Become(b, s)
       /\ blocks' = Retained(blocks, s)
       /\ UNCHANGED <<pending, destructs, leaked>>

\* new Buffer(string): fromString's block, of no bytes for the empty string, is
\* held by a slice before the object is allocated.  Its length is not limited.
BeginString(bytes) ==
    /\ \E k \in Block :
          /\ blocks[k].ref = 0
          /\ blocks' = Allocated(blocks, k, bytes)
          /\ pending' = [op |-> "string", slice |-> SetData(blocks', k, 0, -1),
                         self |-> None]
    /\ wrote' = None
    /\ UNCHANGED <<live, slices, destructs, leaked>>

\* slice(start, end): so is the part of the Buffer it asks for.
BeginSlice(a, start, end) ==
    LET size == slices[a].size
        s == SubSlice(blocks, slices[a], SliceStart(size, start, end),
                      SliceSize(size, start, end))
    IN /\ pending' = [op |-> "slice", slice |-> s, self |-> a]
       /\ blocks' = Retained(blocks, s)
       /\ wrote' = None
       /\ UNCHANGED <<live, slices, destructs, leaked>>

\* The object is allocated with a copy of the slice, and the slice goes.
Finish(b) ==
    LET s == SubSlice(blocks, pending.slice, 0, -1)
    IN /\ pending # Idle
       /\ Become(b, s)
       /\ blocks' = Released(Retained(blocks, s), pending.slice)
       /\ pending' = Idle
       /\ UNCHANGED <<destructs, leaked>>

\* The collector, which does not touch the object whose slice() is running.  It
\* runs the slice's destructor if the object's table of functions has one.
Collect(b) ==
    /\ b # pending.self
    /\ live' = live \ {b}
    /\ slices' = [slices EXCEPT ![b] = NullSlice]
    /\ wrote' = None
    /\ IF destructs
       THEN blocks' = Released(blocks, slices[b]) /\ UNCHANGED leaked
       ELSE /\ \A k \in Block : leaked[k] < MaxLeaks
            /\ leaked' = [k \in Block |-> IF slices[b].block = k
                                          THEN leaked[k] + 1 ELSE leaked[k]]
            /\ UNCHANGED blocks
    /\ UNCHANGED <<pending, destructs>>

-----------------------------------------------------------------------------
(* Bytes are written.  An operation that throws changes nothing. *)

PutBytes(b, at, bytes, where) ==
    /\ blocks' = Written(blocks, slices[b], at, bytes)
    /\ wrote' = <<b, where>>
    /\ UNCHANGED <<live, slices, pending, destructs, leaked>>

Put(b, at, bytes) == PutBytes(b, at, bytes, "within")

\* buffer[i] = v
PutIndexed(b, i, v) ==
    /\ 0 <= i /\ i < slices[b].size
    /\ Put(b, i, <<ToByte(v)>>)

\* fill(value, offset, end), which does not look at the Buffer's size: on a slice it can
\* go on in the memory behind it.  Undefined, and left out: an end less than offset
\* (memset takes the difference for a huge size), or past the block.  A fill with
\* the empty string does not end.
Fill(b, value, offset, end) ==
    /\ 0 <= offset /\ offset <= end /\ end <= Room(blocks, slices[b])
    /\ value = <<>> => offset = end
    /\ PutBytes(b, offset, FillPattern(value, end - offset),
                IF end <= slices[b].size THEN "within" ELSE "beyond")

\* How much write may write.  A sum that an int cannot hold is undefined: the
\* comparison comes out one way or the other.
Limits(size, offset, length) ==
    IF offset + length > MaxInt THEN {length, size - offset}
    ELSE IF offset + length > size THEN {size - offset} ELSE {length}

\* write(string, offset, length), where the string gives these bytes.  Undefined, and
\* left out, is again what goes past the block.
Write(b, bytes, offset, length) ==
    /\ 0 <= length /\ 0 <= offset /\ offset < slices[b].size
    /\ \E limit \in Limits(slices[b].size, offset, length) :
          LET put == SubSeq(bytes, 1, Least(limit, Len(bytes)))
          IN /\ offset + Len(put) <= Room(blocks, slices[b])
             /\ PutBytes(b, offset, put,
                         IF offset + length > MaxInt THEN "beyond" ELSE "within")

\* target.copy from a
Copy(a, target, targetStart, sourceStart, sourceEnd) ==
    LET source == slices[a]
        count == CopyCount(source.size, slices[target].size, targetStart,
                           sourceStart, sourceEnd)
    IN /\ 0 <= targetStart /\ 0 <= sourceStart /\ 0 <= sourceEnd
       /\ sourceStart <= source.size
       /\ Put(target, targetStart,
              SubSeq(Content(blocks, source), sourceStart + 1, sourceStart + count))

\* writeInt8, writeUInt16LE, ...
WriteInteger(b, v, offset, width, signed, little) ==
    /\ Fits(v, width, signed)
    /\ 0 <= offset
    /\ CheckRange(slices[b].size, offset, width)
    /\ Put(b, offset, Encode(v, width, little))

\* writeFloatLE, writeDoubleBE, ...
WriteFloat(b, bits, offset, width, little) ==
    /\ FloatFits(bits)
    /\ 0 <= bits /\ 0 <= offset
    /\ CheckRange(slices[b].size, offset, width)
    /\ Put(b, offset, EncodeFloat(bits, width, little))

-----------------------------------------------------------------------------
Init ==
    /\ live = {}
    /\ slices = [b \in BufferId |-> NullSlice]
    /\ blocks = [k \in Block |-> FreeBlock]
    /\ pending = Idle
    /\ destructs \in Destructs
    /\ wrote = None
    /\ leaked = [k \in Block |-> 0]

Create ==
    /\ pending = Idle
    /\ \E b \in BufferId \ live :
          \/ \E n \in Arg : NewSized(b, n)
          \/ \E bytes \in Datum : NewFromArray(b, bytes)
          \/ \E a, c \in live : \E total \in Arg \cup {Len(Joined(a, c))} :
                Concat(b, a, c, total)
          \/ \E a \in live : NewFromBuffer(b, a)

Begin ==
    /\ pending = Idle
    /\ \/ \E bytes \in Datum : BeginString(bytes)
       \/ \E a \in live, start, end \in Arg : BeginSlice(a, start, end)

Modify ==
    /\ pending = Idle
    /\ \E b \in live :
          \/ \E i, v \in Arg : PutIndexed(b, i, v)
          \/ \E value \in Datum \cup {<<ToByte(v)>> : v \in Arg}, offset, end \in Arg :
                Fill(b, value, offset, end)
          \/ \E bytes \in Datum, offset \in Arg, length \in Arg \cup {MaxInt} :
                Write(b, bytes, offset, length)
          \/ \E a \in live, ts, ss, se \in Arg : Copy(a, b, ts, ss, se)
          \/ \E v, offset \in Arg, width \in Width, signed, little \in BOOLEAN :
                WriteInteger(b, v, offset, width, signed, little)
          \/ \E bits, offset \in Arg, width \in FloatWidth, little \in BOOLEAN :
                WriteFloat(b, bits, offset, width, little)

Next ==
    \/ Create \/ Begin \/ Modify
    \/ \E b \in BufferId \ live : Finish(b)
    \/ \E b \in live : Collect(b)

Spec == Init /\ [][Next]_vars
=============================================================================
