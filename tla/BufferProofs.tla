----------------------------- MODULE BufferProofs -----------------------------
(***************************************************************************)
(* Proofs, for any Buffers, blocks, arguments and builds, of the safety    *)
(* properties of BufferProperties.                                         *)
(***************************************************************************)
EXTENDS BufferProperties, BytesProofs, FiniteSetTheorems, TLAPS

(* Ranges. *)

\* slice's range is in the Buffer, whatever it is given.
LEMMA SliceRangeOK ==
    ASSUME NEW size \in Nat, NEW start \in Int, NEW end \in Int
    PROVE  /\ SliceStart(size, start, end) \in Nat
           /\ SliceSize(size, start, end) \in Nat
           /\ SliceStart(size, start, end) + SliceSize(size, start, end) <= size
BY DEF SliceStart, SliceSize, Index, Least, Greatest

\* copy stays in both Buffers, and so does what follows the bytes it writes.
THEOREM CopyInBounds ==
    ASSUME NEW source \in Nat, NEW target \in Nat, NEW targetStart \in Nat,
           NEW sourceStart \in 0..source, NEW sourceEnd \in Nat
    PROVE  LET count == CopyCount(source, target, targetStart, sourceStart, sourceEnd)
           IN /\ count \in Nat
              /\ sourceStart + count <= source
              /\ count > 0 => targetStart + count <= target
BY DEF CopyCount, Least

-----------------------------------------------------------------------------
(* The inductive invariant: InBounds and CountsExact, and types that say      *)
(* nothing of the values of bytes (FillPattern is defined by recursion).      *)

IsSeq(s) == \E S : s \in Seq(S)

Memory(m) ==
    /\ m = [k \in Block |-> m[k]]
    /\ \A k \in Block :
          /\ m[k] = [ref |-> m[k].ref, bytes |-> m[k].bytes]
          /\ m[k].ref \in Nat
          /\ IsSeq(m[k].bytes)

Typed ==
    /\ live \subseteq BufferId
    /\ slices \in [BufferId -> Slice]
    /\ Memory(blocks)
    /\ pending.slice \in Slice
    /\ pending = Idle => pending.slice = NullSlice
    /\ leaked \in [Block -> Nat]

Inv == Typed /\ InBounds /\ CountsExact

\* SliceOK, for any memory.
SliceIn(s, m) ==
    IF s.block = Null THEN s = NullSlice
    ELSE /\ m[s.block].ref > 0
         /\ s.begin + s.size <= Len(m[s.block].bytes)
         /\ s.size = 0 => Len(m[s.block].bytes) = 0

One(p) == IF p THEN 1 ELSE 0

LEMMA InvInit == Init => Inv
<1> SUFFICES ASSUME Init PROVE Inv
  OBVIOUS
<1>1. Typed
  <2>1. IsSeq(<<>>)
    <3>1. <<>> \in Seq({})
      OBVIOUS
    <3> QED
      BY <3>1 DEF IsSeq
  <2>2. Memory(blocks)
    BY <2>1 DEF Init, Memory, FreeBlock
  <2> QED
    BY <2>2 DEF Init, Typed, Idle, NullSlice, Slice
<1>2. InBounds
  BY DEF Init, InBounds, SliceOK, Idle, NullSlice
<1>3. CountsExact
  <2> SUFFICES ASSUME NEW k \in Block
               PROVE  blocks[k].ref = Cardinality(Holders(k)) + leaked[k]
                                      + (IF pending.slice.block = k THEN 1 ELSE 0)
    BY DEF CountsExact
  <2>1. Holders(k) = {}
    BY DEF Init, Holders
  <2>2. Cardinality(Holders(k)) = 0
    BY <2>1, FS_EmptySet
  <2>3. pending.slice.block # k
    BY BufferAssumption DEF Init, Idle, NullSlice
  <2>4. blocks[k].ref = 0 /\ leaked[k] = 0
    BY DEF Init, FreeBlock
  <2> QED
    BY <2>2, <2>3, <2>4
<1> QED
  BY <1>1, <1>2, <1>3 DEF Inv

-----------------------------------------------------------------------------
(* The operations on memory. *)

LEMMA FunctionIsSeq ==
    ASSUME NEW n \in Nat, NEW f, f = [i \in 1..n |-> f[i]]
    PROVE  IsSeq(f) /\ Len(f) = n
<1> DEFINE S == {f[i] : i \in 1..n}
<1>1. f \in [1..n -> S]
  OBVIOUS
<1>2. f \in Seq(S) /\ Len(f) = n
  BY <1>1
<1> QED
  BY <1>2 DEF IsSeq

LEMMA ConcatIsSeq ==
    ASSUME NEW s, NEW t, IsSeq(s), IsSeq(t)
    PROVE  IsSeq(s \o t)
<1>1. PICK S : s \in Seq(S)
  BY DEF IsSeq
<1>2. PICK T : t \in Seq(T)
  BY DEF IsSeq
<1>3. s \in Seq(S \cup T) /\ t \in Seq(S \cup T)
  BY <1>1, <1>2
<1>4. s \o t \in Seq(S \cup T)
  BY <1>3
<1> QED
  BY <1>4 DEF IsSeq

LEMMA RetainedOK ==
    ASSUME NEW m, Memory(m), NEW s \in Slice
    PROVE  /\ Memory(Retained(m, s))
           /\ \A k \in Block :
                 /\ Retained(m, s)[k].ref = m[k].ref + One(s.block = k)
                 /\ Retained(m, s)[k].bytes = m[k].bytes
<1>1. CASE s.block = Null
  BY <1>1, BufferAssumption DEF Retained, Memory, One
<1>2. CASE s.block # Null
  <2>1. s.block \in Block
    BY <1>2 DEF Slice
  <2>2. \A k \in Block :
           Retained(m, s)[k] = [ref |-> m[k].ref + One(s.block = k), bytes |-> m[k].bytes]
    BY <1>2, <2>1 DEF Retained, Memory, One
  <2>3. Retained(m, s) = [k \in Block |-> Retained(m, s)[k]]
    BY <1>2, <2>1 DEF Retained, Memory
  <2> DEFINE ref == [k \in Block |-> m[k].ref + One(s.block = k)]
             bytes == [k \in Block |-> m[k].bytes]
  <2>4. \A k \in Block :
           /\ Retained(m, s)[k] = [ref |-> ref[k], bytes |-> bytes[k]]
           /\ ref[k] \in Nat /\ IsSeq(bytes[k])
    BY <2>2 DEF Memory, One
  <2>5. /\ Memory(Retained(m, s))
        /\ \A k \in Block : /\ Retained(m, s)[k].ref = ref[k]
                             /\ Retained(m, s)[k].bytes = bytes[k]
    <3> HIDE DEF ref, bytes
    <3>1. ASSUME NEW k \in Block
          PROVE  /\ Retained(m, s)[k].ref = ref[k]
                 /\ Retained(m, s)[k].bytes = bytes[k]
                 /\ Retained(m, s)[k] = [ref |-> Retained(m, s)[k].ref,
                                   bytes |-> Retained(m, s)[k].bytes]
                 /\ ref[k] \in Nat /\ IsSeq(bytes[k])
      <4>1. /\ Retained(m, s)[k] = [ref |-> ref[k], bytes |-> bytes[k]]
            /\ ref[k] \in Nat /\ IsSeq(bytes[k])
        BY <2>4
      <4> QED
        BY <4>1
    <3>2. \A k \in Block :
            /\ Retained(m, s)[k] = [ref |-> Retained(m, s)[k].ref, bytes |-> Retained(m, s)[k].bytes]
            /\ Retained(m, s)[k].ref \in Nat
            /\ IsSeq(Retained(m, s)[k].bytes)
      BY <3>1
    <3> QED
      BY <2>3, <3>1, <3>2 DEF Memory
  <2> QED
    BY <2>5
<1> QED
  BY <1>1, <1>2

LEMMA ReleasedOK ==
    ASSUME NEW m, Memory(m), NEW s \in Slice, SliceIn(s, m)
    PROVE  /\ Memory(Released(m, s))
           /\ \A k \in Block :
                 /\ Released(m, s)[k].ref = m[k].ref - One(s.block = k)
                 /\ Released(m, s)[k].ref > 0 \/ s.block # k =>
                       Released(m, s)[k].bytes = m[k].bytes
<1>1. CASE s.block = Null
  BY <1>1, BufferAssumption DEF Released, Memory, One
<1>2. CASE s.block # Null
  <2>1. s.block \in Block /\ m[s.block].ref \in Nat /\ m[s.block].ref > 0
    BY <1>2 DEF Slice, Memory, SliceIn
  <2>2. IsSeq(<<>>)
    <3>1. <<>> \in Seq({})
      OBVIOUS
    <3> QED
      BY <3>1 DEF IsSeq
  <2>3. CASE m[s.block].ref = 1
    <3>1. Released(m, s) = [m EXCEPT ![s.block] = FreeBlock]
      BY <1>2, <2>3 DEF Released
    <3>2. \A k \in Block : Released(m, s)[k] = IF s.block = k THEN FreeBlock ELSE m[k]
      BY <3>1, <2>1 DEF Memory
    <3>3. Released(m, s) = [k \in Block |-> Released(m, s)[k]]
      BY <3>1, <2>1 DEF Memory
    <3> DEFINE ref == [k \in Block |-> IF s.block = k THEN 0 ELSE m[k].ref]
               bytes == [k \in Block |-> IF s.block = k THEN <<>> ELSE m[k].bytes]
    <3>4. \A k \in Block :
             /\ Released(m, s)[k] = [ref |-> ref[k], bytes |-> bytes[k]]
             /\ ref[k] \in Nat /\ IsSeq(bytes[k])
      BY <2>2, <3>2 DEF Memory, FreeBlock
    <3>5. /\ Memory(Released(m, s))
          /\ \A k \in Block : /\ Released(m, s)[k].ref = ref[k]
                               /\ Released(m, s)[k].bytes = bytes[k]
      <4> HIDE DEF ref, bytes
      <4>1. ASSUME NEW k \in Block
            PROVE  /\ Released(m, s)[k].ref = ref[k]
                   /\ Released(m, s)[k].bytes = bytes[k]
                   /\ Released(m, s)[k] = [ref |-> Released(m, s)[k].ref,
                                     bytes |-> Released(m, s)[k].bytes]
                   /\ ref[k] \in Nat /\ IsSeq(bytes[k])
        <5>1. /\ Released(m, s)[k] = [ref |-> ref[k], bytes |-> bytes[k]]
              /\ ref[k] \in Nat /\ IsSeq(bytes[k])
          BY <3>4
        <5> QED
          BY <5>1
      <4>2. \A k \in Block :
              /\ Released(m, s)[k] = [ref |-> Released(m, s)[k].ref, bytes |-> Released(m, s)[k].bytes]
              /\ Released(m, s)[k].ref \in Nat
              /\ IsSeq(Released(m, s)[k].bytes)
        BY <4>1
      <4> QED
        BY <3>3, <4>1, <4>2 DEF Memory
    <3> QED
      BY <2>3, <3>5 DEF Memory, One
  <2>4. CASE m[s.block].ref # 1
    <3>1. Released(m, s) = [m EXCEPT ![s.block].ref = @ - 1]
      BY <1>2, <2>4 DEF Released
    <3>2. \A k \in Block :
             Released(m, s)[k] = [ref |-> m[k].ref - One(s.block = k), bytes |-> m[k].bytes]
      BY <3>1, <2>1 DEF Memory, One
    <3>3. Released(m, s) = [k \in Block |-> Released(m, s)[k]]
      BY <3>1, <2>1 DEF Memory
    <3> DEFINE ref == [k \in Block |-> m[k].ref - One(s.block = k)]
               bytes == [k \in Block |-> m[k].bytes]
    <3>4. \A k \in Block :
             /\ Released(m, s)[k] = [ref |-> ref[k], bytes |-> bytes[k]]
             /\ ref[k] \in Nat /\ IsSeq(bytes[k])
      BY <2>1, <2>4, <3>2 DEF Memory, One
    <3>5. /\ Memory(Released(m, s))
          /\ \A k \in Block : /\ Released(m, s)[k].ref = ref[k]
                               /\ Released(m, s)[k].bytes = bytes[k]
      <4> HIDE DEF ref, bytes
      <4>1. ASSUME NEW k \in Block
            PROVE  /\ Released(m, s)[k].ref = ref[k]
                   /\ Released(m, s)[k].bytes = bytes[k]
                   /\ Released(m, s)[k] = [ref |-> Released(m, s)[k].ref,
                                     bytes |-> Released(m, s)[k].bytes]
                   /\ ref[k] \in Nat /\ IsSeq(bytes[k])
        <5>1. /\ Released(m, s)[k] = [ref |-> ref[k], bytes |-> bytes[k]]
              /\ ref[k] \in Nat /\ IsSeq(bytes[k])
          BY <3>4
        <5> QED
          BY <5>1
      <4>2. \A k \in Block :
              /\ Released(m, s)[k] = [ref |-> Released(m, s)[k].ref, bytes |-> Released(m, s)[k].bytes]
              /\ Released(m, s)[k].ref \in Nat
              /\ IsSeq(Released(m, s)[k].bytes)
        BY <4>1
      <4> QED
        BY <3>3, <4>1, <4>2 DEF Memory
    <3> QED
      BY <3>5
  <2> QED
    BY <2>3, <2>4
<1> QED
  BY <1>1, <1>2

LEMMA AllocatedOK ==
    ASSUME NEW m, Memory(m), NEW k \in Block, NEW bytes, IsSeq(bytes)
    PROVE  /\ Memory(Allocated(m, k, bytes))
           /\ Allocated(m, k, bytes)[k] = [ref |-> 1, bytes |-> bytes]
           /\ \A j \in Block : j # k => Allocated(m, k, bytes)[j] = m[j]
BY DEF Memory, Allocated

LEMMA WrittenOK ==
    ASSUME NEW m, Memory(m), NEW s \in Slice, NEW at, NEW bytes,
           s.block # Null \/ bytes = <<>>
    PROVE  /\ Memory(Written(m, s, at, bytes))
           /\ \A k \in Block :
                 /\ Written(m, s, at, bytes)[k].ref = m[k].ref
                 /\ Len(Written(m, s, at, bytes)[k].bytes) = Len(m[k].bytes)
<1>1. CASE bytes = <<>>
  BY <1>1 DEF Written
<1>2. CASE bytes # <<>>
  <2> DEFINE first == s.begin + at
             old == m[s.block].bytes
             new == [j \in DOMAIN old |-> IF j - first \in 1..Len(bytes)
                                          THEN bytes[j - first] ELSE old[j]]
  <2>1. s.block \in Block
    BY <1>2 DEF Slice
  <2>2. IsSeq(new) /\ Len(new) = Len(old)
    <3>1. PICK S : old \in Seq(S)
      BY <2>1 DEF Memory, IsSeq
    <3>2. Len(old) \in Nat /\ DOMAIN old = 1..Len(old)
      BY <3>1
    <3>3. new = [j \in 1..Len(old) |-> new[j]]
      BY <3>2
    <3> HIDE DEF new
    <3> QED
      BY <3>2, <3>3, FunctionIsSeq
  <2>3. Written(m, s, at, bytes) = [m EXCEPT ![s.block].bytes = new]
    BY <1>2 DEF Written
  <2> HIDE DEF new, old
  <2>4. \A k \in Block :
           Written(m, s, at, bytes)[k] =
             [ref |-> m[k].ref, bytes |-> IF k = s.block THEN new ELSE m[k].bytes]
    BY <2>1, <2>3 DEF Memory
  <2>5. Written(m, s, at, bytes) = [k \in Block |-> Written(m, s, at, bytes)[k]]
    BY <2>1, <2>3 DEF Memory
  <2> DEFINE ref == [k \in Block |-> m[k].ref]
             parts == [k \in Block |-> IF k = s.block THEN new ELSE m[k].bytes]
  <2>6. \A k \in Block :
           /\ Written(m, s, at, bytes)[k] = [ref |-> ref[k], bytes |-> parts[k]]
           /\ ref[k] \in Nat /\ IsSeq(parts[k])
    BY <2>2, <2>4 DEF Memory
  <2>7. /\ Memory(Written(m, s, at, bytes))
        /\ \A k \in Block : /\ Written(m, s, at, bytes)[k].ref = ref[k]
                             /\ Written(m, s, at, bytes)[k].bytes = parts[k]
    <3> HIDE DEF ref, parts
    <3>1. ASSUME NEW k \in Block
          PROVE  /\ Written(m, s, at, bytes)[k].ref = ref[k]
                 /\ Written(m, s, at, bytes)[k].bytes = parts[k]
                 /\ Written(m, s, at, bytes)[k] = [ref |-> Written(m, s, at, bytes)[k].ref,
                                   bytes |-> Written(m, s, at, bytes)[k].bytes]
                 /\ ref[k] \in Nat /\ IsSeq(parts[k])
      <4>1. /\ Written(m, s, at, bytes)[k] = [ref |-> ref[k], bytes |-> parts[k]]
            /\ ref[k] \in Nat /\ IsSeq(parts[k])
        BY <2>6
      <4> QED
        BY <4>1
    <3>2. \A k \in Block :
            /\ Written(m, s, at, bytes)[k] = [ref |-> Written(m, s, at, bytes)[k].ref, bytes |-> Written(m, s, at, bytes)[k].bytes]
            /\ Written(m, s, at, bytes)[k].ref \in Nat
            /\ IsSeq(Written(m, s, at, bytes)[k].bytes)
      BY <3>1
    <3> QED
      BY <2>5, <3>1, <3>2 DEF Memory
  <2> QED
    BY <2>2, <2>7 DEF old
<1> QED
  BY <1>1, <1>2

\* A slice of a slice is in its block.
LEMMA SubSliceOK ==
    ASSUME NEW m, Memory(m), NEW s \in Slice, SliceIn(s, m),
           NEW offset \in Nat, NEW size \in Nat \cup {-1},
           size = -1 => offset = 0,
           offset + size <= s.size
    PROVE  /\ SubSlice(m, s, offset, size) \in Slice
           /\ SliceIn(SubSlice(m, s, offset, size), m)
           /\ SubSlice(m, s, offset, size).block \in {Null, s.block}
<1>1. CASE s.block = Null \/ size = 0
  BY <1>1 DEF SubSlice, Slice, SliceIn, NullSlice
<1>2. CASE s.block # Null /\ size # 0
  <2>1. /\ s.block \in Block /\ s.begin \in Nat /\ s.size \in Nat
        /\ Len(m[s.block].bytes) \in Nat
    <3>1. s.block \in Block
      BY <1>2 DEF Slice
    <3>2. PICK S : m[s.block].bytes \in Seq(S)
      BY <3>1 DEF Memory, IsSeq
    <3> QED
      BY <3>1, <3>2 DEF Slice
  <2>2. SubSlice(m, s, offset, size) =
          [block |-> s.block, begin |-> s.begin + offset,
           size |-> IF size = -1 THEN s.size ELSE size]
    <3>1. size = -1 /\ s.size = 0 => Len(m[s.block].bytes) = s.size
      BY <1>2 DEF SliceIn
    <3> QED
      BY <1>2, <2>1, <3>1 DEF SubSlice, SetData
  <2> QED
    BY <1>2, <2>1, <2>2 DEF Slice, SliceIn
<1> QED
  BY <1>1, <1>2

\* A copy of a slice, with the size -1.
LEMMA SameSlice ==
    ASSUME NEW m, Memory(m), NEW s \in Slice, SliceIn(s, m)
    PROVE  SubSlice(m, s, 0, -1) = s
<1>1. CASE s.block = Null
  BY <1>1 DEF SubSlice, SliceIn
<1>2. CASE s.block # Null
  <2>1. s.size = 0 => Len(m[s.block].bytes) = s.size
    BY <1>2 DEF SliceIn
  <2>2. s.begin \in Nat /\ s.size \in Nat
    BY DEF Slice
  <2>3. SubSlice(m, s, 0, -1) = [block |-> s.block, begin |-> s.begin, size |-> s.size]
    BY <1>2, <2>1, <2>2 DEF SubSlice, SetData
  <2> QED
    BY <2>3 DEF Slice
<1> QED
  BY <1>1, <1>2

\* Blocks hold bytes, and the operations keep it so.
BytesIn(m) == \A k \in Block : m[k].bytes \in Seq(Byte)

LEMMA MemoryBytes ==
    ASSUME NEW m, Memory(m), BytesIn(m), NEW s \in Slice
    PROVE  /\ BytesIn(Retained(m, s))
           /\ SliceIn(s, m) => BytesIn(Released(m, s))
           /\ \A k \in Block, bytes \in Seq(Byte) : BytesIn(Allocated(m, k, bytes))
           /\ \A bytes \in Seq(Byte) : \A at :
                 s.block # Null \/ bytes = <<>> => BytesIn(Written(m, s, at, bytes))
<1>1. BytesIn(Retained(m, s))
  BY RetainedOK DEF BytesIn
<1>2. ASSUME SliceIn(s, m) PROVE BytesIn(Released(m, s))
  <2>1. CASE s.block = Null
    BY <2>1 DEF Released
  <2>2. CASE s.block # Null
    <3>1. s.block \in Block
      BY <2>2 DEF Slice
    <3>2. CASE m[s.block].ref = 1
      <4>1. Released(m, s) = [m EXCEPT ![s.block] = FreeBlock]
        BY <2>2, <3>2 DEF Released
      <4>2. \A k \in Block : Released(m, s)[k] = IF k = s.block THEN FreeBlock ELSE m[k]
        BY <3>1, <4>1 DEF Memory
      <4>3. FreeBlock.bytes \in Seq(Byte)
        BY DEF FreeBlock
      <4> QED
        BY <4>2, <4>3 DEF BytesIn
    <3>3. CASE m[s.block].ref # 1
      <4>1. Released(m, s) = [m EXCEPT ![s.block].ref = @ - 1]
        BY <2>2, <3>3 DEF Released
      <4>2. \A k \in Block : Released(m, s)[k].bytes = m[k].bytes
        BY <3>1, <4>1 DEF Memory
      <4> QED
        BY <4>2 DEF BytesIn
    <3> QED
      BY <3>2, <3>3
  <2> QED
    BY <2>1, <2>2
<1>3. ASSUME NEW k \in Block, NEW bytes \in Seq(Byte) PROVE BytesIn(Allocated(m, k, bytes))
  <2>1. IsSeq(bytes)
    BY DEF IsSeq
  <2>2. /\ Allocated(m, k, bytes)[k] = [ref |-> 1, bytes |-> bytes]
        /\ \A j \in Block : j # k => Allocated(m, k, bytes)[j] = m[j]
    BY <2>1, AllocatedOK
  <2>3. ASSUME NEW j \in Block PROVE Allocated(m, k, bytes)[j].bytes \in Seq(Byte)
    BY <2>2 DEF BytesIn
  <2> QED
    BY <2>3 DEF BytesIn
<1>4. ASSUME NEW bytes \in Seq(Byte), NEW at, s.block # Null \/ bytes = <<>>
      PROVE  BytesIn(Written(m, s, at, bytes))
  <2>1. CASE bytes = <<>>
    BY <2>1 DEF Written
  <2>2. CASE bytes # <<>>
    <3> DEFINE first == s.begin + at
               old == m[s.block].bytes
               new == [j \in DOMAIN old |-> IF j - first \in 1..Len(bytes)
                                            THEN bytes[j - first] ELSE old[j]]
    <3>1. s.block \in Block
      BY <1>4, <2>2 DEF Slice
    <3>2. old \in Seq(Byte)
      BY <3>1 DEF BytesIn
    <3>3. new \in Seq(Byte)
      <4> HIDE DEF old, first
      <4>1. Len(old) \in Nat /\ DOMAIN old = 1..Len(old) /\ \A j \in 1..Len(old) : old[j] \in Byte
        BY <3>2
      <4>2. \A i \in 1..Len(bytes) : bytes[i] \in Byte
        OBVIOUS
      <4>3. new \in [1..Len(old) -> Byte]
        BY <4>1, <4>2
      <4> QED
        BY <4>1, <4>3
    <3>4. Written(m, s, at, bytes) = [m EXCEPT ![s.block].bytes = new]
      BY <2>2 DEF Written
    <3> HIDE DEF new
    <3>5. \A k \in Block :
             Written(m, s, at, bytes)[k].bytes = IF k = s.block THEN new ELSE m[k].bytes
      BY <3>1, <3>4 DEF Memory
    <3> QED
      BY <3>3, <3>5 DEF BytesIn
  <2> QED
    BY <2>1, <2>2
<1> QED
  BY <1>1, <1>2, <1>3, <1>4

-----------------------------------------------------------------------------
(* Holders. *)

LEMMA HoldersFinite ==
    ASSUME Typed, NEW k
    PROVE  IsFiniteSet(Holders(k)) /\ Cardinality(Holders(k)) \in Nat
<1>1. Holders(k) \subseteq BufferId
  BY DEF Holders, Typed
<1> QED
  BY <1>1, BufferAssumption, FS_Subset, FS_CardinalityType

\* A free block is held by nothing.
LEMMA FreeUnheld ==
    ASSUME Inv, NEW k \in Block, blocks[k].ref = 0
    PROVE  Holders(k) = {} /\ leaked[k] = 0 /\ pending.slice.block # k
<1>1. Cardinality(Holders(k)) \in Nat /\ leaked[k] \in Nat
  BY HoldersFinite DEF Inv, Typed
<1>2. Cardinality(Holders(k)) = 0 /\ leaked[k] = 0 /\ pending.slice.block # k
  BY <1>1 DEF Inv, CountsExact
<1> QED
  BY <1>2, HoldersFinite, FS_EmptySet DEF Inv

\* A new Buffer adds to the holders of its block.
LEMMA BecomeHolds ==
    ASSUME Typed, NEW b \in BufferId \ live, NEW s \in Slice, Become(b, s)
    PROVE  /\ live' \subseteq BufferId
           /\ slices' \in [BufferId -> Slice]
           /\ \A k \in Block :
                 Cardinality(Holders(k)') = Cardinality(Holders(k)) + One(s.block = k)
<1>1. live' \subseteq BufferId /\ slices' \in [BufferId -> Slice]
  BY DEF Typed, Become
<1>2. ASSUME NEW k \in Block
      PROVE  Cardinality(Holders(k)') = Cardinality(Holders(k)) + One(s.block = k)
  <2>1. b \notin Holders(k) /\ IsFiniteSet(Holders(k)) /\ Cardinality(Holders(k)) \in Nat
    BY HoldersFinite DEF Holders
  <2>2. CASE s.block = k
    <3>1. Holders(k)' = Holders(k) \cup {b}
      BY <2>2 DEF Holders, Become, Typed
    <3> QED
      BY <2>1, <2>2, <3>1, FS_AddElement DEF One
  <2>3. CASE s.block # k
    <3>1. Holders(k)' = Holders(k)
      BY <2>3 DEF Holders, Become, Typed
    <3> QED
      BY <2>1, <2>3, <3>1 DEF One
  <2> QED
    BY <2>2, <2>3
<1> QED
  BY <1>1, <1>2
\* A collected one is removed from them.
LEMMA CollectHolds ==
    ASSUME Typed, NEW b \in live, Collect(b)
    PROVE  /\ live' \subseteq BufferId
           /\ slices' \in [BufferId -> Slice]
           /\ \A k \in Block :
                 Cardinality(Holders(k)') = Cardinality(Holders(k)) - One(slices[b].block = k)
<1>1. live' \subseteq BufferId /\ slices' \in [BufferId -> Slice]
  BY DEF Typed, Collect, Slice, NullSlice
<1>2. ASSUME NEW k \in Block
      PROVE  Cardinality(Holders(k)') = Cardinality(Holders(k)) - One(slices[b].block = k)
  <2>1. IsFiniteSet(Holders(k)) /\ Cardinality(Holders(k)) \in Nat
    BY HoldersFinite
  <2>2. Holders(k)' = Holders(k) \ {b}
    BY DEF Holders, Collect, Typed
  <2>3. b \in Holders(k) <=> slices[b].block = k
    BY DEF Holders
  <2>4. CASE b \in Holders(k)
    BY <2>1, <2>2, <2>3, <2>4, FS_RemoveElement DEF One
  <2>5. CASE b \notin Holders(k)
    <3>1. Holders(k)' = Holders(k)
      BY <2>2, <2>5
    <3> QED
      BY <2>1, <2>3, <2>5, <3>1 DEF One
  <2> QED
    BY <2>4, <2>5
<1> QED
  BY <1>1, <1>2

-----------------------------------------------------------------------------
(* The steps. *)

LEMMA InBoundsIn ==
    InBounds <=> (\A b \in live : SliceIn(slices[b], blocks)) /\ SliceIn(pending.slice, blocks)
BY DEF InBounds, SliceOK, SliceIn

LEMMA CountsOne ==
    CountsExact <=> \A k \in Block :
        blocks[k].ref = Cardinality(Holders(k)) + leaked[k] + One(pending.slice.block = k)
BY DEF CountsExact, One

LEMMA NewWithInv ==
    ASSUME Inv, NEW b \in BufferId \ live, NEW bytes, IsSeq(bytes), NewWith(b, bytes),
           UNCHANGED <<pending, leaked>>
    PROVE  Inv'
<1> USE DEF Inv
<1>1. CASE bytes = <<>>
  <2>1. Become(b, NullSlice) /\ UNCHANGED blocks
    BY <1>1 DEF NewWith
  <2>2. NullSlice \in Slice /\ NullSlice.block \notin Block
    BY BufferAssumption DEF NullSlice, Slice
  <2>3. Typed'
    BY <2>1, <2>2, BecomeHolds DEF Typed
  <2>4. InBounds'
    BY <2>1 DEF InBounds, SliceOK, Become, NullSlice, Typed
  <2>5. CountsExact'
    <3>1. \A k \in Block : Cardinality(Holders(k)') = Cardinality(Holders(k))
      BY <2>1, <2>2, BecomeHolds, HoldersFinite DEF One
    <3> QED
      BY <2>1, <3>1 DEF CountsExact
  <2> QED
    BY <2>3, <2>4, <2>5
<1>2. CASE bytes # <<>>
  <2>1. PICK k \in Block : /\ blocks[k].ref = 0
                           /\ blocks' = Allocated(blocks, k, bytes)
                           /\ Become(b, SetData(blocks', k, 0, -1))
    BY <1>2 DEF NewWith
  <2> DEFINE s == SetData(blocks', k, 0, -1)
  <2>2. /\ Memory(blocks')
        /\ blocks'[k].ref = 1 /\ blocks'[k].bytes = bytes
        /\ \A j \in Block : j # k => blocks'[j] = blocks[j]
    <3>1. Memory(blocks)
      BY DEF Typed
    <3>2. /\ Memory(Allocated(blocks, k, bytes))
          /\ Allocated(blocks, k, bytes)[k] = [ref |-> 1, bytes |-> bytes]
          /\ \A j \in Block : j # k => Allocated(blocks, k, bytes)[j] = blocks[j]
      BY <3>1, AllocatedOK
    <3> QED
      BY <2>1, <3>2
  <2>3. Len(bytes) \in Nat /\ Len(bytes) > 0
    BY <1>2 DEF IsSeq
  <2>4. s = [block |-> k, begin |-> 0, size |-> Len(bytes)] /\ s \in Slice
    BY <2>2, <2>3 DEF SetData, Slice
  <2>5. Become(b, s)
    BY <2>1
  <2> HIDE DEF s
  <2>6. Holders(k) = {} /\ leaked[k] = 0 /\ pending.slice.block # k
    BY <2>1, FreeUnheld
  <2>7. Typed'
    BY <2>2, <2>4, <2>5, BecomeHolds DEF Typed
  <2>8. InBounds'
    <3>1. SliceIn(s, blocks')
      BY <2>2, <2>3, <2>4, BufferAssumption DEF SliceIn
    <3>2. SliceIn(pending.slice, blocks')
      BY <2>2, <2>6 DEF InBounds, SliceOK, SliceIn, Typed, Slice
    <3>3. \A a \in live : SliceIn(slices[a], blocks')
      <4> SUFFICES ASSUME NEW a \in live PROVE SliceIn(slices[a], blocks')
        OBVIOUS
      <4>1. slices[a] \in Slice /\ slices[a].block # k
        BY <2>6 DEF Holders, Typed
      <4> QED
        BY <2>2, <4>1 DEF InBounds, SliceOK, SliceIn, Slice
    <3>4. \A a \in live' : slices'[a] = IF a = b THEN s ELSE slices[a]
      BY <2>5 DEF Become, Typed
    <3>5. \A a \in live' : SliceIn(slices'[a], blocks')
      BY <2>5, <3>1, <3>3, <3>4 DEF Become
    <3> QED
      BY <3>2, <3>5 DEF InBounds, SliceOK, SliceIn
  <2>9. CountsExact'
    <3> SUFFICES ASSUME NEW j \in Block
                 PROVE  blocks'[j].ref = Cardinality(Holders(j)') + leaked[j]
                                         + One(pending.slice.block = j)
      BY DEF CountsExact, One
    <3>1. Cardinality(Holders(j)') = Cardinality(Holders(j)) + One(k = j)
      BY <2>4, <2>5, BecomeHolds
    <3>2. Cardinality(Holders(j)) \in Nat /\ leaked[j] \in Nat
      BY HoldersFinite DEF Typed
    <3>3. CASE j = k
      <4>1. Cardinality(Holders(j)) = 0
        BY <2>6, <3>3, FS_EmptySet
      <4> QED
        BY <2>2, <2>6, <3>1, <3>3, <4>1 DEF One
    <3>4. CASE j # k
      <4>1. blocks[j].ref = Cardinality(Holders(j)) + leaked[j] + One(pending.slice.block = j)
        BY CountsOne
      <4> QED
        BY <2>2, <3>1, <3>2, <3>4, <4>1 DEF One
    <3> QED
      BY <3>3, <3>4
  <2> QED
    BY <2>7, <2>8, <2>9
<1> QED
  BY <1>1, <1>2

\* A new Buffer that shares a block, and the end of slice() and of the constructor
\* from a string, where the slice on the stack goes at the same time.
LEMMA ShareInv ==
    ASSUME Inv, NEW b \in BufferId \ live, NEW s \in Slice, SliceIn(s, blocks),
           Become(b, s), Memory(blocks'), leaked' = leaked,
           pending'.slice \in Slice, pending' = Idle => pending'.slice = NullSlice,
           pending'.slice \in {pending.slice, NullSlice},
           \A k \in Block :
              /\ blocks'[k].ref = blocks[k].ref + One(s.block = k)
                                  + One(pending'.slice.block = k)
                                  - One(pending.slice.block = k)
              /\ blocks'[k].bytes = blocks[k].bytes,
           pending'.slice = pending.slice \/ pending.slice.block = s.block
    PROVE  Inv'
<1> USE DEF Inv
<1>1. Typed'
  BY BecomeHolds DEF Typed
<1>2. \A k \in Block : blocks[k].ref \in Nat /\ blocks'[k].ref \in Nat
  BY DEF Typed, Memory
<1>3. \A k \in Block : blocks[k].ref > 0 => blocks'[k].ref > 0
  BY <1>2 DEF One
<1>4. \A t \in Slice : SliceIn(t, blocks) => SliceIn(t, blocks')
  BY <1>3 DEF SliceIn, Slice
<1>5. InBounds'
  <2>1. SliceIn(pending'.slice, blocks')
    <3>1. SliceIn(NullSlice, blocks') /\ SliceIn(pending.slice, blocks)
      BY InBoundsIn DEF SliceIn, NullSlice
    <3> QED
      BY <3>1, <1>4 DEF Typed
  <2>2. \A a \in live' : slices'[a] = IF a = b THEN s ELSE slices[a]
    BY DEF Become, Typed
  <2>3. \A a \in live : SliceIn(slices[a], blocks) /\ slices[a] \in Slice
    BY InBoundsIn DEF Typed
  <2>4. \A a \in live' : SliceIn(slices'[a], blocks')
    BY <1>4, <2>2, <2>3 DEF Become
  <2> QED
    BY <2>1, <2>4 DEF InBounds, SliceOK, SliceIn
<1>6. CountsExact'
  <2> SUFFICES ASSUME NEW k \in Block
               PROVE  blocks'[k].ref = Cardinality(Holders(k)') + leaked[k]
                                       + One(pending'.slice.block = k)
    BY DEF CountsExact, One
  <2>1. Cardinality(Holders(k)') = Cardinality(Holders(k)) + One(s.block = k)
    BY BecomeHolds
  <2>2. Cardinality(Holders(k)) \in Nat /\ leaked[k] \in Nat
    BY HoldersFinite DEF Typed
  <2>3. blocks[k].ref = Cardinality(Holders(k)) + leaked[k] + One(pending.slice.block = k)
    BY CountsOne
  <2>4. One(pending.slice.block = k) \in Nat /\ One(pending'.slice.block = k) \in Nat
        /\ One(s.block = k) \in Nat
    BY DEF One
  <2> QED
    BY <2>1, <2>2, <2>3, <2>4
<1> QED
  BY <1>1, <1>5, <1>6

LEMMA NewFromBufferInv ==
    ASSUME Inv, NEW b \in BufferId \ live, NEW a \in live, NewFromBuffer(b, a),
           pending = Idle
    PROVE  Inv'
<1> DEFINE s == SubSlice(blocks, slices[a], 0, -1)
<1>1. Memory(blocks) /\ slices[a] \in Slice /\ SliceIn(slices[a], blocks)
      /\ slices[a].size \in Nat
  BY InBoundsIn DEF Inv, Typed, Slice
<1>2. s \in Slice /\ SliceIn(s, blocks)
  BY <1>1, SubSliceOK
<1>3. Become(b, s) /\ blocks' = Retained(blocks, s) /\ pending' = pending /\ leaked' = leaked
  BY DEF NewFromBuffer
<1> HIDE DEF s
<1>4. /\ Memory(Retained(blocks, s))
      /\ \A k \in Block : /\ Retained(blocks, s)[k].ref = blocks[k].ref + One(s.block = k)
                          /\ Retained(blocks, s)[k].bytes = blocks[k].bytes
  BY <1>1, <1>2, RetainedOK
<1>5. Memory(blocks')
      /\ \A k \in Block :
            /\ blocks'[k].ref = blocks[k].ref + One(s.block = k)
                                + One(pending'.slice.block = k) - One(pending.slice.block = k)
            /\ blocks'[k].bytes = blocks[k].bytes
  <2>1. \A k \in Block : blocks[k].ref \in Nat
    BY <1>1 DEF Memory
  <2> QED
    BY <1>3, <1>4, <2>1 DEF One
<1> QED
  BY <1>2, <1>3, <1>5, ShareInv DEF Inv, Typed

LEMMA FinishInv ==
    ASSUME Inv, NEW b \in BufferId \ live, Finish(b)
    PROVE  Inv'
<1> DEFINE s == SubSlice(blocks, pending.slice, 0, -1)
           m == Retained(blocks, s)
<1>1. Memory(blocks) /\ pending.slice \in Slice /\ SliceIn(pending.slice, blocks)
      /\ pending.slice.size \in Nat
  BY InBoundsIn DEF Inv, Typed, Slice
<1>2. s \in Slice /\ SliceIn(s, blocks)
  BY <1>1, SubSliceOK
<1>3. s.block = pending.slice.block
  BY <1>1 DEF SubSlice, SetData, NullSlice, SliceIn
<1>4. Become(b, s) /\ blocks' = Released(m, pending.slice) /\ pending' = Idle
      /\ leaked' = leaked
  BY DEF Finish
<1> HIDE DEF s
<1>5. Memory(m) /\ \A k \in Block : /\ m[k].ref = blocks[k].ref + One(s.block = k)
                                    /\ m[k].bytes = blocks[k].bytes
  BY <1>1, <1>2, RetainedOK
<1> HIDE DEF m
<1>6. SliceIn(pending.slice, m)
  <2>1. \A k \in Block : blocks[k].ref \in Nat
    BY <1>1 DEF Memory
  <2> QED
    BY <1>1, <1>5, <2>1 DEF SliceIn, One, Slice
<1>7. /\ Memory(Released(m, pending.slice))
      /\ \A k \in Block :
            /\ Released(m, pending.slice)[k].ref = m[k].ref - One(pending.slice.block = k)
            /\ Released(m, pending.slice)[k].ref > 0 \/ pending.slice.block # k =>
                  Released(m, pending.slice)[k].bytes = m[k].bytes
  BY <1>1, <1>5, <1>6, ReleasedOK
<1>8. \A k \in Block : /\ blocks'[k].ref = blocks[k].ref
                       /\ blocks'[k].bytes = blocks[k].bytes
  <2> SUFFICES ASSUME NEW k \in Block
               PROVE  /\ blocks'[k].ref = blocks[k].ref
                      /\ blocks'[k].bytes = blocks[k].bytes
    OBVIOUS
  <2>1. blocks[k].ref \in Nat
    BY <1>1 DEF Memory
  <2>2. blocks'[k].ref = blocks[k].ref
    BY <1>3, <1>4, <1>5, <1>7, <2>1 DEF One
  <2>3. pending.slice.block = k => blocks[k].ref > 0
    BY <1>1, BufferAssumption DEF SliceIn
  <2> QED
    BY <1>4, <1>5, <1>7, <2>2, <2>3
<1>9. pending'.slice = NullSlice /\ NullSlice \in Slice
  BY <1>4 DEF Idle, NullSlice, Slice
<1>10. \A k \in Block :
          /\ blocks'[k].ref = blocks[k].ref + One(s.block = k)
                              + One(pending'.slice.block = k) - One(pending.slice.block = k)
          /\ blocks'[k].bytes = blocks[k].bytes
  <2>1. \A k \in Block : blocks[k].ref \in Nat /\ NullSlice.block # k
    BY <1>1, BufferAssumption DEF Memory, NullSlice
  <2> QED
    BY <1>3, <1>8, <1>9, <2>1 DEF One
<1>11. Memory(blocks')
  BY <1>4, <1>7
<1> QED
  BY <1>2, <1>3, <1>4, <1>9, <1>10, <1>11, ShareInv

LEMMA BeginStringInv ==
    ASSUME Inv, pending = Idle, NEW bytes, IsSeq(bytes), BeginString(bytes)
    PROVE  Inv'
<1> USE DEF Inv
<1>1. PICK k \in Block :
         /\ blocks[k].ref = 0
         /\ blocks' = Allocated(blocks, k, bytes)
         /\ pending' = [op |-> "string", slice |-> SetData(blocks', k, 0, -1), self |-> None]
  BY DEF BeginString
<1>2. UNCHANGED <<live, slices, leaked>>
  BY DEF BeginString
<1>3. /\ Memory(blocks')
      /\ blocks'[k] = [ref |-> 1, bytes |-> bytes]
      /\ \A j \in Block : j # k => blocks'[j] = blocks[j]
  <2>1. Memory(blocks)
    BY DEF Typed
  <2>2. /\ Memory(Allocated(blocks, k, bytes))
        /\ Allocated(blocks, k, bytes)[k] = [ref |-> 1, bytes |-> bytes]
        /\ \A j \in Block : j # k => Allocated(blocks, k, bytes)[j] = blocks[j]
    BY <2>1, AllocatedOK
  <2> QED
    BY <1>1, <2>2
<1>4. Len(bytes) \in Nat
  BY DEF IsSeq
<1>5. pending'.slice = [block |-> k, begin |-> 0, size |-> Len(bytes)]
      /\ pending'.slice \in Slice /\ pending' # Idle
  BY <1>1, <1>3, <1>4 DEF SetData, Slice, Idle
<1>6. Holders(k) = {} /\ leaked[k] = 0
  BY <1>1, FreeUnheld
<1>7. \A j \in Block : Holders(j)' = Holders(j)
  BY <1>2 DEF Holders
<1>8. Typed'
  BY <1>2, <1>3, <1>5 DEF Typed
<1>9. InBounds'
  <2>1. SliceIn(pending'.slice, blocks')
    BY <1>3, <1>4, <1>5, BufferAssumption DEF SliceIn
  <2>2. ASSUME NEW a \in live PROVE SliceIn(slices[a], blocks')
    <3>1. slices[a] \in Slice /\ slices[a].block # k
      BY <1>6 DEF Holders, Typed
    <3>2. SliceIn(slices[a], blocks)
      BY InBoundsIn
    <3> QED
      BY <1>3, <3>1, <3>2 DEF SliceIn, Slice
  <2> QED
    BY <1>2, <2>1, <2>2 DEF InBounds, SliceOK, SliceIn
<1>10. CountsExact'
  <2> SUFFICES ASSUME NEW j \in Block
               PROVE  blocks'[j].ref = Cardinality(Holders(j)) + leaked[j]
                                       + One(pending'.slice.block = j)
    BY <1>2, <1>7 DEF CountsExact, One
  <2>1. CASE j = k
    <3>1. Cardinality(Holders(k)) = 0
      BY <1>6, FS_EmptySet
    <3>2. blocks'[k].ref = 1 /\ pending'.slice.block = k
      BY <1>3, <1>5
    <3> QED
      BY <1>6, <2>1, <3>1, <3>2 DEF One
  <2>2. CASE j # k
    <3>1. pending.slice.block # j
      BY BufferAssumption DEF Idle, NullSlice
    <3>2. blocks[j].ref = Cardinality(Holders(j)) + leaked[j] + One(pending.slice.block = j)
      BY CountsOne
    <3> QED
      BY <1>3, <1>5, <2>2, <3>1, <3>2 DEF One
  <2> QED
    BY <2>1, <2>2
<1> QED
  BY <1>8, <1>9, <1>10

LEMMA BeginSliceInv ==
    ASSUME Inv, pending = Idle, NEW a \in live, NEW start \in Int, NEW end \in Int,
           BeginSlice(a, start, end)
    PROVE  Inv'
<1> USE DEF Inv
<1> DEFINE size == slices[a].size
           from == SliceStart(size, start, end)
           long == SliceSize(size, start, end)
           s == SubSlice(blocks, slices[a], from, long)
<1>1. Memory(blocks) /\ slices[a] \in Slice /\ SliceIn(slices[a], blocks) /\ size \in Nat
  BY InBoundsIn DEF Typed, Slice
<1>2. from \in Nat /\ long \in Nat /\ from + long <= size
  BY <1>1, SliceRangeOK
<1>3. /\ pending' = [op |-> "slice", slice |-> s, self |-> a]
      /\ blocks' = Retained(blocks, s)
      /\ UNCHANGED <<live, slices, leaked>>
  BY DEF BeginSlice
<1> HIDE DEF from, long
<1>4. s \in Slice /\ SliceIn(s, blocks)
  <2>1. /\ from + long <= slices[a].size
        /\ long \in Nat \cup {-1} /\ (long = -1 => from = 0)
    BY <1>2
  <2> QED
    BY ONLY <1>1, <1>2, <2>1, SubSliceOK
<1> HIDE DEF s
<1>5. /\ Memory(Retained(blocks, s))
      /\ \A k \in Block : /\ Retained(blocks, s)[k].ref = blocks[k].ref + One(s.block = k)
                          /\ Retained(blocks, s)[k].bytes = blocks[k].bytes
  BY <1>1, <1>4, RetainedOK
<1>6. /\ Memory(blocks')
      /\ \A k \in Block : /\ blocks'[k].ref = blocks[k].ref + One(s.block = k)
                          /\ blocks'[k].bytes = blocks[k].bytes
  BY <1>3, <1>5
<1>7. pending'.slice = s /\ pending' # Idle
  BY <1>3 DEF Idle
<1>8. Typed'
  BY <1>3, <1>4, <1>6, <1>7 DEF Typed
<1>9. InBounds'
  <2>1. \A k \in Block : blocks[k].ref > 0 => blocks'[k].ref > 0
    BY <1>1, <1>6 DEF Memory, One
  <2>2. \A t \in Slice : SliceIn(t, blocks) => SliceIn(t, blocks')
    BY <1>6, <2>1 DEF SliceIn, Slice
  <2>3. \A b \in live : SliceIn(slices[b], blocks) /\ slices[b] \in Slice
    BY InBoundsIn DEF Typed
  <2> QED
    BY <1>3, <1>4, <1>7, <2>2, <2>3 DEF InBounds, SliceOK, SliceIn
<1>10. CountsExact'
  <2> SUFFICES ASSUME NEW k \in Block
               PROVE  blocks'[k].ref = Cardinality(Holders(k)) + leaked[k]
                                       + One(s.block = k)
    <3>1. \A k \in Block : Holders(k)' = Holders(k)
      BY <1>3 DEF Holders
    <3> QED
      BY <1>3, <1>7, <3>1 DEF CountsExact, One
  <2>1. pending.slice.block # k
    BY BufferAssumption DEF Idle, NullSlice
  <2>2. blocks[k].ref = Cardinality(Holders(k)) + leaked[k] + One(pending.slice.block = k)
    BY CountsOne
  <2>3. Cardinality(Holders(k)) \in Nat /\ leaked[k] \in Nat
    BY HoldersFinite DEF Typed
  <2> QED
    BY <1>6, <2>1, <2>2, <2>3 DEF One
<1> QED
  BY <1>8, <1>9, <1>10

LEMMA CollectInv ==
    ASSUME Inv, NEW b \in live, Collect(b)
    PROVE  Inv'
<1> USE DEF Inv
<1>1. /\ Memory(blocks) /\ slices[b] \in Slice /\ SliceIn(slices[b], blocks)
      /\ \A k \in Block : blocks[k].ref \in Nat
  BY InBoundsIn DEF Typed, Memory
<1>2. /\ live' = live \ {b} /\ pending' = pending
      /\ \A a \in live \ {b} : slices'[a] = slices[a]
  BY DEF Collect, Typed
<1>3. /\ Memory(blocks') /\ leaked' \in [Block -> Nat]
      /\ \A k \in Block :
            /\ blocks'[k].ref - leaked'[k] = blocks[k].ref - leaked[k] - One(slices[b].block = k)
            /\ blocks'[k].ref > 0 \/ slices[b].block # k => blocks'[k].bytes = blocks[k].bytes
  <2>1. CASE destructs
    <3>1. blocks' = Released(blocks, slices[b]) /\ leaked' = leaked
      BY <2>1 DEF Collect
    <3>2. /\ Memory(Released(blocks, slices[b]))
          /\ \A k \in Block :
                /\ Released(blocks, slices[b])[k].ref
                   = blocks[k].ref - One(slices[b].block = k)
                /\ Released(blocks, slices[b])[k].ref > 0 \/ slices[b].block # k =>
                      Released(blocks, slices[b])[k].bytes = blocks[k].bytes
      BY <1>1, ReleasedOK
    <3>3. /\ Memory(blocks')
          /\ \A k \in Block :
                /\ blocks'[k].ref = blocks[k].ref - One(slices[b].block = k)
                /\ blocks'[k].ref > 0 \/ slices[b].block # k =>
                      blocks'[k].bytes = blocks[k].bytes
      BY <3>1, <3>2
    <3> QED
      BY <1>1, <3>1, <3>3 DEF Typed, One
  <2>2. CASE ~destructs
    <3>1. /\ blocks' = blocks
          /\ leaked' = [k \in Block |-> IF slices[b].block = k
                                        THEN leaked[k] + 1 ELSE leaked[k]]
      BY <2>2 DEF Collect
    <3> QED
      BY <1>1, <3>1 DEF Typed, One
  <2> QED
    BY <2>1, <2>2
<1>4. \A k \in Block :
         Cardinality(Holders(k)') = Cardinality(Holders(k)) - One(slices[b].block = k)
  BY CollectHolds
<1>5. CountsExact'
  <2> SUFFICES ASSUME NEW k \in Block
               PROVE  blocks'[k].ref = Cardinality(Holders(k)') + leaked'[k]
                                       + One(pending.slice.block = k)
    BY <1>2 DEF CountsExact, One
  <2>1. Cardinality(Holders(k)) \in Nat /\ leaked[k] \in Nat /\ leaked'[k] \in Nat
    BY <1>3, HoldersFinite DEF Typed
  <2>2. blocks[k].ref = Cardinality(Holders(k)) + leaked[k] + One(pending.slice.block = k)
    BY CountsOne
  <2>3. blocks'[k].ref \in Nat
    BY <1>3 DEF Memory
  <2> QED
    BY <1>3, <1>4, <2>1, <2>2, <2>3 DEF One
<1>6. Typed'
  BY <1>2, <1>3, CollectHolds DEF Typed
\* A slice of any other Buffer, and the one on the stack, still counts.
<1>7. \A k \in Block :
         (\E a \in live' : slices'[a].block = k) \/ pending.slice.block = k
            => blocks'[k].ref > 0
  <2> SUFFICES ASSUME NEW k \in Block,
                      (\E a \in live' : slices'[a].block = k) \/ pending.slice.block = k
               PROVE  blocks'[k].ref > 0
    OBVIOUS
  <2>1. blocks'[k].ref = Cardinality(Holders(k)') + leaked'[k] + One(pending.slice.block = k)
    BY <1>2, <1>5 DEF CountsExact, One
  <2>2. IsFiniteSet(Holders(k)') /\ Cardinality(Holders(k)') \in Nat /\ leaked'[k] \in Nat
    <3>1. Holders(k)' \subseteq BufferId
      BY <1>6 DEF Typed, Holders
    <3> QED
      BY <1>3, <3>1, BufferAssumption, FS_Subset, FS_CardinalityType
  <2>3. CASE pending.slice.block = k
    BY <2>1, <2>2, <2>3 DEF One
  <2>4. CASE \E a \in live' : slices'[a].block = k
    <3>1. Holders(k)' # {}
      BY <2>4 DEF Holders
    <3>2. Cardinality(Holders(k)') > 0
      BY <2>2, <3>1, FS_EmptySet
    <3> QED
      BY <2>1, <2>2, <3>2 DEF One
  <2> QED
    BY <2>3, <2>4
<1>8. InBounds'
  <2>1. SliceIn(pending.slice, blocks) /\ pending.slice \in Slice
    BY InBoundsIn DEF Typed
  <2>2. SliceIn(pending.slice, blocks')
    BY <1>3, <1>7, <2>1 DEF SliceIn, Slice
  <2>3. ASSUME NEW a \in live' PROVE SliceIn(slices'[a], blocks')
    <3>1. SliceIn(slices[a], blocks) /\ slices[a] \in Slice /\ slices'[a] = slices[a]
      BY <1>2, InBoundsIn DEF Typed
    <3> QED
      BY <1>3, <1>7, <3>1 DEF SliceIn, Slice
  <2> QED
    BY <1>2, <2>2, <2>3 DEF InBounds, SliceOK, SliceIn
<1> QED
  BY <1>5, <1>6, <1>8

LEMMA PutInv ==
    ASSUME Inv, NEW b \in live, NEW at, NEW bytes, NEW where, PutBytes(b, at, bytes, where),
           slices[b].block # Null \/ bytes = <<>>
    PROVE  Inv'
<1> USE DEF Inv
<1>1. Memory(blocks) /\ slices[b] \in Slice /\ SliceIn(slices[b], blocks)
  BY InBoundsIn DEF Typed
<1>3. /\ Memory(Written(blocks, slices[b], at, bytes))
      /\ \A k \in Block :
            /\ Written(blocks, slices[b], at, bytes)[k].ref = blocks[k].ref
            /\ Len(Written(blocks, slices[b], at, bytes)[k].bytes) = Len(blocks[k].bytes)
  BY <1>1, WrittenOK
<1>4. /\ Memory(blocks')
      /\ \A k \in Block : /\ blocks'[k].ref = blocks[k].ref
                          /\ Len(blocks'[k].bytes) = Len(blocks[k].bytes)
      /\ UNCHANGED <<live, slices, pending, leaked>>
  BY <1>3 DEF PutBytes
<1>5. Typed'
  BY <1>4 DEF Typed
<1>6. InBounds'
  <2>1. \A t \in Slice : SliceIn(t, blocks) => SliceIn(t, blocks')
    BY <1>4 DEF SliceIn, Slice
  <2>2. /\ \A a \in live : SliceIn(slices[a], blocks) /\ slices[a] \in Slice
        /\ SliceIn(pending.slice, blocks) /\ pending.slice \in Slice
    BY InBoundsIn DEF Typed
  <2> QED
    BY <1>4, <2>1, <2>2 DEF InBounds, SliceOK, SliceIn
<1>7. CountsExact'
  <2>1. \A k \in Block : Holders(k)' = Holders(k)
    BY <1>4 DEF Holders
  <2> QED
    BY <1>4, <2>1 DEF CountsExact
<1> QED
  BY <1>5, <1>6, <1>7

\* A cell of a slice is in an allocated block.
LEMMA CellAllocated ==
    ASSUME Typed, NEW s \in Slice, SliceIn(s, blocks), NEW i \in 1..s.size
    PROVE  /\ s.block \in Block /\ blocks[s.block].ref > 0
           /\ s.begin + i \in 1..Len(blocks[s.block].bytes)
<1>1. s.block \in Block
  BY DEF SliceIn, Slice, NullSlice
<1>2. Len(blocks[s.block].bytes) \in Nat
  BY <1>1 DEF Typed, Memory, IsSeq
<1> QED
  BY <1>1, <1>2, BufferAssumption DEF SliceIn, Slice

LEMMA ContentIsSeq ==
    ASSUME Inv, NEW b \in live
    PROVE  IsSeq(Content(blocks, slices[b]))
<1>1. slices[b].size \in Nat
  BY DEF Inv, Typed, Slice
<1>2. Content(blocks, slices[b])
        = [i \in 1..slices[b].size |-> Content(blocks, slices[b])[i]]
  BY DEF Content
<1> QED
  BY <1>1, <1>2, FunctionIsSeq

\* What a slice holds, and what numbers are written as, are bytes.
LEMMA ContentBytes ==
    ASSUME Inv, BytesIn(blocks), NEW b \in live
    PROVE  Content(blocks, slices[b]) \in Seq(Byte)
<1> DEFINE s == slices[b]
<1>1. s \in Slice /\ SliceIn(s, blocks) /\ s.size \in Nat /\ Typed
  BY InBoundsIn DEF Inv, Typed, Slice
<1>2. \A k \in Block : blocks[k].bytes \in Seq(Byte)
  BY DEF BytesIn
<1> HIDE DEF s
<1>3. ASSUME NEW i \in 1..s.size
      PROVE  blocks[s.block].bytes[s.begin + i] \in Byte
  <2>1. s.block \in Block /\ s.begin + i \in 1..Len(blocks[s.block].bytes)
    BY <1>1, CellAllocated
  <2> QED
    BY <1>2, <2>1
<1>4. Content(blocks, s) \in [1..s.size -> Byte]
  BY <1>3 DEF Content
<1> QED
  BY <1>1, <1>4 DEF s

\* What concat puts in a new Buffer, and whether it is bytes.
LEMMA JoinedIsSeq ==
    ASSUME NEW S, Byte \subseteq S, NEW joined \in Seq(S), NEW total \in Nat,
           NEW rest \in [1..(total - Len(joined)) -> Byte]
    PROVE  SubSeq(joined, 1, Least(total, Len(joined))) \o rest \in Seq(S)
<1> DEFINE n == Least(total, Len(joined))
<1>1. n \in Nat /\ 0 + n <= Len(joined) /\ 0 \in Nat
  BY DEF Least
<1> HIDE DEF n
<1>2. SubSeq(joined, 0 + 1, 0 + n) \in Seq(S)
  BY <1>1, SubSeqIs
<1>3. rest \in Seq(S)
  <2>1. CASE total - Len(joined) \in Nat
    BY <2>1
  <2>2. CASE total - Len(joined) \notin Nat
    <3>1. 1..(total - Len(joined)) = 1..0
      BY <2>2
    <3> QED
      BY <3>1
  <2> QED
    BY <2>1, <2>2
<1>4. SubSeq(joined, 1, n) \in Seq(S)
  BY <1>1, <1>2
<1> QED
  BY <1>3, <1>4 DEF n

LEMMA ConcatPuts ==
    ASSUME Inv, NEW a \in live, NEW c \in live, NEW b, NEW total \in Int,
           Concat(b, a, c, total)
    PROVE  \E bytes : /\ NewFromArray(b, bytes) /\ IsSeq(bytes)
                      /\ BytesIn(blocks) => bytes \in Seq(Byte)
<1> DEFINE joined == Joined(a, c)
           Filled(rest) == SubSeq(joined, 1, Least(total, Len(joined))) \o rest
<1>1. PICK rest \in [1..(total - Len(joined)) -> Byte] : NewFromArray(b, Filled(rest))
  BY DEF Concat
<1>2. total \in Nat
  BY DEF Concat
<1>3. IsSeq(joined)
  BY ContentIsSeq, ConcatIsSeq DEF Joined
<1>4. BytesIn(blocks) => joined \in Seq(Byte)
  <2>1. ASSUME BytesIn(blocks)
        PROVE  Content(blocks, slices[a]) \in Seq(Byte) /\ Content(blocks, slices[c]) \in Seq(Byte)
    BY <2>1, ContentBytes
  <2> QED
    BY <2>1 DEF Joined
<1> HIDE DEF joined
<1>5. \A S : Byte \subseteq S /\ joined \in Seq(S) => Filled(rest) \in Seq(S)
  BY <1>2, JoinedIsSeq
<1> HIDE DEF Filled
<1>6. IsSeq(Filled(rest))
  <2>1. PICK S : joined \in Seq(S)
    BY <1>3 DEF IsSeq
  <2>2. joined \in Seq(S \cup Byte)
    BY <2>1
  <2>3. Filled(rest) \in Seq(S \cup Byte)
    BY <1>5, <2>2
  <2> QED
    BY <2>3 DEF IsSeq
<1>7. BytesIn(blocks) => Filled(rest) \in Seq(Byte)
  BY <1>4, <1>5
<1> QED
  BY <1>1, <1>6, <1>7

LEMMA DigitIsByte ==
    ASSUME NEW v \in Int, NEW i \in Nat
    PROVE  Digit(v, i) \in Byte
<1> DEFINE p == Power(i)
<1>1. p \in Nat \ {0}
  BY PowerIs
<1> HIDE DEF p
<1>2. v \div p \in Int
  BY <1>1
<1> DEFINE q == v \div p
<1> HIDE DEF q
<1>3. q % Base \in Byte
  BY <1>2, BytesAssumption DEF Byte, q
<1> QED
  BY <1>3 DEF Digit, q, p

LEMMA EncodeBytes ==
    ASSUME NEW v \in Int, NEW width \in Nat, NEW little \in BOOLEAN
    PROVE  Encode(v, width, little) \in Seq(Byte) /\ Len(Encode(v, width, little)) = width
<1>1. \A i \in 1..width : (IF little THEN i - 1 ELSE width - i) \in Nat
  OBVIOUS
<1>2. Encode(v, width, little) \in [1..width -> Byte]
  BY <1>1, DigitIsByte DEF Encode
<1> QED
  BY <1>2

\* What the operations that write to a Buffer write to it: bytes in its range, or at
\* least in its block.
Puts(b, at, bytes, where) ==
    /\ PutBytes(b, at, bytes, where)
    /\ \/ bytes = <<>>
       \/ /\ slices[b].block # Null /\ IsSeq(bytes)
          /\ where = "within" => at \in Nat /\ at + Len(bytes) <= slices[b].size
    /\ BytesIn(blocks) => bytes \in Seq(Byte)
    /\ where \in {"within", "beyond"}

LEMMA ModifyPuts ==
    ASSUME Inv, Modify
    PROVE  \E b \in live : \E at, bytes, where : Puts(b, at, bytes, where)
<1>1. PICK b \in live :
         \/ \E i, v \in Arg : PutIndexed(b, i, v)
         \/ \E value \in Datum \cup {<<ToByte(v)>> : v \in Arg}, offset, end \in Arg :
               Fill(b, value, offset, end)
         \/ \E bytes \in Datum, offset \in Arg, length \in Arg \cup {MaxInt} :
               Write(b, bytes, offset, length)
         \/ \E a \in live, ts, ss, se \in Arg : Copy(a, b, ts, ss, se)
         \/ \E v, offset \in Arg, width \in Width, signed, little \in BOOLEAN :
               WriteInteger(b, v, offset, width, signed, little)
         \/ \E bits, offset \in Arg, width \in FloatWidth, little \in BOOLEAN :
               WriteFloat(b, bits, offset, width, little)
  BY DEF Modify
<1> DEFINE size == slices[b].size
<1>2. size \in Nat /\ (size > 0 => slices[b].block # Null)
  <2>1. slices[b] \in Slice /\ SliceIn(slices[b], blocks)
    BY InBoundsIn DEF Inv, Typed
  <2> QED
    BY <2>1 DEF SliceIn, NullSlice, Slice
<1> SUFFICES \E at, bytes, where : Puts(b, at, bytes, where)
  OBVIOUS
<1> HIDE DEF size
\* What is a sequence of bytes that fits is put.
<1>3. ASSUME NEW at \in Nat, NEW bytes \in Seq(Byte), at + Len(bytes) <= size,
             PutBytes(b, at, bytes, "within")
      PROVE  Puts(b, at, bytes, "within")
  <2>1. bytes = <<>> \/ size > 0
    BY <1>2, <1>3
  <2>2. bytes = <<>> \/ slices[b].block # Null
    BY <1>2, <2>1
  <2> QED
    BY <1>3, <2>2 DEF Puts, IsSeq, size
<1>4. ASSUME NEW i \in Arg, NEW v \in Arg, PutIndexed(b, i, v)
      PROVE  \E at, bytes, where : Puts(b, at, bytes, where)
  <2>1. v \in Int /\ i \in Int
    BY BufferAssumption
  <2>2. ToByte(v) \in Byte
    BY <2>1, BytesAssumption DEF ToByte, Byte
  <2>3. <<ToByte(v)>> \in Seq(Byte) /\ Len(<<ToByte(v)>>) = 1
    BY <2>2
  <2>4. i \in Nat /\ i + 1 <= size /\ Put(b, i, <<ToByte(v)>>)
    BY <1>2, <1>4, <2>1 DEF PutIndexed, size
  <2> QED
    BY <1>3, <2>3, <2>4 DEF Put
<1>5. ASSUME NEW value \in Datum \cup {<<ToByte(v)>> : v \in Arg}, NEW offset \in Arg,
             NEW end \in Arg, Fill(b, value, offset, end)
      PROVE  \E at, bytes, where : Puts(b, at, bytes, where)
  <2> DEFINE bytes == FillPattern(value, end - offset)
             where == IF end <= size THEN "within" ELSE "beyond"
  <2>1. value \in Seq(Byte)
    <3>1. \A v \in Arg : ToByte(v) \in Byte
      BY BufferAssumption, BytesAssumption DEF ToByte, Byte
    <3>2. CASE value \in Datum
      BY <3>2, BufferAssumption
    <3>3. CASE \E v \in Arg : value = <<ToByte(v)>>
      <4>1. PICK v \in Arg : value = <<ToByte(v)>>
        BY <3>3
      <4>2. ToByte(v) \in Byte
        BY <3>1
      <4> QED
        BY <4>1, <4>2
    <3> QED
      BY <3>2, <3>3
  <2>2. /\ offset \in Nat /\ end \in Nat /\ end - offset \in Nat
        /\ offset + (end - offset) = end
        /\ value = <<>> => end - offset = 0
        /\ end <= Room(blocks, slices[b])
    BY <1>5, BufferAssumption DEF Fill
  <2>3. PutBytes(b, offset, bytes, where)
    BY <1>5 DEF Fill, size
  <2>4. bytes \in Seq(Byte) /\ Len(bytes) = end - offset
    <3>1. CASE value = <<>>
      <4>0. Len(value) >= end - offset /\ end - offset = 0
        BY <2>2, <3>1
      <4>1. bytes = SubSeq(<<>>, 1, 0)
        BY <3>1, <4>0, Zenon DEF FillPattern
      <4>2. SubSeq(<<>>, 1, 0) = <<>>
        OBVIOUS
      <4> QED
        BY <2>2, <3>1, <4>1, <4>2
    <3>2. CASE value # <<>>
      BY <2>1, <2>2, <3>2, FillPatternRepeats, RepeatedIsSeq
    <3> QED
      BY <3>1, <3>2
  <2> HIDE DEF bytes
  <2>5. bytes = <<>> \/ slices[b].block # Null
    <3>1. slices[b].block = Null => end = 0
      BY <2>2 DEF Room
    <3> QED
      BY <2>2, <2>4, <3>1
  <2>6. CASE end <= size
    BY <1>3, <2>2, <2>3, <2>4, <2>6
  <2>7. CASE ~(end <= size)
    <3>1. PutBytes(b, offset, bytes, "beyond")
      BY <2>3, <2>7
    <3>2. Puts(b, offset, bytes, "beyond")
      BY <2>4, <2>5, <3>1 DEF Puts, IsSeq
    <3> QED
      BY <3>2
  <2> QED
    BY <2>6, <2>7
<1>6. ASSUME NEW string \in Datum, NEW offset \in Arg, NEW length \in Arg \cup {MaxInt},
             Write(b, string, offset, length)
      PROVE  \E at, bytes, where : Puts(b, at, bytes, where)
  <2>1. /\ string \in Seq(Byte) /\ offset \in Nat /\ length \in Nat /\ MaxInt \in Nat
        /\ offset < size
    BY <1>2, <1>6, BufferAssumption DEF Write, size
  <2>2. PICK limit \in Limits(size, offset, length) :
           PutBytes(b, offset, SubSeq(string, 1, Least(limit, Len(string))),
                    IF offset + length > MaxInt THEN "beyond" ELSE "within")
    BY <1>6, Zenon DEF Write, size
  <2>3. /\ limit \in Nat
        /\ ~(offset + length > MaxInt) => offset + limit <= size
    BY <1>2, <2>1, <2>2 DEF Limits
  <2> DEFINE n == Least(limit, Len(string))
             bytes == SubSeq(string, 1, n)
             where == IF offset + length > MaxInt THEN "beyond" ELSE "within"
  <2>4. n \in Nat /\ n <= Len(string) /\ n <= limit
    BY <2>1, <2>3 DEF Least
  <2>5. PutBytes(b, offset, bytes, where)
    BY <2>2
  <2> HIDE DEF n
  <2>6. bytes \in Seq(Byte) /\ Len(bytes) = n
    BY <2>1, <2>4
  <2> HIDE DEF bytes
  <2>7. CASE offset + length > MaxInt
    <3>1. PutBytes(b, offset, bytes, "beyond")
      BY <2>5, <2>7
    <3>2. slices[b].block # Null
      BY <1>2, <2>1
    <3>3. Puts(b, offset, bytes, "beyond")
      BY <2>6, <3>1, <3>2 DEF Puts, IsSeq
    <3> QED
      BY <3>3
  <2>8. CASE ~(offset + length > MaxInt)
    <3>1. PutBytes(b, offset, bytes, "within")
      BY <2>5, <2>8
    <3>2. offset + Len(bytes) <= size
      BY <1>2, <2>1, <2>3, <2>4, <2>6, <2>8
    <3> QED
      BY <1>3, <2>1, <2>6, <3>1, <3>2
  <2> QED
    BY <2>7, <2>8
<1>7. ASSUME NEW a \in live, NEW ts \in Arg, NEW ss \in Arg, NEW se \in Arg,
             Copy(a, b, ts, ss, se)
      PROVE  \E at, bytes, where : Puts(b, at, bytes, where)
  <2> DEFINE source == slices[a].size
             count == CopyCount(source, size, ts, ss, se)
             content == Content(blocks, slices[a])
             bytes == SubSeq(content, ss + 1, ss + count)
  <2>1. ts \in Nat /\ ss \in 0..source /\ se \in Nat /\ source \in Nat
        /\ PutBytes(b, ts, bytes, "within")
    <3>1. slices[a].size \in Nat
      BY DEF Inv, Typed, Slice
    <3> QED
      BY <1>7, <3>1, BufferAssumption DEF Copy, Put, size
  <2>2. content = [i \in 1..source |-> content[i]]
    BY DEF Content
  <2>3. BytesIn(blocks) => content \in Seq(Byte)
    BY ContentBytes
  <2> HIDE DEF content, source
  <2>4. IsSeq(content) /\ Len(content) = source
    BY <2>1, <2>2, FunctionIsSeq
  <2>5. count \in Nat /\ ss + count <= source /\ (count > 0 => ts + count <= size)
    BY <1>2, <2>1, CopyInBounds
  <2> HIDE DEF count
  <2>6. \A S : content \in Seq(S) => bytes \in Seq(S) /\ Len(bytes) = count
    <3>1. ss \in Nat /\ ss + count <= Len(content)
      BY <2>1, <2>4, <2>5
    <3> QED
      BY <2>5, <3>1, SubSeqIs
  <2> HIDE DEF bytes
  <2>7. IsSeq(bytes) /\ Len(bytes) = count /\ (BytesIn(blocks) => bytes \in Seq(Byte))
    BY <2>3, <2>4, <2>6 DEF IsSeq
  <2>8. bytes = <<>> \/ ts + Len(bytes) <= size
    BY <2>5, <2>7 DEF IsSeq
  <2>9. bytes = <<>> \/ slices[b].block # Null
    BY <1>2, <2>1, <2>7, <2>8 DEF IsSeq
  <2>10. Puts(b, ts, bytes, "within")
    BY <2>1, <2>7, <2>8, <2>9 DEF Puts, size
  <2> QED
    BY <2>10
<1>8. ASSUME NEW v \in Arg, NEW offset \in Arg, NEW width \in Nat, NEW little \in BOOLEAN,
             0 <= offset, CheckRange(slices[b].size, offset, width),
             Put(b, offset, Encode(v, width, little))
      PROVE  \E at, bytes, where : Puts(b, at, bytes, where)
  <2> DEFINE bytes == Encode(v, width, little)
  <2>1. v \in Int /\ offset \in Int
    BY BufferAssumption
  <2>2. bytes \in Seq(Byte) /\ Len(bytes) = width
    BY <2>1, EncodeBytes
  <2>3. PutBytes(b, offset, bytes, "within")
    BY <1>8 DEF Put
  <2> HIDE DEF bytes
  <2>4. offset \in Nat /\ offset + Len(bytes) <= size
    BY <1>8, <2>1, <2>2 DEF CheckRange, size
  <2> QED
    BY <1>3, <2>2, <2>3, <2>4
<1>9. ASSUME NEW v \in Arg, NEW offset \in Arg, NEW width \in Width, NEW signed \in BOOLEAN,
             NEW little \in BOOLEAN, WriteInteger(b, v, offset, width, signed, little)
      PROVE  \E at, bytes, where : Puts(b, at, bytes, where)
  <2>1. width \in Nat
    BY BufferAssumption
  <2> QED
    BY <1>8, <1>9, <2>1 DEF WriteInteger
<1>10. ASSUME NEW bits \in Arg, NEW offset \in Arg, NEW width \in FloatWidth,
              NEW little \in BOOLEAN, WriteFloat(b, bits, offset, width, little)
       PROVE  \E at, bytes, where : Puts(b, at, bytes, where)
  <2>1. width \in Nat
    BY BufferAssumption
  <2> QED
    BY <1>8, <1>10, <2>1 DEF WriteFloat, EncodeFloat
<1> QED
  BY <1>1, <1>4, <1>5, <1>6, <1>7, <1>9, <1>10
LEMMA CreateInv ==
    ASSUME Inv, Create
    PROVE  Inv'
<1>1. PICK b \in BufferId \ live :
         \/ \E n \in Arg : NewSized(b, n)
         \/ \E bytes \in Datum : NewFromArray(b, bytes)
         \/ \E a, c \in live : \E total \in Arg \cup {Len(Joined(a, c))} :
               Concat(b, a, c, total)
         \/ \E a \in live : NewFromBuffer(b, a)
  BY DEF Create
<1>2. CASE \E n \in Arg : NewSized(b, n)
  <2>1. PICK n \in Arg : NewSized(b, n)
    BY <1>2
  <2>2. Greatest(0, n) \in Nat
    BY BufferAssumption DEF Greatest
  <2>3. PICK bytes \in [1..Greatest(0, n) -> Byte] : NewWith(b, bytes)
    BY <2>1 DEF NewSized
  <2>4. IsSeq(bytes)
    <3>1. bytes \in Seq(Byte)
      BY <2>2
    <3> QED
      BY <3>1 DEF IsSeq
  <2>5. UNCHANGED <<pending, leaked>>
    BY <2>1 DEF NewSized
  <2> QED
    BY <2>3, <2>4, <2>5, NewWithInv
<1>3. CASE \E bytes \in Datum : NewFromArray(b, bytes)
  <2>1. PICK bytes \in Datum : NewFromArray(b, bytes)
    BY <1>3
  <2>2. IsSeq(bytes)
    BY BufferAssumption DEF IsSeq
  <2> QED
    BY <2>1, <2>2, NewWithInv DEF NewFromArray
<1>4. CASE \E a, c \in live : \E total \in Arg \cup {Len(Joined(a, c))} : Concat(b, a, c, total)
  <2>0. PICK a \in live, c \in live :
           \E total \in Arg \cup {Len(Joined(a, c))} : Concat(b, a, c, total)
    BY <1>4
  <2>1. PICK total \in Arg \cup {Len(Joined(a, c))} : Concat(b, a, c, total)
    BY <2>0
  <2>2. total \in Int
    <3>1. IsSeq(Joined(a, c))
      BY ContentIsSeq, ConcatIsSeq DEF Joined
    <3> QED
      BY <3>1, BufferAssumption DEF IsSeq
  <2>3. PICK bytes : NewFromArray(b, bytes) /\ IsSeq(bytes)
    BY <2>1, <2>2, ConcatPuts
  <2> QED
    BY <2>3, NewWithInv DEF NewFromArray
<1>5. CASE \E a \in live : NewFromBuffer(b, a)
  BY <1>5, NewFromBufferInv DEF Create
<1> QED
  BY <1>1, <1>2, <1>3, <1>4, <1>5

LEMMA ModifyInv ==
    ASSUME Inv, Modify
    PROVE  Inv'
<1>1. PICK b \in live : \E at, bytes, where : Puts(b, at, bytes, where)
  BY ModifyPuts
<1>2. PICK at, bytes, where : Puts(b, at, bytes, where)
  BY <1>1
<1> QED
  BY <1>2, PutInv DEF Puts

LEMMA InvStep == Inv /\ [Next]_vars => Inv'
<1> SUFFICES ASSUME Inv, [Next]_vars PROVE Inv'
  OBVIOUS
<1>1. CASE Create
  BY <1>1, CreateInv
<1>2. CASE Begin
  <2>1. pending = Idle
    BY <1>2 DEF Begin
  <2>2. ASSUME NEW bytes \in Datum, BeginString(bytes) PROVE Inv'
    <3>1. IsSeq(bytes)
      BY BufferAssumption DEF IsSeq
    <3> QED
      BY <2>1, <2>2, <3>1, BeginStringInv
  <2>3. ASSUME NEW a \in live, NEW start \in Arg, NEW end \in Arg, BeginSlice(a, start, end)
        PROVE  Inv'
    <3>1. start \in Int /\ end \in Int
      BY BufferAssumption
    <3> QED
      BY <2>1, <2>3, <3>1, BeginSliceInv
  <2> QED
    BY <1>2, <2>2, <2>3 DEF Begin
<1>3. CASE Modify
  BY <1>3, ModifyInv
<1>4. ASSUME NEW b \in BufferId \ live, Finish(b) PROVE Inv'
  BY <1>4, FinishInv
<1>5. ASSUME NEW b \in live, Collect(b) PROVE Inv'
  BY <1>5, CollectInv
<1>6. CASE UNCHANGED vars
  <2>1. UNCHANGED <<live, slices, blocks, pending, leaked>>
    BY <1>6 DEF vars
  <2>2. Typed'
    BY <2>1 DEF Inv, Typed
  <2>3. InBounds'
    BY <2>1 DEF Inv, InBounds, SliceOK
  <2>4. CountsExact'
    <3>1. \A k \in Block : Holders(k)' = Holders(k)
      BY <2>1 DEF Holders
    <3> QED
      BY <2>1, <3>1 DEF Inv, CountsExact
  <2> QED
    BY <2>2, <2>3, <2>4 DEF Inv
<1> QED
  BY <1>1, <1>2, <1>3, <1>4, <1>5, <1>6 DEF Next

LEMMA InvCorrect == Spec => []Inv
<1> QED
  BY InvInit, InvStep, PTL DEF Spec

\* Whatever is shared, copied, sliced, written and collected, in whatever order and
\* with a garbage collector that may run while slice() does: no Buffer ever holds
\* memory that is free, or a range that is not in its block.
THEOREM InBoundsCorrect == Spec => []InBounds
<1>1. Inv => InBounds
  BY DEF Inv
<1> QED
  BY InvCorrect, <1>1, PTL

\* The reference count of every block is the number of its holders, so a block is
\* freed with the last of them; only objects collected without a destructor keep it.
THEOREM CountsCorrect == Spec => []CountsExact
<1>1. Inv => CountsExact
  BY DEF Inv
<1> QED
  BY InvCorrect, <1>1, PTL

-----------------------------------------------------------------------------
(* Buffers implement BufferViews. *)

\* The cells of a Buffer.
CellsOf(s) == [i \in 1..s.size |-> Cell(s, i)]

LEMMA ViewedSlices ==
    ASSUME Typed, InBounds
    PROVE  /\ \A a \in Viewed : SliceOf[a] \in Slice /\ SliceIn(SliceOf[a], blocks)
           /\ None \notin live
<1>1. None \notin live
  BY BufferAssumption DEF Typed
<1> QED
  BY <1>1, InBoundsIn DEF Typed, Viewed, SliceOf

\* What the cells of a slice are.
LEMMA CellsOfIs ==
    ASSUME NEW s \in Slice
    PROVE  /\ s.size \in Nat /\ IsSeq(CellsOf(s)) /\ Len(CellsOf(s)) = s.size
           /\ DOMAIN CellsOf(s) = 1..s.size
           /\ \A i \in 1..s.size : CellsOf(s)[i] = <<s.block, s.begin + i>>
<1>1. s.size \in Nat
  BY DEF Slice
<1>2. DOMAIN CellsOf(s) = 1..s.size /\ \A i \in 1..s.size : CellsOf(s)[i] = <<s.block, s.begin + i>>
  BY DEF CellsOf, Cell
<1>3. IsSeq(CellsOf(s)) /\ Len(CellsOf(s)) = s.size
  <2>1. CellsOf(s) = [i \in 1..s.size |-> CellsOf(s)[i]]
    BY DEF CellsOf
  <2> QED
    BY <1>1, <2>1, FunctionIsSeq
<1> QED
  BY <1>1, <1>2, <1>3

LEMMA ViewsCells ==
    ASSUME Typed, InBounds
    PROVE  /\ \A b \in Viewed : Views!Cells(b) = {Cell(SliceOf[b], i) : i \in 1..SliceOf[b].size}
           /\ Views!Used = UsedCells
<1>1. ASSUME NEW b \in Viewed
      PROVE  Views!Cells(b) = {Cell(SliceOf[b], i) : i \in 1..SliceOf[b].size}
  <2>1. SliceOf[b] \in Slice
    BY ViewedSlices
  <2>2. Len(CellsOf(SliceOf[b])) = SliceOf[b].size
    BY <2>1, CellsOfIs
  <2> QED
    BY <2>2 DEF Views!Cells, CellsOf
<1>2. Views!Used = UNION {Views!Cells(b) : b \in Viewed}
  BY Zenon DEF Views!Used, Views!Cells
<1>3. Views!Used = UsedCells
  BY <1>1, <1>2 DEF UsedCells
<1> QED
  BY <1>1, <1>3

LEMMA UsedAllocated ==
    ASSUME Typed, InBounds, NEW c \in UsedCells
    PROVE  \E k \in Block, j \in Nat : /\ c = <<k, j>> /\ blocks[k].ref > 0
                                        /\ j \in 1..Len(blocks[k].bytes)
<1>1. PICK b \in Viewed : \E i \in 1..SliceOf[b].size : c = Cell(SliceOf[b], i)
  BY DEF UsedCells
<1>4. PICK i \in 1..SliceOf[b].size : c = Cell(SliceOf[b], i)
  BY <1>1
<1>2. SliceOf[b] \in Slice /\ SliceIn(SliceOf[b], blocks)
  BY ViewedSlices
<1>3. SliceOf[b].block \in Block /\ blocks[SliceOf[b].block].ref > 0
      /\ SliceOf[b].begin + i \in Nat
      /\ SliceOf[b].begin + i \in 1..Len(blocks[SliceOf[b].block].bytes)
  BY <1>2, CellAllocated DEF Slice
<1> QED
  BY <1>3, <1>4 DEF Cell

\* Allocated blocks keep their bytes.
SameBytes == \A k \in Block : blocks[k].ref > 0 => blocks'[k].bytes = blocks[k].bytes

LEMMA AddedViews ==
    ASSUME Typed, InBounds, SameBytes, NEW b, b \notin Viewed,
           Viewed' = Viewed \cup {b},
           \A a \in Viewed : SliceOf'[a] = SliceOf[a],
           wrote' = None
    PROVE  Views!Added(b)
<1>1. UsedCells \subseteq UsedCells'
  BY DEF UsedCells
<1>2. ASSUME NEW c \in UsedCells
      PROVE  blocks'[c[1]].bytes[c[2]] = blocks[c[1]].bytes[c[2]]
  <2>1. PICK k \in Block, j \in Nat : c = <<k, j>> /\ blocks[k].ref > 0
    BY UsedAllocated
  <2> QED
    BY <2>1 DEF SameBytes
<1>3. Views!Kept(Views!Used)
  BY <1>1, <1>2, ViewsCells DEF Views!Kept
<1> QED
  BY <1>3 DEF Views!Added

LEMMA NewViews ==
    ASSUME Typed, InBounds, NEW b, Views!Added(b), b \in Viewed',
           SliceOf'[b] \in Slice,
           \A i \in 1..SliceOf'[b].size : \A c \in UsedCells : c[1] # SliceOf'[b].block
    PROVE  Views!New(b)
<1> DEFINE s == SliceOf'[b]
           view == [a \in Viewed' |-> [i \in 1..SliceOf'[a].size |-> Cell(SliceOf'[a], i)]]
<1>1. view[b] = CellsOf(s)
  BY DEF CellsOf
<1>2. s.size \in Nat /\ Len(CellsOf(s)) = s.size
      /\ \A i \in 1..s.size : CellsOf(s)[i] = <<s.block, s.begin + i>>
  BY CellsOfIs
<1>3. ASSUME NEW i \in 1..Len(view[b])
      PROVE  /\ \A c \in Views!Used : c[1] # view[b][i][1]
             /\ \A j \in 1..Len(view[b]) : view[b][i] = view[b][j] => i = j
  <2>1. i \in 1..s.size /\ view[b][i] = <<s.block, s.begin + i>>
    BY <1>1, <1>2
  <2>2. \A c \in Views!Used : c[1] # view[b][i][1]
    BY <2>1, ViewsCells
  <2>3. ASSUME NEW j \in 1..Len(view[b]), view[b][i] = view[b][j] PROVE i = j
    <3>1. <<s.block, s.begin + i>> = <<s.block, s.begin + j>>
      BY <1>1, <1>2, <2>1, <2>3
    <3>2. i \in Int /\ j \in Int /\ s.begin \in Nat
      BY <1>1, <1>2, <2>1 DEF Slice
    <3> QED
      BY <3>1, <3>2
  <2> QED
    BY <2>2, <2>3
<1> QED
  BY <1>3, Zenon DEF Views!New

LEMMA ShareViews ==
    ASSUME NEW b, Views!Added(b), b \in Viewed', NEW a \in Viewed, SliceOf'[b] = SliceOf[a]
    PROVE  Views!Share(b, a)
BY DEF Views!Share

LEMMA AskViews ==
    ASSUME Typed, InBounds, Views!Added(None), None \in Viewed', NEW a \in Viewed,
           SliceOf'[None] \in Slice,
           \/ SliceOf'[None].size = 0
           \/ \E from \in Nat :
                 /\ SliceOf'[None].block = SliceOf[a].block
                 /\ SliceOf'[None].begin = SliceOf[a].begin + from
                 /\ from + SliceOf'[None].size <= SliceOf[a].size
    PROVE  Views!Ask(a)
<1> DEFINE s == SliceOf[a]
           t == SliceOf'[None]
           view == [b \in Viewed |-> [i \in 1..SliceOf[b].size |-> Cell(SliceOf[b], i)]]
           next == [b \in Viewed' |-> [i \in 1..SliceOf'[b].size |-> Cell(SliceOf'[b], i)]]
<1>1. view[a] = CellsOf(s) /\ next[None] = CellsOf(t) /\ s \in Slice /\ t \in Slice
  BY ViewedSlices DEF CellsOf
<1>2. s.size \in Nat /\ Len(CellsOf(s)) = s.size /\ DOMAIN CellsOf(s) = 1..s.size
      /\ \A i \in 1..s.size : CellsOf(s)[i] = <<s.block, s.begin + i>>
  BY <1>1, CellsOfIs
<1>3. t.size \in Nat /\ Len(CellsOf(t)) = t.size /\ DOMAIN CellsOf(t) = 1..t.size
      /\ \A i \in 1..t.size : CellsOf(t)[i] = <<t.block, t.begin + i>>
  BY <1>1, CellsOfIs
<1>4. CASE t.size = 0
  <2>1. next[None] = <<>>
    BY <1>1, <1>3, <1>4 DEF CellsOf
  <2> QED
    BY <2>1, Zenon DEF Views!Ask
<1>5. CASE t.size # 0
  <2>1. PICK from \in Nat : /\ t.block = s.block /\ t.begin = s.begin + from
                            /\ from + t.size <= s.size
    BY <1>5
  <2>2. from + 1 \in 1..s.size /\ from + t.size \in 1..s.size
    BY <1>2, <1>3, <1>5, <2>1
  <2>3. SubSeq(CellsOf(s), from + 1, from + t.size) = CellsOf(t)
    <3> DEFINE u == CellsOf(s)
               v == CellsOf(t)
    <3>1. \A i \in 1..t.size : v[i] = u[from + i]
      <4> SUFFICES ASSUME NEW i \in 1..t.size PROVE v[i] = u[from + i]
        OBVIOUS
      <4>1. from + i \in 1..s.size /\ s.begin \in Nat
        BY <1>1, <1>2, <1>3, <2>1 DEF Slice
      <4>2. t.begin + i = s.begin + (from + i)
        BY <1>3, <2>1, <4>1
      <4> QED
        BY <1>2, <1>3, <2>1, <4>1, <4>2
    <3>2. v = [i \in 1..t.size |-> v[i]]
      BY DEF CellsOf
    <3>3. PICK S : u \in Seq(S)
      BY <1>1, CellsOfIs DEF IsSeq
    <3> HIDE DEF u, v
    <3>4. Len(u) = s.size
      BY <1>2 DEF u
    <3>5. SubSeq(u, from + 1, from + t.size) = [i \in 1..t.size |-> u[from + i]]
      <4>1. from \in Nat /\ t.size \in Nat /\ from + t.size <= Len(u)
        BY <1>3, <2>1, <3>4
      <4> QED
        BY ONLY <3>3, <4>1, SubSeqIs, SMTT(30)
    <3> QED
      BY <3>1, <3>2, <3>5 DEF u, v
  <2>4. \E i, j \in 1..Len(view[a]) : next[None] = SubSeq(view[a], i, j)
    <3> HIDE DEF view, next, s, t
    <3>1. \E i, j \in 1..Len(CellsOf(s)) : CellsOf(t) = SubSeq(CellsOf(s), i, j)
      BY <1>2, <2>2, <2>3
    <3> QED
      BY <1>1, <3>1
  <2> QED
    BY <2>4, Zenon DEF Views!Ask
<1> QED
  BY <1>4, <1>5

LEMMA DeliverViews ==
    ASSUME Typed, InBounds, SameBytes, None \in Viewed, NEW b, b \notin Viewed,
           Viewed' = (Viewed \ {None}) \cup {b},
           \A a \in Viewed \ {None} : SliceOf'[a] = SliceOf[a],
           SliceOf'[b] = SliceOf[None],
           wrote' = None
    PROVE  Views!Deliver(b)
<1>1. UsedCells \subseteq UsedCells'
  <2> SUFFICES ASSUME NEW c \in UsedCells PROVE c \in UsedCells'
    OBVIOUS
  <2>1. PICK a \in Viewed : \E i \in 1..SliceOf[a].size : c = Cell(SliceOf[a], i)
    BY DEF UsedCells
  <2>2. \E d \in Viewed' : SliceOf'[d] = SliceOf[a]
    BY <2>1
  <2> QED
    BY <2>1, <2>2 DEF UsedCells
<1>2. ASSUME NEW c \in UsedCells
      PROVE  blocks'[c[1]].bytes[c[2]] = blocks[c[1]].bytes[c[2]]
  <2>1. PICK k \in Block, j \in Nat : c = <<k, j>> /\ blocks[k].ref > 0
    BY UsedAllocated
  <2> QED
    BY <2>1 DEF SameBytes
<1>3. Views!Kept(Views!Used)
  BY <1>1, <1>2, ViewsCells DEF Views!Kept
<1> QED
  BY <1>3 DEF Views!Deliver

LEMMA ChangeViews ==
    ASSUME Typed, InBounds, NEW b \in Viewed, Viewed' = Viewed,
           SliceOf' = SliceOf, wrote' = <<b, "within">>,
           \A c \in UsedCells :
              \/ c \in {Cell(SliceOf[b], i) : i \in 1..SliceOf[b].size}
              \/ blocks'[c[1]].bytes[c[2]] = blocks[c[1]].bytes[c[2]]
    PROVE  Views!Change(b)
<1>1. UsedCells' = UsedCells
  BY DEF UsedCells
<1>2. Views!Kept(Views!Used \ Views!Cells(b))
  BY <1>1, ViewsCells DEF Views!Kept
<1> QED
  BY <1>2 DEF Views!Change

LEMMA OverrunViews ==
    ASSUME Typed, InBounds, NEW b \in Viewed, Viewed' = Viewed,
           SliceOf' = SliceOf, wrote' = <<b, "beyond">>,
           \A c \in UsedCells :
              \/ c[1] = SliceOf[b].block
              \/ blocks'[c[1]].bytes[c[2]] = blocks[c[1]].bytes[c[2]]
    PROVE  Views!Overrun(b)
<1>1. UsedCells' = UsedCells
  BY DEF UsedCells
<1>2. ASSUME NEW c \in UsedCells, c[1] = SliceOf[b].block
      PROVE  c \in Views!Around(b)
  <2> DEFINE s == SliceOf[b]
  <2>1. s \in Slice /\ SliceIn(s, blocks)
    BY ViewedSlices
  <2>2. PICK k \in Block, j \in Nat : /\ c = <<k, j>> /\ blocks[k].ref > 0
                                      /\ j \in 1..Len(blocks[k].bytes)
    BY UsedAllocated
  <2>3. s.block = k /\ s.block # Null
    BY <1>2, <2>2, BufferAssumption
  <2>4. s.size # 0
    BY <2>1, <2>2, <2>3 DEF SliceIn
  <2>5. 1 \in 1..s.size
    BY <2>1, <2>4 DEF Slice
  <2>6. Cell(s, 1) \in Views!Cells(b) /\ Cell(s, 1)[1] = c[1]
    BY <2>2, <2>3, <2>5, ViewsCells DEF Cell
  <2>7. c \in Views!Used
    BY ViewsCells
  <2> HIDE DEF s
  <2> QED
    BY <2>6, <2>7 DEF Views!Around
<1>3. Views!Kept(Views!Used \ Views!Around(b))
  BY <1>1, <1>2, ViewsCells DEF Views!Kept
<1> QED
  BY <1>3 DEF Views!Overrun

LEMMA DropViews ==
    ASSUME Typed, InBounds, Typed', InBounds', NEW b \in Viewed,
           Viewed' = Viewed \ {b},
           \A a \in Viewed' : SliceOf'[a] = SliceOf[a],
           \A k \in Block : blocks'[k].ref > 0 => blocks'[k].bytes = blocks[k].bytes,
           wrote' = None
    PROVE  Views!Drop(b)
<1>1. ASSUME NEW c \in Views!Used'
      PROVE  /\ c \in UsedCells /\ c \in UsedCells'
             /\ blocks'[c[1]].bytes[c[2]] = blocks[c[1]].bytes[c[2]]
  <2> DEFINE next == [a \in Viewed' |-> [i \in 1..SliceOf'[a].size |-> Cell(SliceOf'[a], i)]]
  <2>6. Views!Used' = UNION {{next[a][i] : i \in 1..Len(next[a])} : a \in Viewed'}
    BY Zenon DEF Views!Used
  <2>7. \A a \in Viewed' : next[a] = CellsOf(SliceOf'[a])
    BY DEF CellsOf
  <2> HIDE DEF next
  <2>1. PICK a \in Viewed' : \E i \in 1..Len(CellsOf(SliceOf'[a])) : c = CellsOf(SliceOf'[a])[i]
    BY <1>1, <2>6, <2>7
  <2>2. SliceOf'[a] \in Slice /\ SliceIn(SliceOf'[a], blocks')
    BY <2>1, InBoundsIn DEF Typed, Viewed, SliceOf, InBounds, SliceOK, SliceIn
  <2>3. PICK i \in 1..SliceOf'[a].size : c = <<SliceOf'[a].block, SliceOf'[a].begin + i>>
    BY <2>1, <2>2, CellsOfIs
  <2>4. SliceOf'[a].block \in Block /\ blocks'[SliceOf'[a].block].ref > 0
    BY <2>2, <2>3 DEF SliceIn, Slice, NullSlice
  <2>5. c \in UsedCells /\ c \in UsedCells'
    BY <2>1, <2>3 DEF UsedCells, Cell
  <2> QED
    BY <2>3, <2>4, <2>5
<1>2. Views!Kept(Views!Used')
  BY <1>1 DEF Views!Kept
<1> QED
  BY <1>2 DEF Views!Drop

-----------------------------------------------------------------------------
(* Every step of Buffer is one of BufferViews. *)

\* What a new Buffer does to what is viewed.
LEMMA BecomeViewed ==
    ASSUME Typed, pending = Idle, pending' = pending, NEW b \in BufferId \ live,
           NEW s, Become(b, s)
    PROVE  /\ b \notin Viewed /\ Viewed' = Viewed \cup {b}
           /\ \A a \in Viewed : SliceOf'[a] = SliceOf[a]
           /\ SliceOf'[b] = s /\ wrote' = None
BY BufferAssumption DEF Become, Typed, Viewed, SliceOf

LEMMA NewWithViews ==
    ASSUME Inv, pending = Idle, NEW b \in BufferId \ live, NEW bytes, IsSeq(bytes),
           NewWith(b, bytes), pending' = pending
    PROVE  Views!New(b)
<1> USE DEF Inv
<1>1. CASE bytes = <<>>
  <2>1. Become(b, NullSlice) /\ blocks' = blocks
    BY <1>1 DEF NewWith
  <2>2. SameBytes
    BY <2>1 DEF SameBytes
  <2>3. /\ b \notin Viewed /\ Viewed' = Viewed \cup {b}
        /\ \A a \in Viewed : SliceOf'[a] = SliceOf[a]
        /\ SliceOf'[b] = NullSlice /\ wrote' = None
    BY <2>1, BecomeViewed
  <2>4. Views!Added(b)
    BY <2>2, <2>3, AddedViews
  <2>5. SliceOf'[b] \in Slice /\ SliceOf'[b].size = 0
    BY <2>3 DEF NullSlice, Slice
  <2> QED
    BY <2>3, <2>4, <2>5, NewViews
<1>2. CASE bytes # <<>>
  <2>1. PICK k \in Block : /\ blocks[k].ref = 0
                           /\ blocks' = Allocated(blocks, k, bytes)
                           /\ Become(b, SetData(blocks', k, 0, -1))
    BY <1>2 DEF NewWith
  <2> DEFINE s == SetData(blocks', k, 0, -1)
  <2>2. /\ Allocated(blocks, k, bytes)[k] = [ref |-> 1, bytes |-> bytes]
        /\ \A j \in Block : j # k => Allocated(blocks, k, bytes)[j] = blocks[j]
    BY AllocatedOK DEF Typed
  <2>3. SameBytes
    BY <2>1, <2>2 DEF SameBytes
  <2>4. s.block = k /\ s \in Slice
    <3>1. Len(bytes) \in Nat
      BY DEF IsSeq
    <3>2. blocks'[k].bytes = bytes
      BY <2>1, <2>2
    <3> QED
      BY <3>1, <3>2 DEF SetData, Slice
  <2>5. Become(b, s)
    BY <2>1
  <2> HIDE DEF s
  <2>6. /\ b \notin Viewed /\ Viewed' = Viewed \cup {b}
        /\ \A a \in Viewed : SliceOf'[a] = SliceOf[a]
        /\ SliceOf'[b] = s /\ wrote' = None
    BY <2>5, BecomeViewed
  <2>7. Views!Added(b)
    BY <2>3, <2>6, AddedViews
  <2>8. \A i \in 1..s.size : \A c \in UsedCells : c[1] # s.block
    BY <2>1, <2>4, UsedAllocated
  <2> QED
    BY <2>4, <2>6, <2>7, <2>8, NewViews
<1> QED
  BY <1>1, <1>2

LEMMA NewFromBufferViews ==
    ASSUME Inv, pending = Idle, NEW b \in BufferId \ live, NEW a \in live,
           NewFromBuffer(b, a)
    PROVE  Views!Share(b, a)
<1> USE DEF Inv
<1>1. Memory(blocks) /\ slices[a] \in Slice /\ SliceIn(slices[a], blocks)
  BY InBoundsIn DEF Typed
<1>2. SubSlice(blocks, slices[a], 0, -1) = slices[a]
  BY <1>1, SameSlice
<1>3. Become(b, slices[a]) /\ blocks' = Retained(blocks, slices[a]) /\ pending' = pending
  BY <1>2 DEF NewFromBuffer
<1>4. SameBytes
  BY <1>1, <1>3, RetainedOK DEF SameBytes
<1>5. /\ b \notin Viewed /\ Viewed' = Viewed \cup {b}
      /\ \A c \in Viewed : SliceOf'[c] = SliceOf[c]
      /\ SliceOf'[b] = slices[a] /\ wrote' = None
  BY <1>3, BecomeViewed
<1>6. Views!Added(b)
  BY <1>4, <1>5, AddedViews
<1>7. a \in Viewed /\ SliceOf[a] = slices[a]
  BY BufferAssumption DEF Viewed, SliceOf, Typed
<1> QED
  BY <1>5, <1>6, <1>7, ShareViews

\* What is asked for is a slice on the stack.
LEMMA PendingViewed ==
    ASSUME Typed, pending = Idle, pending' # Idle, UNCHANGED <<live, slices>>
    PROVE  /\ None \notin Viewed /\ Viewed' = Viewed \cup {None}
           /\ \A a \in Viewed : SliceOf'[a] = SliceOf[a]
           /\ SliceOf'[None] = pending'.slice
BY BufferAssumption DEF Typed, Viewed, SliceOf

LEMMA BeginStringViews ==
    ASSUME Inv, pending = Idle, NEW bytes, IsSeq(bytes), BeginString(bytes)
    PROVE  Views!New(None)
<1> USE DEF Inv
<1>1. PICK k \in Block :
         /\ blocks[k].ref = 0
         /\ blocks' = Allocated(blocks, k, bytes)
         /\ pending' = [op |-> "string", slice |-> SetData(blocks', k, 0, -1), self |-> None]
  BY DEF BeginString
<1>2. UNCHANGED <<live, slices>> /\ wrote' = None /\ pending' # Idle
  BY <1>1 DEF BeginString, Idle
<1>3. /\ Allocated(blocks, k, bytes)[k] = [ref |-> 1, bytes |-> bytes]
      /\ \A j \in Block : j # k => Allocated(blocks, k, bytes)[j] = blocks[j]
  BY AllocatedOK DEF Typed
<1>4. SameBytes
  BY <1>1, <1>3 DEF SameBytes
<1> DEFINE s == SetData(blocks', k, 0, -1)
<1>5. s.block = k /\ s \in Slice /\ pending'.slice = s
  <2>1. Len(bytes) \in Nat
    BY DEF IsSeq
  <2>2. blocks'[k].bytes = bytes
    BY <1>1, <1>3
  <2> QED
    BY <1>1, <2>1, <2>2 DEF SetData, Slice
<1> HIDE DEF s
<1>6. /\ None \notin Viewed /\ Viewed' = Viewed \cup {None}
      /\ \A a \in Viewed : SliceOf'[a] = SliceOf[a]
      /\ SliceOf'[None] = s
  BY <1>2, <1>5, PendingViewed
<1>7. Views!Added(None)
  BY <1>2, <1>4, <1>6, AddedViews
<1>8. \A i \in 1..s.size : \A c \in UsedCells : c[1] # s.block
  BY <1>1, <1>5, UsedAllocated
<1> QED
  BY <1>5, <1>6, <1>7, <1>8, NewViews

LEMMA BeginSliceViews ==
    ASSUME Inv, pending = Idle, NEW a \in live, NEW start \in Int, NEW end \in Int,
           BeginSlice(a, start, end)
    PROVE  Views!Ask(a)
<1> USE DEF Inv
<1> DEFINE size == slices[a].size
           from == SliceStart(size, start, end)
           long == SliceSize(size, start, end)
           s == SubSlice(blocks, slices[a], from, long)
<1>1. Memory(blocks) /\ slices[a] \in Slice /\ SliceIn(slices[a], blocks) /\ size \in Nat
  BY InBoundsIn DEF Typed, Slice
<1>2. from \in Nat /\ long \in Nat /\ from + long <= size
  BY <1>1, SliceRangeOK
<1>3. /\ pending' = [op |-> "slice", slice |-> s, self |-> a]
      /\ blocks' = Retained(blocks, s) /\ wrote' = None
      /\ UNCHANGED <<live, slices>>
  BY DEF BeginSlice
<1>4. pending' # Idle /\ pending'.slice = s
  BY <1>3 DEF Idle
<1> HIDE DEF from, long
<1>5. \/ s = NullSlice
      \/ /\ s = [block |-> slices[a].block, begin |-> slices[a].begin + from, size |-> long]
         /\ slices[a].block # Null
  BY <1>1, <1>2 DEF SubSlice, SetData
<1>6. s \in Slice
  BY <1>1, <1>2, <1>5 DEF Slice, NullSlice
<1> HIDE DEF s
<1>7. SameBytes
  BY <1>1, <1>3, <1>6, RetainedOK DEF SameBytes
<1>8. /\ None \notin Viewed /\ Viewed' = Viewed \cup {None}
      /\ \A c \in Viewed : SliceOf'[c] = SliceOf[c]
      /\ SliceOf'[None] = s
  BY <1>3, <1>4, PendingViewed
<1>9. Views!Added(None)
  BY <1>3, <1>7, <1>8, AddedViews
<1>10. a \in Viewed /\ SliceOf[a] = slices[a]
  BY BufferAssumption DEF Viewed, SliceOf, Typed
<1>11. \/ s.size = 0
       \/ \E f \in Nat : /\ s.block = SliceOf[a].block
                         /\ s.begin = SliceOf[a].begin + f
                         /\ f + s.size <= SliceOf[a].size
  BY <1>2, <1>5, <1>10 DEF NullSlice
<1> QED
  BY <1>6, <1>8, <1>9, <1>10, <1>11, AskViews

LEMMA FinishViews ==
    ASSUME Inv, NEW b \in BufferId \ live, Finish(b)
    PROVE  Views!Deliver(b)
<1> USE DEF Inv
<1> DEFINE s == pending.slice
           m == Retained(blocks, s)
<1>1. Memory(blocks) /\ s \in Slice /\ SliceIn(s, blocks)
  BY InBoundsIn DEF Typed
<1>2. SubSlice(blocks, s, 0, -1) = s
  BY <1>1, SameSlice
<1>3. /\ pending # Idle /\ Become(b, s) /\ pending' = Idle
      /\ blocks' = Released(m, s)
  BY <1>2 DEF Finish
<1>4. Memory(m) /\ \A k \in Block : /\ m[k].ref = blocks[k].ref + One(s.block = k)
                                    /\ m[k].bytes = blocks[k].bytes
  BY <1>1, RetainedOK
<1>5. \A k \in Block : blocks[k].ref \in Nat
  BY <1>1 DEF Memory
<1>6. SliceIn(s, m)
  <2> HIDE DEF m
  <2> QED
    BY <1>1, <1>4, <1>5 DEF SliceIn, One, Slice
<1>7. \A k \in Block :
         /\ Released(m, s)[k].ref = m[k].ref - One(s.block = k)
         /\ Released(m, s)[k].ref > 0 \/ s.block # k => Released(m, s)[k].bytes = m[k].bytes
  <2> HIDE DEF m
  <2> QED
    BY <1>1, <1>4, <1>6, ReleasedOK
<1> HIDE DEF m
<1>8. SameBytes
  BY <1>3, <1>4, <1>5, <1>7 DEF SameBytes, One
<1>9. /\ None \in Viewed /\ b \notin Viewed
      /\ Viewed' = (Viewed \ {None}) \cup {b}
      /\ \A a \in Viewed \ {None} : SliceOf'[a] = SliceOf[a]
      /\ SliceOf'[b] = SliceOf[None] /\ wrote' = None
  BY <1>3, BufferAssumption DEF Become, Typed, Viewed, SliceOf
<1> QED
  BY <1>8, <1>9, DeliverViews

LEMMA CollectViews ==
    ASSUME Inv, NEW b \in live, Collect(b)
    PROVE  Views!Drop(b)
<1> USE DEF Inv
<1>1. Typed' /\ InBounds'
  BY CollectInv
<1>2. Memory(blocks) /\ slices[b] \in Slice /\ SliceIn(slices[b], blocks)
  BY InBoundsIn DEF Typed
<1>3. \A k \in Block : blocks'[k].ref > 0 => blocks'[k].bytes = blocks[k].bytes
  BY <1>2, ReleasedOK DEF Collect
<1>4. /\ b \in Viewed /\ Viewed' = Viewed \ {b}
      /\ \A a \in Viewed' : SliceOf'[a] = SliceOf[a]
      /\ wrote' = None
  BY BufferAssumption DEF Collect, Typed, Viewed, SliceOf
<1> QED
  BY <1>1, <1>3, <1>4, DropViews

\* Bytes written in the range of a slice are the bytes of its cells.
LEMMA WrittenAt ==
    ASSUME NEW m, Memory(m), NEW s \in Slice, s.block # Null, NEW at \in Nat,
           NEW bytes, IsSeq(bytes), at + Len(bytes) <= s.size,
           NEW k \in Block, NEW j \in Nat, j \in 1..Len(m[k].bytes)
    PROVE  \/ k = s.block /\ \E i \in 1..s.size : j = s.begin + i
           \/ Written(m, s, at, bytes)[k].bytes[j] = m[k].bytes[j]
<1>1. CASE bytes = <<>>
  BY <1>1 DEF Written
<1>2. CASE bytes # <<>>
  <2> DEFINE first == s.begin + at
             old == m[s.block].bytes
             new == [i \in DOMAIN old |-> IF i - first \in 1..Len(bytes)
                                          THEN bytes[i - first] ELSE old[i]]
  <2>1. s.block \in Block /\ s.begin \in Nat /\ s.size \in Nat
    BY DEF Slice
  <2>2. Len(bytes) \in Nat
    BY DEF IsSeq
  <2>3. Written(m, s, at, bytes) = [m EXCEPT ![s.block].bytes = new]
    BY <1>2 DEF Written
  <2>4. CASE k # s.block
    <3> HIDE DEF new
    <3>1. Written(m, s, at, bytes)[k] = m[k]
      BY <2>1, <2>3, <2>4 DEF Memory
    <3> QED
      BY <3>1
  <2>5. CASE k = s.block
    <3>1. Written(m, s, at, bytes)[k].bytes = new
      <4> HIDE DEF new, old
      <4>1. Written(m, s, at, bytes)[k] = [m[k] EXCEPT !.bytes = new]
        BY <2>1, <2>3, <2>5 DEF Memory
      <4>2. m[k] = [ref |-> m[k].ref, bytes |-> m[k].bytes]
        BY DEF Memory
      <4> QED
        BY <4>1, <4>2
    <3>2. j \in DOMAIN old
      <4>1. IsSeq(old)
        BY <2>1 DEF Memory
      <4> QED
        BY <2>5, <4>1 DEF IsSeq
    <3>3. CASE j - first \in 1..Len(bytes)
      <4>1. j - s.begin \in 1..s.size /\ j = s.begin + (j - s.begin)
        BY <2>1, <2>2, <3>3, SMTT(30)
      <4> QED
        BY <2>5, <4>1
    <3>4. CASE j - first \notin 1..Len(bytes)
      <4>1. new[j] = old[j]
        BY <3>2, <3>4
      <4> QED
        BY <2>5, <3>1, <4>1
    <3> QED
      BY <3>3, <3>4
  <2> QED
    BY <2>4, <2>5
<1> QED
  BY <1>1, <1>2

LEMMA PutViews ==
    ASSUME Inv, NEW b \in live, NEW at, NEW bytes, PutBytes(b, at, bytes, "within"),
           \/ bytes = <<>>
           \/ at \in Nat /\ IsSeq(bytes) /\ at + Len(bytes) <= slices[b].size
    PROVE  Views!Change(b)
<1> USE DEF Inv
<1>1. Memory(blocks) /\ slices[b] \in Slice /\ SliceIn(slices[b], blocks)
  BY InBoundsIn DEF Typed
<1>2. /\ blocks' = Written(blocks, slices[b], at, bytes)
      /\ UNCHANGED <<live, slices, pending>> /\ wrote' = <<b, "within">>
  BY DEF PutBytes
<1>3. /\ b \in Viewed /\ Viewed' = Viewed /\ SliceOf' = SliceOf /\ SliceOf[b] = slices[b]
  BY <1>2, BufferAssumption DEF Viewed, SliceOf, Typed
<1>4. ASSUME NEW c \in UsedCells
      PROVE  \/ c \in {Cell(SliceOf[b], i) : i \in 1..SliceOf[b].size}
             \/ blocks'[c[1]].bytes[c[2]] = blocks[c[1]].bytes[c[2]]
  <2>1. PICK k \in Block, j \in Nat : /\ c = <<k, j>> /\ blocks[k].ref > 0
                                      /\ j \in 1..Len(blocks[k].bytes)
    BY UsedAllocated
  <2>2. CASE bytes = <<>>
    BY <1>2, <2>2 DEF Written
  <2>3. CASE bytes # <<>>
    <3>1. at \in Nat /\ IsSeq(bytes) /\ at + Len(bytes) <= slices[b].size
      BY <2>3
    <3>2. Len(bytes) \in Nat /\ Len(bytes) > 0
      BY <2>3, <3>1 DEF IsSeq
    <3>3. slices[b].block # Null
      BY <1>1, <3>1, <3>2 DEF SliceIn, NullSlice
    <3>4. \/ k = slices[b].block /\ \E i \in 1..slices[b].size : j = slices[b].begin + i
          \/ Written(blocks, slices[b], at, bytes)[k].bytes[j] = blocks[k].bytes[j]
      <4> DEFINE s == slices[b]
      <4>1. s \in Slice /\ s.block # Null /\ at + Len(bytes) <= s.size
        BY <1>1, <3>1, <3>3
      <4> HIDE DEF s
      <4>2. \/ k = s.block /\ \E i \in 1..s.size : j = s.begin + i
            \/ Written(blocks, s, at, bytes)[k].bytes[j] = blocks[k].bytes[j]
        BY ONLY <1>1, <2>1, <3>1, <4>1, WrittenAt
      <4> QED
        BY <4>2 DEF s
    <3> QED
      BY <1>2, <1>3, <2>1, <3>4 DEF Cell
  <2> QED
    BY <2>2, <2>3
<1> QED
  BY <1>2, <1>3, <1>4, ChangeViews

LEMMA BeyondViews ==
    ASSUME Inv, NEW b \in live, NEW at, NEW bytes, PutBytes(b, at, bytes, "beyond"),
           bytes = <<>> \/ slices[b].block # Null
    PROVE  Views!Overrun(b)
<1> USE DEF Inv
<1>1. Memory(blocks) /\ slices[b] \in Slice
  BY DEF Typed
<1>2. /\ blocks' = Written(blocks, slices[b], at, bytes)
      /\ UNCHANGED <<live, slices, pending>> /\ wrote' = <<b, "beyond">>
  BY DEF PutBytes
<1>3. /\ b \in Viewed /\ Viewed' = Viewed /\ SliceOf' = SliceOf /\ SliceOf[b] = slices[b]
  BY <1>2, BufferAssumption DEF Viewed, SliceOf, Typed
<1>4. ASSUME NEW c \in UsedCells
      PROVE  \/ c[1] = SliceOf[b].block
             \/ blocks'[c[1]].bytes[c[2]] = blocks[c[1]].bytes[c[2]]
  <2>1. PICK k \in Block, j \in Nat : c = <<k, j>>
    BY UsedAllocated
  <2>2. CASE bytes = <<>>
    BY <1>2, <2>2 DEF Written
  <2>3. CASE bytes # <<>> /\ k # slices[b].block
    <3>1. blocks'[k] = blocks[k]
      BY <1>1, <1>2, <2>3 DEF Written, Memory
    <3> QED
      BY <2>1, <3>1
  <2> QED
    BY <1>3, <2>1, <2>2, <2>3
<1> QED
  BY <1>2, <1>3, <1>4, OverrunViews

LEMMA CreateViews ==
    ASSUME Inv, Create
    PROVE  Views!Next
<1>1. pending = Idle
  BY DEF Create
<1>2. PICK b \in BufferId \ live :
         \/ \E n \in Arg : NewSized(b, n)
         \/ \E bytes \in Datum : NewFromArray(b, bytes)
         \/ \E a, c \in live : \E total \in Arg \cup {Len(Joined(a, c))} :
               Concat(b, a, c, total)
         \/ \E a \in live : NewFromBuffer(b, a)
  BY DEF Create
<1>3. CASE \E n \in Arg : NewSized(b, n)
  <2>1. PICK n \in Arg : NewSized(b, n)
    BY <1>3
  <2>2. Greatest(0, n) \in Nat
    BY BufferAssumption DEF Greatest
  <2>3. PICK bytes \in [1..Greatest(0, n) -> Byte] : NewWith(b, bytes)
    BY <2>1 DEF NewSized
  <2>4. IsSeq(bytes)
    <3>1. bytes \in Seq(Byte)
      BY <2>2
    <3> QED
      BY <3>1 DEF IsSeq
  <2>5. Views!New(b)
    BY <1>1, <2>1, <2>3, <2>4, NewWithViews DEF NewSized
  <2> QED
    BY <2>5 DEF Views!Next
<1>4. CASE \E bytes \in Datum : NewFromArray(b, bytes)
  <2>1. PICK bytes \in Datum : NewFromArray(b, bytes)
    BY <1>4
  <2>2. IsSeq(bytes)
    BY BufferAssumption DEF IsSeq
  <2>3. Views!New(b)
    BY <1>1, <2>1, <2>2, NewWithViews DEF NewFromArray
  <2> QED
    BY <2>3 DEF Views!Next
<1>5. CASE \E a, c \in live : \E total \in Arg \cup {Len(Joined(a, c))} : Concat(b, a, c, total)
  <2>0. PICK a \in live, c \in live :
           \E total \in Arg \cup {Len(Joined(a, c))} : Concat(b, a, c, total)
    BY <1>5
  <2>1. PICK total \in Arg \cup {Len(Joined(a, c))} : Concat(b, a, c, total)
    BY <2>0
  <2>2. total \in Int
    <3>1. IsSeq(Joined(a, c))
      BY ContentIsSeq, ConcatIsSeq DEF Joined
    <3> QED
      BY <3>1, BufferAssumption DEF IsSeq
  <2>3. PICK bytes : NewFromArray(b, bytes) /\ IsSeq(bytes)
    BY <2>1, <2>2, ConcatPuts
  <2>4. Views!New(b)
    BY <1>1, <2>3, NewWithViews DEF NewFromArray
  <2> QED
    BY <2>4 DEF Views!Next
<1>6. CASE \E a \in live : NewFromBuffer(b, a)
  <2>1. PICK a \in live : NewFromBuffer(b, a)
    BY <1>6
  <2>2. Views!Share(b, a) /\ a \in BufferId
    BY <1>1, <2>1, NewFromBufferViews DEF Inv, Typed
  <2> QED
    BY <2>2 DEF Views!Next
<1> QED
  BY <1>2, <1>3, <1>4, <1>5, <1>6

LEMMA BeginViews ==
    ASSUME Inv, Begin
    PROVE  Views!Next
<1>1. pending = Idle
  BY DEF Begin
<1>2. ASSUME NEW bytes \in Datum, BeginString(bytes) PROVE Views!Next
  <2>1. IsSeq(bytes)
    BY BufferAssumption DEF IsSeq
  <2>2. Views!New(None)
    BY <1>1, <1>2, <2>1, BeginStringViews
  <2> QED
    BY <2>2 DEF Views!Next
<1>3. ASSUME NEW a \in live, NEW start \in Arg, NEW end \in Arg, BeginSlice(a, start, end)
      PROVE  Views!Next
  <2>1. start \in Int /\ end \in Int /\ a \in BufferId
    BY BufferAssumption DEF Inv, Typed
  <2>2. Views!Ask(a)
    BY <1>1, <1>3, <2>1, BeginSliceViews
  <2> QED
    BY <2>1, <2>2 DEF Views!Next
<1> QED
  BY <1>2, <1>3 DEF Begin

LEMMA ModifyViews ==
    ASSUME Inv, Modify
    PROVE  Views!Next
<1>1. PICK b \in live : \E at, bytes, where : Puts(b, at, bytes, where)
  BY ModifyPuts
<1>2. PICK at, bytes, where : Puts(b, at, bytes, where)
  BY <1>1
<1>3. where = "within" => Views!Change(b)
  BY <1>2, PutViews DEF Puts
<1>4. where = "beyond" => Views!Overrun(b)
  BY <1>2, BeyondViews DEF Puts
<1>5. Views!Change(b) \/ Views!Overrun(b)
  BY <1>2, <1>3, <1>4 DEF Puts
<1>6. b \in BufferId
  BY DEF Inv, Typed
<1> QED
  BY <1>5, <1>6 DEF Views!Next

LEMMA ViewsStep == Inv /\ [Next]_vars => [Views!Next]_(Views!vars)
<1> SUFFICES ASSUME Inv, [Next]_vars PROVE Views!Next \/ UNCHANGED Views!vars
  OBVIOUS
<1>1. CASE Create
  BY <1>1, CreateViews
<1>2. CASE Begin
  BY <1>2, BeginViews
<1>3. CASE Modify
  BY <1>3, ModifyViews
<1>4. ASSUME NEW b \in BufferId \ live, Finish(b) PROVE Views!Next
  BY <1>4, FinishViews DEF Views!Next
<1>5. ASSUME NEW b \in live, Collect(b) PROVE Views!Next
  <2>1. b \in BufferId
    BY DEF Inv, Typed
  <2> QED
    BY <1>5, <2>1, CollectViews DEF Views!Next
<1>6. CASE UNCHANGED vars
  <2>1. UNCHANGED <<live, slices, blocks, pending, wrote>>
    BY <1>6 DEF vars
  <2>2. Viewed' = Viewed /\ SliceOf' = SliceOf
    BY <2>1 DEF Viewed, SliceOf
  <2>3. UsedCells' = UsedCells
    BY <2>2 DEF UsedCells
  <2> QED
    BY <2>1, <2>2, <2>3 DEF Views!vars
<1> QED
  BY <1>1, <1>2, <1>3, <1>4, <1>5, <1>6 DEF Next

LEMMA ViewsInit == Init => Views!Init
<1> SUFFICES ASSUME Init PROVE Views!Init
  OBVIOUS
<1>1. Viewed = {} /\ wrote = None
  BY DEF Init, Viewed
<1>2. UsedCells = {}
  BY <1>1 DEF UsedCells
<1>3. Typed /\ InBounds
  BY InvInit DEF Inv
<1>4. Views!Used = UsedCells
  BY <1>3, ViewsCells
<1> QED
  BY <1>1, <1>2, <1>4 DEF Views!Init

\* Whatever memory is allocated, shared, counted and freed, scripts see what
\* BufferViews promises: new Buffers with cells of their own, slices and copies of
\* Buffers with the cells of the others, writes that change no other cell, and fills
\* that change none outside of the memory the Buffer shares.
THEOREM ViewsCorrect == Spec => ViewsKept
<1> QED
  BY InvCorrect, ViewsInit, ViewsStep, PTL DEF Spec, ViewsKept, Views!Spec

-----------------------------------------------------------------------------
(* The types of the variables. *)

LEMMA TypeOKParts ==
    TypeOK <=> /\ Typed /\ BytesIn(blocks)
               /\ pending \in [op : {"none", "string", "slice"}, slice : Slice,
                               self : BufferId \cup {None}]
               /\ destructs \in BOOLEAN
               /\ wrote \in (BufferId \X {"within", "beyond"}) \cup {None}
               /\ pending = Idle => pending.slice = NullSlice
<1>1. blocks \in [Block -> [ref : Nat, bytes : Seq(Byte)]] => Memory(blocks) /\ BytesIn(blocks)
  BY DEF Memory, BytesIn, IsSeq
<1>2. Memory(blocks) /\ BytesIn(blocks) => blocks \in [Block -> [ref : Nat, bytes : Seq(Byte)]]
  <2> SUFFICES ASSUME Memory(blocks), BytesIn(blocks)
               PROVE  blocks \in [Block -> [ref : Nat, bytes : Seq(Byte)]]
    OBVIOUS
  <2>1. blocks = [k \in Block |-> blocks[k]]
    BY DEF Memory
  <2>2. ASSUME NEW k \in Block PROVE blocks[k] \in [ref : Nat, bytes : Seq(Byte)]
    <3> DEFINE r == blocks[k].ref
               y == blocks[k].bytes
    <3>1. blocks[k] = [ref |-> r, bytes |-> y] /\ r \in Nat /\ y \in Seq(Byte)
      BY DEF Memory, BytesIn
    <3> HIDE DEF r, y
    <3> QED
      BY <3>1
  <2> QED
    BY <2>1, <2>2
<1>3. pending = Idle => pending.slice = NullSlice
  BY DEF Idle
<1> QED
  BY <1>1, <1>2, <1>3 DEF TypeOK, Typed


\* What the steps do to the bytes in the blocks.
LEMMA NewWithBytes ==
    ASSUME Inv, BytesIn(blocks), NEW b, NEW bytes \in Seq(Byte), NewWith(b, bytes)
    PROVE  BytesIn(blocks')
<1>1. \A k \in Block : BytesIn(Allocated(blocks, k, bytes))
  <2>1. Memory(blocks) /\ NullSlice \in Slice
    BY DEF Inv, Typed, NullSlice, Slice
  <2> QED
    BY <2>1, MemoryBytes
<1> QED
  BY <1>1 DEF NewWith

LEMMA BytesStep ==
    ASSUME Inv, BytesIn(blocks), Next
    PROVE  BytesIn(blocks')
<1> USE DEF Inv
<1>1. Memory(blocks) /\ pending.slice \in Slice /\ SliceIn(pending.slice, blocks)
      /\ \A b \in live : slices[b] \in Slice /\ SliceIn(slices[b], blocks)
  BY InBoundsIn DEF Typed
<1>2. CASE Create
  <2>1. PICK b \in BufferId \ live :
           \/ \E n \in Arg : NewSized(b, n)
           \/ \E bytes \in Datum : NewFromArray(b, bytes)
           \/ \E a, c \in live : \E total \in Arg \cup {Len(Joined(a, c))} :
               Concat(b, a, c, total)
           \/ \E a \in live : NewFromBuffer(b, a)
    BY <1>2 DEF Create
  <2>2. ASSUME NEW n \in Arg, NewSized(b, n) PROVE BytesIn(blocks')
    <3>1. Greatest(0, n) \in Nat
      BY BufferAssumption DEF Greatest
    <3>2. PICK bytes \in [1..Greatest(0, n) -> Byte] : NewWith(b, bytes)
      BY <2>2 DEF NewSized
    <3>3. bytes \in Seq(Byte)
      BY <3>1
    <3> QED
      BY <3>2, <3>3, NewWithBytes
  <2>3. ASSUME NEW bytes \in Seq(Byte), NewFromArray(b, bytes) PROVE BytesIn(blocks')
    BY <2>3, NewWithBytes DEF NewFromArray
  <2>4. ASSUME NEW a \in live, NEW c \in live, NEW total \in Arg \cup {Len(Joined(a, c))},
               Concat(b, a, c, total)
        PROVE  BytesIn(blocks')
    <3>1. total \in Int
      <4>1. IsSeq(Joined(a, c))
        BY ContentIsSeq, ConcatIsSeq DEF Joined
      <4> QED
        BY <4>1, BufferAssumption DEF IsSeq
    <3>2. PICK bytes \in Seq(Byte) : NewFromArray(b, bytes)
      BY <2>4, <3>1, ConcatPuts
    <3> QED
      BY <2>3, <3>2
  <2>5. ASSUME NEW a \in live, NewFromBuffer(b, a) PROVE BytesIn(blocks')
    <3>1. SubSlice(blocks, slices[a], 0, -1) = slices[a]
      BY <1>1, SameSlice
    <3> QED
      BY <1>1, <2>5, <3>1, MemoryBytes DEF NewFromBuffer
  <2> QED
    BY <2>1, <2>2, <2>3, <2>4, <2>5, BufferAssumption
<1>3. CASE Begin
  <2>1. ASSUME NEW bytes \in Datum, BeginString(bytes) PROVE BytesIn(blocks')
    BY <1>1, <2>1, MemoryBytes, BufferAssumption DEF BeginString
  <2>2. ASSUME NEW a \in live, NEW start \in Arg, NEW end \in Arg, BeginSlice(a, start, end)
        PROVE  BytesIn(blocks')
    <3>1. start \in Int /\ end \in Int
      BY BufferAssumption
    <3> DEFINE size == slices[a].size
               s == SubSlice(blocks, slices[a], SliceStart(size, start, end),
                             SliceSize(size, start, end))
    <3>2. /\ size \in Nat /\ SliceStart(size, start, end) \in Nat
          /\ SliceSize(size, start, end) \in Nat
          /\ SliceStart(size, start, end) + SliceSize(size, start, end) <= size
      BY <1>1, <3>1, SliceRangeOK DEF Slice
    <3>3. s \in Slice
      BY <1>1, <3>2, SubSliceOK
    <3>4. blocks' = Retained(blocks, s)
      BY <2>2 DEF BeginSlice
    <3> HIDE DEF s
    <3> QED
      BY <1>1, <3>3, <3>4, MemoryBytes
  <2> QED
    BY <1>3, <2>1, <2>2 DEF Begin
<1>4. CASE Modify
  <2>1. PICK b \in live : \E at, bytes, where : Puts(b, at, bytes, where)
    BY <1>4, ModifyPuts
  <2>2. PICK at, bytes, where : Puts(b, at, bytes, where)
    BY <2>1
  <2>3. bytes \in Seq(Byte)
    BY <2>2 DEF Puts
  <2>4. slices[b].block # Null \/ bytes = <<>>
    BY <2>2 DEF Puts
  <2>5. blocks' = Written(blocks, slices[b], at, bytes)
    BY <2>2 DEF Puts, PutBytes
  <2> QED
    BY <1>1, <2>3, <2>4, <2>5, MemoryBytes
<1>5. ASSUME NEW b \in BufferId \ live, Finish(b) PROVE BytesIn(blocks')
  <2> DEFINE s == pending.slice
             m == Retained(blocks, s)
  <2>1. SubSlice(blocks, s, 0, -1) = s
    BY <1>1, SameSlice
  <2>2. blocks' = Released(m, s)
    BY <1>5, <2>1 DEF Finish
  <2>3. Memory(m) /\ BytesIn(m) /\ SliceIn(s, m)
    <3>1. Memory(m) /\ BytesIn(m)
          /\ \A k \in Block : /\ m[k].ref = blocks[k].ref + One(s.block = k)
                              /\ m[k].bytes = blocks[k].bytes
      BY <1>1, RetainedOK, MemoryBytes
    <3>2. \A k \in Block : blocks[k].ref \in Nat
      BY <1>1 DEF Memory
    <3> HIDE DEF m
    <3>3. SliceIn(s, m)
      BY <1>1, <3>1, <3>2 DEF SliceIn, One, Slice
    <3> QED
      BY <3>1, <3>3
  <2> HIDE DEF m
  <2> QED
    BY <1>1, <2>2, <2>3, MemoryBytes
<1>6. ASSUME NEW b \in live, Collect(b) PROVE BytesIn(blocks')
  BY <1>1, <1>6, MemoryBytes DEF Collect
<1> QED
  BY <1>2, <1>3, <1>4, <1>5, <1>6 DEF Next

LEMMA TypeOKInit == Init => TypeOK
<1> SUFFICES ASSUME Init PROVE TypeOK
  OBVIOUS
<1>1. Typed
  BY InvInit DEF Inv
<1>2. BytesIn(blocks)
  <2>1. FreeBlock.bytes \in Seq(Byte)
    <3>1. <<>> \in Seq(Byte)
      OBVIOUS
    <3> QED
      BY <3>1 DEF FreeBlock
  <2> QED
    BY <2>1 DEF Init, BytesIn
<1>3. pending \in [op : {"none", "string", "slice"}, slice : Slice,
                   self : BufferId \cup {None}]
  BY DEF Init, Idle, NullSlice, Slice
<1>4. destructs \in BOOLEAN /\ wrote = None
  BY BufferAssumption DEF Init
<1> QED
  BY <1>1, <1>2, <1>3, <1>4, TypeOKParts DEF Typed

LEMMA TypeOKStep == Inv /\ Inv' /\ TypeOK /\ [Next]_vars => TypeOK'
<1> SUFFICES ASSUME Inv, Inv', TypeOK, [Next]_vars PROVE TypeOK'
  OBVIOUS
<1>1. BytesIn(blocks')
  BY BytesStep, TypeOKParts DEF vars
<1>2. Typed'
  BY DEF Inv
<1>3. blocks' \in [Block -> [ref : Nat, bytes : Seq(Byte)]]
  <2>1. blocks' = [k \in Block |-> blocks'[k]]
    BY <1>2 DEF Typed, Memory
  <2>2. ASSUME NEW k \in Block PROVE blocks'[k] \in [ref : Nat, bytes : Seq(Byte)]
    <3> DEFINE r == blocks'[k].ref
               y == blocks'[k].bytes
    <3>1. blocks'[k] = [ref |-> r, bytes |-> y] /\ r \in Nat /\ y \in Seq(Byte)
      BY <1>1, <1>2 DEF Typed, Memory, BytesIn
    <3> HIDE DEF r, y
    <3> QED
      BY <3>1
  <2> QED
    BY <2>1, <2>2
<1>4. destructs' = destructs /\ (Modify => pending' = pending)
  <2>1. Modify => destructs' = destructs /\ pending' = pending
    BY ModifyPuts DEF Puts, PutBytes
  <2>2. Create => destructs' = destructs
    BY DEF Create, NewSized, NewFromArray, Concat, NewFromBuffer
  <2>3. Begin => destructs' = destructs
    BY DEF Begin, BeginString, BeginSlice
  <2>4. \A b \in BufferId : Finish(b) \/ Collect(b) => destructs' = destructs
    BY DEF Finish, Collect
  <2>5. live \subseteq BufferId
    BY DEF TypeOK
  <2>6. UNCHANGED vars => destructs' = destructs /\ pending' = pending
    BY DEF vars
  <2>7. \/ UNCHANGED vars \/ Create \/ Begin \/ Modify
        \/ \E b \in BufferId : Finish(b) \/ Collect(b)
    BY <2>5 DEF Next
  <2> QED
    BY <2>1, <2>2, <2>3, <2>4, <2>6, <2>7
<1>5. wrote' \in (BufferId \X {"within", "beyond"}) \cup {None}
  <2>1. live \subseteq BufferId /\ wrote \in (BufferId \X {"within", "beyond"}) \cup {None}
    BY DEF TypeOK
  <2>2. Modify => wrote' \in live \X {"within", "beyond"}
    BY ModifyPuts DEF Puts, PutBytes
  <2> QED
    BY <2>1, <2>2 DEF Next, Create, Begin, NewSized, NewFromArray, Concat, NewFromBuffer,
         NewWith, Become, BeginString, BeginSlice, Finish, Collect, vars
<1>6. /\ pending'.op \in {"none", "string", "slice"} /\ pending'.self \in BufferId \cup {None}
      /\ pending' = [op |-> pending'.op, slice |-> pending'.slice, self |-> pending'.self]
  <2>1. live \subseteq BufferId /\ pending \in [op : {"none", "string", "slice"}, slice : Slice,
                                               self : BufferId \cup {None}]
    BY DEF TypeOK
  <2>2. CASE pending' = pending
    BY <2>1, <2>2
  <2>3. CASE pending' # pending
    <3>1. Create => pending' = pending
      BY DEF Create, NewSized, NewFromArray, Concat, NewFromBuffer
    <3>2. \A b \in live : Collect(b) => pending' = pending
      BY DEF Collect
    <3>3. Begin \/ \E b \in BufferId \ live : Finish(b)
      BY <1>4, <2>3, <3>1, <3>2 DEF Next, vars
    <3>4. None \in BufferId \cup {None} /\ live \subseteq BufferId \cup {None}
      BY <2>1
    <3>5. Begin => pending'.op \in {"none", "string", "slice"}
                   /\ pending'.self \in BufferId \cup {None}
                   /\ pending' = [op |-> pending'.op, slice |-> pending'.slice,
                                  self |-> pending'.self]
      BY <3>4 DEF Begin, BeginString, BeginSlice
    <3> QED
      BY <3>3, <3>4, <3>5 DEF Finish, Idle
  <2> QED
    BY <2>2, <2>3
<1>7. pending' \in [op : {"none", "string", "slice"}, slice : Slice, self : BufferId \cup {None}]
  BY <1>2, <1>6 DEF Typed
<1> QED
  BY <1>2, <1>3, <1>4, <1>5, <1>7 DEF TypeOK, Typed

\* The bytes in the blocks stay bytes whatever is written: numbers and floats in
\* both byte orders, what fill doubles, what copy and write cut off.
THEOREM TypeCorrect == Spec => []TypeOK
<1> QED
  BY InvCorrect, TypeOKInit, TypeOKStep, PTL DEF Spec
=============================================================================
