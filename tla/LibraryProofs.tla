---------------------------- MODULE LibraryProofs ----------------------------
(***************************************************************************)
(* Proofs of what MCLibrary states                                         *)
(*   - of the operators of BufferBytes, for Buffers, indices and strings   *)
(*     of any size and any even number of values of a byte: the work is in *)
(*     the lemmas of BytesProofs, and here they meet the inputs;           *)
(*   - of format, for any number of pieces and arguments.                  *)
(***************************************************************************)
EXTENDS MCLibrary, BytesProofs

(* Inputs, by the operation they are for. *)

\* An input stays what it is, so what holds of every input holds always.
LEMMA InputStays == Spec => []Init
<1>1. Init /\ [Next]_input => Init'
  <2> SUFFICES ASSUME Init, input' = input PROVE Init'
    BY DEF Next
  <2>1. BufferInput => BufferInput'
    BY DEF BufferInput
  <2>2. PathInput => PathInput'
    BY DEF PathInput
  <2>3. UtilInput => UtilInput'
    BY DEF UtilInput
  <2>4. AssertInput => AssertInput'
    BY DEF AssertInput
  <2> QED
    BY <2>1, <2>2, <2>3, <2>4 DEF Init
<1> QED
  BY <1>1, PTL DEF Spec

LEMMA InputIs ==
    ASSUME Init
    PROVE  /\ Is("slice") \/ Is("text") =>
                input \in [op : {"slice", "text"}, size : Sizes, start : Indices, end : Indices]
           /\ Is("copy") =>
                input \in [op : {"copy"}, source : Sizes, target : Sizes, targetStart : Sizes,
                           sourceStart : Sizes, sourceEnd : 0..MaxIndex]
           /\ Is("range") =>
                input \in [op : {"range"}, size : 0..MaxLength, offset : 0..MaxLength + 1,
                           length : 1..MaxLength + 1]
           /\ Is("fill") =>
                input \in [op : {"fill"}, value : Strings(2) \ {<<>>}, length : 0..2 * MaxSize]
           /\ Is("utf8") =>
                input \in [op : {"utf8"}, chars : UNION {[1..k -> Chars] : k \in 0..MaxChars},
                           limit : 0..MaxIndex]
           /\ Is("hex") => input \in [op : {"hex"}, chars : Digits]
           /\ Is("compare") =>
                input \in [op : {"compare"}, a : Strings(2), b : Strings(2), c : Strings(2)]
           /\ Is("integer") =>
                input \in [op : {"integer"}, width : {1, 2, 4}, signed : BOOLEAN,
                           v : -(Power(4) \div 2) .. Power(4), little : BOOLEAN]
           /\ Is("float") =>
                \/ input \in [op : {"float"}, width : {4}, bits : 0 .. Power(4) - 1,
                              little : BOOLEAN]
                \/ input \in [op : {"float"}, width : {8}, bits : Infinities \cup
                              {Power(k) - 1 : k \in 0..8}, little : BOOLEAN]
           /\ Is("json") => input \in [op : {"json"}, bytes : Strings(2), charSigned : BOOLEAN]
<1>1. PathInput => Is("path")
  BY DEF PathInput, Is
<1>2. UtilInput => Is("format")
  BY DEF UtilInput, Is
<1>3. AssertInput => Is("deepEqual") \/ Is("throws")
  BY DEF AssertInput, Is
<1>4. CASE BufferInput
  BY <1>4 DEF BufferInput, Is
<1> QED
  BY <1>1, <1>2, <1>3, <1>4 DEF Init, Is

LEMMA StringsAre ==
    ASSUME NEW n \in Nat
    PROVE  Strings(n) \subseteq Seq(Byte)
BY DEF Strings

-----------------------------------------------------------------------------
(* Ranges. *)

LEMMA RangesInit == Init => RangesExact
<1> SUFFICES ASSUME Init PROVE RangesExact
  OBVIOUS
<1> DEFINE size == input.size
           Begin == SliceStart(size, input.start, input.end)
           From(i) == IF i < 0 THEN size + i ELSE i
<1>1. ASSUME Is("slice") \/ Is("text")
      PROVE  size \in Nat /\ input.start \in Int /\ input.end \in Int
  BY <1>1, InputIs, LibraryAssumption DEF Sizes, Indices
<1>2. ASSUME Is("slice")
      PROVE  Begin .. Begin + SliceSize(size, input.start, input.end) - 1
             = {i \in 0..size - 1 : From(input.start) <= i /\ i < From(input.end)}
  <2> DEFINE start == input.start
             end == input.end
  <2>1. size \in Nat /\ start \in Int /\ end \in Int
    BY <1>1, <1>2
  <2> HIDE DEF size, start, end
  <2> DEFINE lo == Index(size, start)
             hi == Greatest(Index(size, end), lo)
             S == {i \in 0..size - 1 : (IF start < 0 THEN size + start ELSE start) <= i
                                       /\ i < (IF end < 0 THEN size + end ELSE end)}
  <2>2. lo \in Int /\ hi \in Int /\ lo <= hi
    BY <2>1 DEF Index, Least, Greatest
  <2>3. ASSUME NEW i \in Int
        PROVE  i \in S <=> lo <= i /\ i < hi
    BY <2>1 DEF Index, Least, Greatest
  <2>4. S \subseteq Int
    BY <2>1
  <2>5. Begin = lo /\ SliceSize(size, start, end) = hi - lo
    BY DEF SliceStart, SliceSize, start, end
  <2> HIDE DEF lo, hi, S
  <2>6. S = lo .. hi - 1
    <3>1. \A i \in S : i \in Int /\ lo <= i /\ i < hi
      BY <2>3, <2>4
    <3>2. \A i \in lo .. hi - 1 : i \in Int /\ lo <= i /\ i < hi
      BY <2>2
    <3>3. S \subseteq lo .. hi - 1
      BY <2>2, <3>1
    <3>4. lo .. hi - 1 \subseteq S
      BY <2>3, <3>2
    <3> QED
      BY <3>3, <3>4
  <2>7. lo .. lo + (hi - lo) - 1 = lo .. hi - 1
    BY <2>2
  <2> QED
    BY <2>5, <2>6, <2>7 DEF S, start, end
<1>3. ASSUME Is("text")
      PROVE  TextSize(size, input.start, input.end)
             = Cardinality({i \in 0..size - 1 : input.start <= i /\ i < input.end})
  <2> DEFINE start == input.start
             end == input.end
             from == Greatest(Least(start, size), 0)
             to == Least(end, size)
             last == to - 1
             S == {i \in 0..size - 1 : start <= i /\ i < end}
  <2>1. size \in Nat /\ start \in Int /\ end \in Int
    BY <1>1, <1>3
  <2> HIDE DEF size, start, end
  <2>2. S = from .. last
    BY <2>1 DEF Least, Greatest
  <2>3. from \in Int /\ last \in Int
    BY <2>1 DEF Least, Greatest
  <2>6. from \in Int /\ to \in Int
    BY <2>1 DEF Least, Greatest
  <2> HIDE DEF last
  <2>4. Cardinality(from .. last) = IF from > last THEN 0 ELSE last - from + 1
    BY <2>3, FS_Interval
  <2> HIDE DEF S, from, to
  <2>5. Cardinality(S) = IF to <= from THEN 0 ELSE to - from
    BY <2>2, <2>4, <2>6 DEF last
  <2> QED
    BY <2>5 DEF TextSize, S, from, to, size, start, end
<1> QED
  BY <1>2, <1>3 DEF RangesExact

\* slice gives exactly the bytes between its bounds, and toString as many as there
\* are between its own, for Buffers and indices of any size.
THEOREM RangesCorrect == Spec => []RangesExact
BY InputStays, RangesInit, PTL

-----------------------------------------------------------------------------
LEMMA CopyInit == Init => CopyExact
<1> SUFFICES ASSUME Init, Is("copy"), input.sourceStart <= input.source
             PROVE  CopyCount(input.source, input.target, input.targetStart,
                              input.sourceStart, input.sourceEnd)
                    = Cardinality({k \in 0..MaxIndex :
                                      /\ input.sourceStart + k < input.sourceEnd
                                      /\ input.sourceStart + k < input.source
                                      /\ input.targetStart + k < input.target})
  BY DEF CopyExact
<1> DEFINE source == input.source
           target == input.target
           targetStart == input.targetStart
           sourceStart == input.sourceStart
           sourceEnd == input.sourceEnd
           count == CopyCount(source, target, targetStart, sourceStart, sourceEnd)
           last == count - 1
           S == {k \in 0..MaxIndex : /\ sourceStart + k < sourceEnd
                                     /\ sourceStart + k < source
                                     /\ targetStart + k < target}
<1>1. /\ source \in Nat /\ target \in Nat /\ targetStart \in Nat /\ sourceStart \in Nat
      /\ sourceEnd \in 0..MaxIndex /\ sourceStart <= source
  BY InputIs, LibraryAssumption DEF Sizes
<1> HIDE DEF source, target, targetStart, sourceStart, sourceEnd
<1>2. count \in Nat /\ count <= MaxIndex
      /\ \A k \in 0..MaxIndex : k \in S <=> k < count
  BY <1>1, LibraryAssumption DEF CopyCount, Least
<1>3. S \subseteq 0..MaxIndex
  OBVIOUS
<1> HIDE DEF S, count
<1>4. S = 0..last /\ last \in Int
  <2>1. \A k \in S : k \in Int /\ 0 <= k /\ k < count
    BY <1>2, <1>3, LibraryAssumption
  <2>2. \A k \in 0..last : k \in 0..MaxIndex /\ k < count
    BY <1>2, LibraryAssumption
  <2>3. last \in Int
    BY <1>2
  <2>4. S \subseteq 0..last
    BY <1>2, <2>1
  <2>5. 0..last \subseteq S
    BY <1>2, <2>2
  <2> QED
    BY <2>3, <2>4, <2>5
<1> HIDE DEF last
<1>5. Cardinality(S) = IF 0 > last THEN 0 ELSE last - 0 + 1
  BY <1>4, FS_Interval
<1>6. Cardinality(S) = count
  BY <1>2, <1>5 DEF last
<1> QED
  BY <1>6 DEF S, count, source, target, targetStart, sourceStart, sourceEnd

\* copy copies exactly the bytes between its bounds, for Buffers of any size.
THEOREM CopyCorrect == Spec => []CopyExact
BY InputStays, CopyInit, PTL

LEMMA RangeInit == Init => RangeExact
<1> SUFFICES ASSUME Init, Is("range"), input.size < MaxLength
             PROVE  CheckRange(input.size, input.offset, input.length)
                    <=> \A k \in 0..input.length - 1 : input.offset + k < input.size
  BY DEF RangeExact
<1> DEFINE size == input.size
           offset == input.offset
           length == input.length
<1>1. size \in Nat /\ offset \in Nat /\ length \in Nat \ {0} /\ size < MaxLength
  BY InputIs, BytesAssumption
<1> HIDE DEF size, offset, length
<1>2. CheckRange(size, offset, length) <=> offset + length <= size
  BY <1>1, BytesAssumption DEF CheckRange
<1>3. ASSUME \A k \in 0..length - 1 : offset + k < size
      PROVE  offset + length <= size
  <2>1. length - 1 \in 0..length - 1
    BY <1>1
  <2>2. offset + (length - 1) < size
    BY <1>3, <2>1
  <2> QED
    BY <1>1, <2>2
<1>4. ASSUME offset + length <= size
      PROVE  \A k \in 0..length - 1 : offset + k < size
  BY <1>1, <1>4
<1> QED
  BY <1>2, <1>3, <1>4 DEF size, offset, length

\* checkRange lets exactly the integers pass that are within the Buffer, whatever the
\* largest size of a Buffer is.
THEOREM RangeCorrect == Spec => []RangeExact
BY InputStays, RangeInit, PTL

LEMMA FillInit == Init => FillRepeats
<1> SUFFICES ASSUME Init, Is("fill")
             PROVE  FillPattern(input.value, input.length)
                    = [i \in 1..input.length |->
                          input.value[((i - 1) % Len(input.value)) + 1]]
  BY DEF FillRepeats
<1>1. input.value \in Seq(Byte) /\ input.value # <<>> /\ input.length \in Nat
  BY InputIs, StringsAre, LibraryAssumption
<1> QED
  BY <1>1, FillPatternRepeats DEF Repeated

\* fill repeats its value to the end of the range: doubling what was written, and the
\* rest from the start, gives the same bytes as going through the value again and again.
THEOREM FillCorrect == Spec => []FillRepeats
BY InputStays, FillInit, PTL

-----------------------------------------------------------------------------
(* Numbers. *)

LEMMA EvenPower ==
    ASSUME NEW width \in Nat \ {0}
    PROVE  \E h \in Nat \ {0} : Power(width) = 2 * h /\ Power(width) \div 2 = h
<1>1. PICK n \in Nat : n + 1 = width
  <2>1. width - 1 \in Nat /\ (width - 1) + 1 = width
    OBVIOUS
  <2> QED
    BY <2>1
<1>2. Power(n) \in Nat \ {0} /\ Power(width) = Power(n) * Base
  BY <1>1, PowerIs
<1> DEFINE p == Power(n)
           b == Base \div 2
           h == p * b
<1>3. b \in Nat \ {0} /\ Base = 2 * b
  BY BytesAssumption, EvenAssumption
<1> HIDE DEF p, b
<1>4. p * (2 * b) = 2 * h
  BY <1>2, <1>3 DEF p
<1>5. h \in Nat \ {0}
  BY <1>2, <1>3 DEF p
<1> HIDE DEF h
<1>6. Power(width) = 2 * h /\ h \in Nat \ {0}
  BY <1>2, <1>3, <1>4, <1>5 DEF p
<1>7. (2 * h) \div 2 = h
  BY <1>5
<1> QED
  BY <1>6, <1>7

LEMMA RoundTrip ==
    ASSUME NEW v \in Int, NEW width \in Nat \ {0}, NEW signed \in BOOLEAN,
           NEW little \in BOOLEAN
    PROVE  Fits(v, width, signed)
           <=> Decode(Encode(v, width, little), signed, little) = v
<1> DEFINE p == Power(width)
           u == v % p
<1>1. PICK h \in Nat \ {0} : p = 2 * h /\ p \div 2 = h
  BY EvenPower
<1>2. Decode(Encode(v, width, little), signed, little)
      = IF signed /\ u >= h THEN u - p ELSE u
  BY <1>1, DecodeEncode DEF AsType
<1>3. Fits(v, width, signed)
      <=> IF signed THEN -h <= v /\ v < h ELSE 0 <= v /\ v < p
  BY <1>1 DEF Fits
<1> HIDE DEF p
<1>4. u \in 0..(p - 1) /\ (v \in 0..(p - 1) => u = v)
  BY <1>1, RemainderIs, RemainderSmall
<1>5. ASSUME v + p \in 0..(p - 1) PROVE u = v + p
  <2> DEFINE w == v + p
  <2>1. w \in Int /\ w = v + p /\ p \in Nat \ {0} /\ w \in 0..(p - 1)
    BY <1>1, <1>5
  <2> HIDE DEF w
  <2>2. w % p = v % p /\ w % p = w
    BY <2>1, RemainderNext, RemainderSmall
  <2> QED
    BY <2>1, <2>2
<1> HIDE DEF u
<1> DEFINE back == IF signed /\ u >= h THEN u - p ELSE u
<1>6. Fits(v, width, signed) => back = v
  BY <1>1, <1>3, <1>4, <1>5
<1>7. back = v => Fits(v, width, signed)
  BY <1>1, <1>3, <1>4
<1> QED
  BY <1>2, <1>6, <1>7

LEMMA PowerGrows ==
    ASSUME NEW n \in Nat, NEW m \in Nat, n <= m
    PROVE  Power(n) <= Power(m)
<1> DEFINE bad == {k \in n..m : ~(Power(n) <= Power(k))}
<1> SUFFICES ASSUME bad # {} PROVE FALSE
  BY DEF bad
<1>1. bad \in SUBSET Nat
  OBVIOUS
<1> HIDE DEF bad
<1>2. PICK k \in bad : \A j \in bad : k <= j
  BY <1>1, LeastNatural
<1>3. k \in n..m /\ ~(Power(n) <= Power(k))
  BY DEF bad
<1>4. Power(n) \in Nat
  BY PowerIs
<1>5. k # n
  BY <1>3, <1>4
<1>6. PICK j \in n..m : j + 1 = k
  <2>1. k - 1 \in n..m /\ (k - 1) + 1 = k
    BY <1>3, <1>5
  <2> QED
    BY <2>1
<1>7. Power(n) <= Power(j)
  BY <1>2, <1>6 DEF bad
<1>8. Power(j) \in Nat /\ Power(k) = Power(j) * Base
  BY <1>6, PowerIs
<1> DEFINE q == Power(j)
           r == q * Base
<1>9. q <= r
  <2>1. 1 * q <= Base * q
    BY <1>8, BytesAssumption, TimesMonotone
  <2> QED
    BY <1>8, <2>1, BytesAssumption
<1>10. r \in Int
  BY <1>8, BytesAssumption
<1> HIDE DEF r
<1> QED
  BY <1>3, <1>4, <1>7, <1>8, <1>9, <1>10 DEF r

LEMMA FloatsInit ==
    ASSUME Init, Is("float"), FloatFits(input.bits)
    PROVE  DecodeFloat(EncodeFloat(input.bits, input.width, input.little), input.little)
           = input.bits
<1> DEFINE bits == input.bits
           width == input.width
           little == input.little
<1>1. width \in Nat \ {0} /\ little \in BOOLEAN
  BY InputIs
<1>2. bits \in Nat /\ bits < Power(width)
  <2>1. CASE bits \in 0 .. Power(4) - 1 /\ width = 4
    BY <2>1, PowerIs
  <2>2. CASE width = 8 /\ bits \in {Power(k) - 1 : k \in 0..8}
    <3>1. PICK k \in 0..8 : bits = Power(k) - 1
      BY <2>2
    <3>2. k \in Nat /\ Power(k) \in Nat \ {0}
      BY PowerIs
    <3>3. Power(k) <= Power(8) /\ Power(8) \in Nat
      BY <3>2, PowerGrows, PowerIs, SMTT(30)
    <3> QED
      BY <2>2, <3>1, <3>2, <3>3
  <2> QED
    BY <2>1, <2>2, InputIs DEF FloatFits
<1> HIDE DEF bits, width, little
<1>3. Fits(bits, width, FALSE)
  BY <1>2 DEF Fits
<1>4. Decode(Encode(bits, width, little), FALSE, little) = bits
  <2> DEFINE signed == FALSE
  <2>1. signed \in BOOLEAN
    OBVIOUS
  <2>3. bits \in Int
    BY <1>2
  <2>4. Fits(bits, width, signed)
    BY <1>3
  <2> HIDE DEF signed
  <2>2. Decode(Encode(bits, width, little), signed, little) = bits
    BY <1>1, <2>1, <2>3, <2>4, RoundTrip
  <2> QED
    BY <2>2 DEF signed
<1> QED
  BY <1>4 DEF EncodeFloat, DecodeFloat, bits, width, little

LEMMA JSONInit ==
    ASSUME Init, Is("json")
    PROVE  FromJSON(ToJSON(input.bytes, input.charSigned)) = input.bytes
<1> DEFINE bytes == input.bytes
           signed == input.charSigned
           numbers == ToJSON(bytes, signed)
<1>1. bytes \in Seq(Byte)
  BY InputIs, StringsAre
<1> HIDE DEF bytes, signed
<1>2. Power(1) = Base
  <2>1. Power(0 + 1) = Power(0) * Base /\ Power(0) = 1 /\ 0 + 1 = 1
    BY PowerIs
  <2> QED
    BY <2>1, BytesAssumption
<1>3. ASSUME NEW x \in Byte
      PROVE  ToByte(AsType(x, 1, signed)) = x
  <2>1. x % Base = x
    BY RemainderSmall, BytesAssumption DEF Byte
  <2> DEFINE y == x - Base
  <2>2. y % Base = x % Base
    <3>1. y \in Int /\ x \in Int /\ x = y + Base /\ Base \in Nat \ {0}
      BY BytesAssumption DEF Byte
    <3> HIDE DEF y
    <3>2. x % Base = y % Base
      BY <3>1, RemainderNext
    <3> QED
      BY <3>2
  <2>3. AsType(x, 1, signed) \in {x, y}
    BY <1>2 DEF AsType
  <2> QED
    BY <2>1, <2>2, <2>3 DEF ToByte
<1>4. numbers = [i \in 1..Len(bytes) |-> AsType(bytes[i], 1, signed)]
  BY <1>1 DEF ToJSON
<1>5. FromJSON(numbers) = [i \in 1..Len(bytes) |-> ToByte(AsType(bytes[i], 1, signed))]
  BY <1>4 DEF FromJSON
<1>6. \A i \in 1..Len(bytes) : ToByte(AsType(bytes[i], 1, signed)) = bytes[i]
  BY <1>1, <1>3
<1>7. bytes = [i \in 1..Len(bytes) |-> bytes[i]]
  BY <1>1
<1>8. FromJSON(numbers) = bytes
  BY <1>5, <1>6, <1>7
<1> QED
  BY <1>8 DEF bytes, signed

LEMMA NumbersInit == Init => NumbersRoundTrip
<1> SUFFICES ASSUME Init PROVE NumbersRoundTrip
  OBVIOUS
<1>1. ASSUME Is("integer")
      PROVE  Fits(input.v, input.width, input.signed)
             <=> Decode(Encode(input.v, input.width, input.little), input.signed,
                        input.little) = input.v
  <2>1. /\ input.v \in Int /\ input.width \in Nat \ {0}
        /\ input.signed \in BOOLEAN /\ input.little \in BOOLEAN
    BY <1>1, InputIs
  <2> QED
    BY <2>1, RoundTrip
<1> QED
  BY <1>1, FloatsInit, JSONInit DEF NumbersRoundTrip

\* What a type can hold is read back as it was written, and nothing else is, in either
\* order of its bytes and for every even number of values of a byte, such as 256.
THEOREM NumbersCorrect == Spec => []NumbersRoundTrip
BY InputStays, NumbersInit, PTL

-----------------------------------------------------------------------------
(* Strings. *)

LEMMA CompareInit == Init => CompareIsOrder
<1> SUFFICES ASSUME Init, Is("compare") PROVE CompareIsOrder
  BY DEF CompareIsOrder
<1>1. input.a \in Seq(Byte) /\ input.b \in Seq(Byte) /\ input.c \in Seq(Byte)
  BY InputIs, StringsAre
<1> QED
  BY <1>1, CompareOrders DEF CompareIsOrder

\* compare is a total order of Buffers of bytes, the lexicographic one.
THEOREM CompareCorrect == Spec => []CompareIsOrder
BY InputStays, CompareInit, PTL

\* The places of the bytes of the first n characters.
Places(chars, n) ==
    {place \in (1..n) \X (1..3) : place[2] <= Len(chars[place[1]])}

LEMMA RowCardinality ==
    ASSUME NEW n, NEW m \in Nat
    PROVE  LET row == {<<n, k>> : k \in 1..m} IN IsFiniteSet(row) /\ Cardinality(row) = m
<1> DEFINE row == {<<n, k>> : k \in 1..m}
           f == [k \in 1..m |-> <<n, k>>]
<1>1. f \in Bijection(1..m, row)
  <2>1. f \in [1..m -> row]
    OBVIOUS
  <2>2. \A j, k \in 1..m : f[j] = f[k] => j = k
    OBVIOUS
  <2>3. \A p \in row : \E k \in 1..m : f[k] = p
    OBVIOUS
  <2> QED
    BY <2>1, <2>2, <2>3 DEF Bijection, Injection, Surjection, IsInjective
<1>2. ExistsBijection(1..m, row)
  BY <1>1 DEF ExistsBijection
<1>3. IsFiniteSet(1..m) /\ Cardinality(1..m) = m
  BY FS_Interval
<1> HIDE DEF row
<1>4. IsFiniteSet(row) /\ Cardinality(row) = Cardinality(1..m)
  BY <1>2, <1>3, FS_Bijection
<1> QED
  BY <1>3, <1>4 DEF row

LEMMA CharsAre == Chars \subseteq Seq({0}) /\ \A c \in Chars : Len(c) \in 1..3
<1> SUFFICES ASSUME NEW c \in Chars PROVE c \in Seq({0}) /\ Len(c) \in 1..3
  OBVIOUS
<1>1. PICK k \in 1..3 : c \in [1..k -> {0}]
  BY DEF Chars
<1>2. k \in Nat /\ c \in Seq({0}) /\ Len(c) = k
  BY <1>1
<1> QED
  BY <1>2

LEMMA PlacesCount ==
    ASSUME NEW chars \in Seq(Chars)
    PROVE  \A n \in 0..Len(chars) : /\ IsFiniteSet(Places(chars, n))
                                    /\ Cardinality(Places(chars, n)) = SizesOf(chars)[n]
<1> DEFINE all == Len(chars)
           size == SizesOf(chars)
           Right(n) == IsFiniteSet(Places(chars, n)) /\ Cardinality(Places(chars, n)) = size[n]
           bad == {n \in 0..all : ~Right(n)}
<1>1. Chars \subseteq Seq({0}) /\ \A c \in Chars : Len(c) \in 1..3
  BY CharsAre
<1>2. chars \in Seq(Seq({0})) /\ all \in Nat /\ \A n \in 1..all : Len(chars[n]) \in 1..3
  BY <1>1
<1>3. /\ size[0] = 0 /\ \A n \in 0..all : size[n] \in Nat
      /\ \A n \in 1..all : size[n] = size[n - 1] + Len(chars[n])
  BY <1>2, SizesAre
<1> HIDE DEF all, size
<1> SUFFICES ASSUME bad # {} PROVE FALSE
  BY DEF all, size
<1>4. bad \in SUBSET Nat
  BY <1>2
<1> HIDE DEF bad
<1>5. PICK k \in bad : \A j \in bad : k <= j
  BY <1>4, LeastNatural
<1>6. k \in 0..all /\ ~Right(k)
  BY DEF bad
<1>7. k # 0
  <2>1. Places(chars, 0) = {}
    BY DEF Places
  <2>2. Right(0)
    BY <1>3, <2>1, FS_EmptySet
  <2> QED
    BY <1>6, <2>2
<1> DEFINE n == k - 1
           row == {<<k, j>> : j \in 1..Len(chars[k])}
           old == Places(chars, n)
<1>8. n \in 0..all /\ k \in 1..all /\ n \in Nat /\ k = n + 1 /\ ~(k <= n)
  BY <1>2, <1>6, <1>7
<1>9. Right(n)
  BY <1>5, <1>8 DEF bad
<1>10. size[k] = size[n] + Len(chars[k]) /\ Len(chars[k]) \in 1..3 /\ size[n] \in Nat
  BY <1>2, <1>3, <1>8
<1> HIDE DEF n
<1>11. IsFiniteSet(row) /\ Cardinality(row) = Len(chars[k])
  <2> DEFINE m == Len(chars[k])
  <2>1. m \in Nat
    BY <1>10
  <2> HIDE DEF m
  <2>2. IsFiniteSet({<<k, j>> : j \in 1..m}) /\ Cardinality({<<k, j>> : j \in 1..m}) = m
    BY <2>1, RowCardinality
  <2> QED
    BY <2>2 DEF m
<1>12. Places(chars, k) = old \cup row
  <2>1. ASSUME NEW p \in Places(chars, k) PROVE p \in old \cup row
    <3>1. p = <<p[1], p[2]>> /\ p[1] \in 1..k /\ p[2] \in 1..3 /\ p[2] <= Len(chars[p[1]])
      BY DEF Places
    <3>2. CASE p[1] = k
      <4>1. p[2] \in 1..Len(chars[k])
        BY <1>10, <3>1, <3>2
      <4> QED
        BY <3>1, <3>2, <4>1
    <3>3. CASE p[1] # k
      <4>1. p[1] \in 1..n
        BY <1>8, <3>1, <3>3
      <4> QED
        BY <3>1, <4>1 DEF Places
    <3> QED
      BY <3>2, <3>3
  <2>2. old \subseteq Places(chars, k)
    BY <1>8 DEF Places
  <2>3. row \subseteq Places(chars, k)
    <3>1. ASSUME NEW j \in 1..Len(chars[k]) PROVE <<k, j>> \in Places(chars, k)
      <4>1. k \in 1..k /\ j \in 1..3 /\ j <= Len(chars[k])
        <5> DEFINE m == Len(chars[k])
        <5>1. m \in 1..3 /\ j \in 1..m /\ k \in Nat \ {0}
          BY <1>8, <1>10
        <5> HIDE DEF m
        <5>2. j \in 1..3 /\ j <= m /\ k \in 1..k
          BY <5>1
        <5> QED
          BY <5>2 DEF m
      <4> DEFINE p == <<k, j>>
      <4>2. p \in (1..k) \X (1..3) /\ p[1] = k /\ p[2] = j
        BY <4>1
      <4> HIDE DEF p
      <4>3. p \in Places(chars, k)
        BY <4>1, <4>2 DEF Places
      <4> QED
        BY <4>3 DEF p
    <3> QED
      BY <3>1
  <2> QED
    BY <2>1, <2>2, <2>3
<1>13. old \cap row = {}
  BY <1>8 DEF Places
<1> HIDE DEF old, row
<1>14. IsFiniteSet(old) /\ Cardinality(old) = size[n]
  BY <1>9 DEF old
<1>15. IsFiniteSet(old \cup row)
       /\ Cardinality(old \cup row)
          = Cardinality(old) + Cardinality(row) - Cardinality(old \cap row)
  BY <1>11, <1>14, FS_Union
<1>16. Right(k)
  <2>1. Cardinality(old \cap row) = 0
    BY <1>13, FS_EmptySet
  <2>2. Cardinality(old \cup row) = size[n] + Len(chars[k])
    BY <1>10, <1>11, <1>14, <1>15, <2>1
  <2> QED
    BY <1>10, <1>12, <1>15, <2>2
<1> QED
  BY <1>6, <1>16

LEMMA FixedLength ==
    ASSUME NEW all \in Nat, NEW width \in {1, 2}
    PROVE  Len(DecodeFixed([i \in 1..all |-> <<0, 0>>], 2 * all, width)) = all * width
<1> DEFINE chars == [i \in 1..all |-> <<0, 0>>]
           part == chars
           limit == 2 * all
           count == Least(Len(chars), limit \div width)
           D == DecodeFixed(chars, limit, width)
<1>1. chars \in Seq({<<0, 0>>}) /\ Len(chars) = all
  OBVIOUS
<1>2. limit \div 1 = limit /\ limit \div 2 = all /\ limit \in Nat
  OBVIOUS
<1>3. count = all
  BY <1>1, <1>2 DEF Least
<1> HIDE DEF chars, limit
<1>4. D = [i \in 1 .. count * width |->
              chars[((i - 1) \div width) + 1][((i - 1) % width) + 1]]
  BY DEF DecodeFixed
<1>5. count * width \in Nat
  BY <1>3
<1> DEFINE size == count * width
           S == {D[i] : i \in 1..size}
<1> HIDE DEF count, D
<1>6. D \in [1..size -> S]
  BY <1>4
<1>7. Len(D) = size
  BY <1>5, <1>6
<1> QED
  BY <1>3, <1>7 DEF D, chars, limit

LEMMA CharactersInit == Init => WholeCharacters
<1> SUFFICES ASSUME Init PROVE WholeCharacters
  OBVIOUS
<1> DEFINE chars == input.chars
           limit == input.limit
           Size(n) == Cardinality({place \in (1..n) \X (1..3) :
                                      place[2] <= Len(chars[place[1]])})
           written == Len(DecodeUtf8(chars, limit))
           all == Len(chars)
<1>1. ASSUME Is("utf8")
      PROVE  /\ \E n \in 0..all : /\ written = Size(n) /\ written <= limit
                                  /\ n < all => Size(n + 1) > limit
             /\ ByteLength(chars, "utf8") = Size(all)
             /\ \A width \in 1..2 :
                   Len(DecodeFixed([i \in 1..all |-> <<0, 0>>], 2 * all, width))
                   = ByteLength(chars, IF width = 1 THEN "binary" ELSE "ucs2")
  <2>1. chars \in Seq(Chars) /\ limit \in Nat
    BY <1>1, InputIs, LibraryAssumption
  <2>2. chars \in Seq(Seq({0})) /\ all \in Nat
    <3>1. Chars \subseteq Seq({0})
      BY CharsAre
    <3> QED
      BY <2>1, <3>1
  <2> HIDE DEF chars, limit
  <2>3. \A n \in 0..all : Size(n) = SizesOf(chars)[n]
    BY <2>1, PlacesCount DEF Places
  <2> HIDE DEF Size
  <2>4. PICK n \in 0..all : /\ written = SizesOf(chars)[n] /\ written <= limit
                            /\ n < all => SizesOf(chars)[n + 1] > limit
    BY <2>1, <2>2, Utf8Fits
  <2>5. written = Size(n) /\ (n < all => Size(n + 1) > limit)
    <3>1. n < all => n + 1 \in 0..all
      BY <2>2
    <3> QED
      BY <2>3, <2>4, <3>1
  <2>6. ByteLength(chars, "utf8") = Size(all)
    <3>1. all \in 0..all
      BY <2>2
    <3> QED
      BY <2>3, <3>1, DecodeUtf8Is
  <2>7. ByteLength(chars, "binary") = all /\ ByteLength(chars, "ucs2") = 2 * all
    BY DEF ByteLength
  <2>8. ASSUME NEW width \in 1..2
        PROVE  Len(DecodeFixed([i \in 1..all |-> <<0, 0>>], 2 * all, width))
               = ByteLength(chars, IF width = 1 THEN "binary" ELSE "ucs2")
    <3>1. width \in {1, 2}
      OBVIOUS
    <3> HIDE DEF all
    <3>2. Len(DecodeFixed([i \in 1..all |-> <<0, 0>>], 2 * all, width)) = all * width
      BY <2>2, <3>1, FixedLength
    <3>3. CASE width = 1
      BY <2>2, <2>7, <3>2, <3>3
    <3>4. CASE width = 2
      BY <2>2, <2>7, <3>2, <3>4
    <3> QED
      BY <3>1, <3>3, <3>4
  <2> QED
    BY <2>4, <2>5, <2>6, <2>8
<1>2. ASSUME Is("hex")
      PROVE  DecodeHexSize(all) = ByteLength(chars, "hex") + (all % 2)
  <2>1. all \in Nat
    BY <1>2, InputIs, LibraryAssumption DEF Digits
  <2>2. ByteLength(chars, "hex") = all \div 2
    BY DEF ByteLength
  <2> HIDE DEF all
  <2>3. (all + 1) \div 2 = (all \div 2) + (all % 2)
    BY <2>1
  <2> QED
    BY <2>2, <2>3 DEF DecodeHexSize
<1> QED
  BY <1>1, <1>2 DEF WholeCharacters

\* write never writes a part of a character nor leaves out one that fits, for strings
\* of any length, and byteLength agrees.
THEOREM CharactersCorrect == Spec => []WholeCharacters
BY InputStays, CharactersInit, PTL

-----------------------------------------------------------------------------
(* format.  Each piece gives one part of what is printed; next is the argument that  *)
(* is used next after each, and what is shown is counted along with it.            *)

\* How many members of S there are up to k.
UpTo(S, k) == {j \in 1..k : j \in S}

LEMMA UpToNone ==
    ASSUME NEW S
    PROVE  UpTo(S, 0) = {} /\ IsFiniteSet(UpTo(S, 0)) /\ Cardinality(UpTo(S, 0)) = 0
<1>1. UpTo(S, 0) = {}
  BY DEF UpTo
<1> QED
  BY <1>1, FS_EmptySet

LEMMA UpToNext ==
    ASSUME NEW S, NEW k \in Nat, k # 0
    PROVE  /\ IsFiniteSet(UpTo(S, k)) /\ Cardinality(UpTo(S, k)) \in Nat
           /\ Cardinality(UpTo(S, k - 1)) \in Nat
           /\ Cardinality(UpTo(S, k)) = Cardinality(UpTo(S, k - 1)) + (IF k \in S THEN 1 ELSE 0)
<1>1. ASSUME NEW m \in Nat PROVE IsFiniteSet(UpTo(S, m)) /\ Cardinality(UpTo(S, m)) \in Nat
  <2>1. IsFiniteSet(1..m) /\ UpTo(S, m) \subseteq 1..m
    BY FS_Interval DEF UpTo
  <2> QED
    BY <2>1, FS_Subset, FS_CardinalityType
<1>2. k - 1 \in Nat /\ k \notin UpTo(S, k - 1)
  BY DEF UpTo
<1>3. CASE k \in S
  <2>1. UpTo(S, k) = UpTo(S, k - 1) \cup {k}
    BY <1>3 DEF UpTo
  <2> QED
    BY <1>1, <1>2, <1>3, <2>1, FS_AddElement
<1>4. CASE k \notin S
  <2>1. UpTo(S, k) = UpTo(S, k - 1)
    BY <1>4 DEF UpTo
  <2> QED
    BY <1>1, <1>2, <1>4, <2>1
<1> QED
  BY <1>3, <1>4

Counts(S, n, w) ==
    /\ w \in [0..n -> Nat] /\ w[0] = 0
    /\ \A k \in 1..n : w[k] = w[k - 1] + (IF k \in S THEN 1 ELSE 0)

LEMMA CountTo ==
    ASSUME NEW S, NEW n \in Nat, NEW w, Counts(S, n, w)
    PROVE  \A k \in 0..n : Cardinality(UpTo(S, k)) = w[k]
<1> DEFINE bad == {k \in 0..n : Cardinality(UpTo(S, k)) # w[k]}
<1> SUFFICES ASSUME bad # {} PROVE FALSE
  OBVIOUS
<1>1. bad \in SUBSET Nat
  OBVIOUS
<1> HIDE DEF bad
<1>2. PICK k \in bad : \A j \in bad : k <= j
  BY <1>1, LeastNatural
<1>3. k \in 0..n /\ Cardinality(UpTo(S, k)) # w[k]
  BY DEF bad
<1>4. k # 0
  BY <1>3, UpToNone DEF Counts
<1>5. k \in Nat /\ k \in 1..n /\ k - 1 \in 0..n /\ k - 1 \notin bad
  BY <1>2, <1>3, <1>4
<1>6. Cardinality(UpTo(S, k - 1)) = w[k - 1]
  BY <1>5 DEF bad
<1>7. w[k] = w[k - 1] + (IF k \in S THEN 1 ELSE 0)
  BY <1>5 DEF Counts
<1> QED
  BY <1>3, <1>4, <1>5, <1>6, <1>7, UpToNext

\* What format gives is made of these.
Part == {Text(piece) : piece \in SomePiece \cup {" ", "%"}}
        \cup {Inspected(i) : i \in Nat} \cup {Json(i) : i \in Nat}

Done == [text : Seq(Part), i : Nat]

StartOfFormat == [text |-> <<>>, i |-> 1]

LEMMA StepIs ==
    ASSUME NEW argc \in Nat, NEW done \in Done, NEW piece \in SomePiece
    PROVE  Step(argc, done, piece) \in Done
<1>1. Text(piece) \in Part
  BY DEF Part
<1>2. ASSUME piece \in Placeholder PROVE Shown(piece, done.i) \in Part /\ Takes(piece) \in Nat
  <2>1. piece \in {"%s", "%d", "%j", "%%"} /\ done.i \in Nat
    BY <1>2 DEF Placeholder, Done
  <2>2. CASE piece = "%%"
    BY <2>2 DEF Shown, Takes, Part
  <2>3. CASE piece \in {"%s", "%d"}
    BY <2>1, <2>3 DEF Shown, Takes, Part
  <2>4. CASE piece = "%j"
    BY <2>1, <2>4 DEF Shown, Takes, Part
  <2> QED
    BY <2>1, <2>2, <2>3, <2>4
<1>3. done.text \in Seq(Part) /\ done.i \in Nat
  BY DEF Done
<1>4. CASE piece \notin Placeholder \/ done.i >= argc
  <2>1. Append(done.text, Text(piece)) \in Seq(Part)
    BY <1>1, <1>3
  <2>2. Step(argc, done, piece) = [done EXCEPT !.text = Append(done.text, Text(piece))]
    BY <1>4 DEF Step
  <2> QED
    BY <1>3, <2>1, <2>2 DEF Done
<1>5. CASE ~(piece \notin Placeholder \/ done.i >= argc)
  <2>1. Append(done.text, Shown(piece, done.i)) \in Seq(Part)
    BY <1>2, <1>3, <1>5
  <2>2. done.i + Takes(piece) \in Nat
    BY <1>2, <1>3, <1>5
  <2>3. Step(argc, done, piece) = [text |-> Append(done.text, Shown(piece, done.i)),
                                   i |-> done.i + Takes(piece)]
    BY <1>5 DEF Step
  <2> QED
    BY <2>1, <2>2, <2>3 DEF Done
<1> QED
  BY <1>4, <1>5

LEMMA GreatestOf ==
    ASSUME NEW n \in Nat, NEW s \in SUBSET (1..n), s # {}
    PROVE  Max(s) \in s /\ \A y \in s : y <= Max(s)
<1> DEFINE low == {n - x : x \in s}
<1>1. low \in SUBSET Nat /\ low # {}
  OBVIOUS
<1> HIDE DEF low
<1>2. PICK m \in low : \A y \in low : m <= y
  BY <1>1, LeastNatural
<1>3. PICK x \in s : m = n - x
  BY <1>2 DEF low
<1>4. \A y \in s : x >= y
  <2> SUFFICES ASSUME NEW y \in s PROVE x >= y
    OBVIOUS
  <2>1. m <= n - y
    BY <1>2 DEF low
  <2> QED
    BY <1>3, <2>1
<1>5. Max(s) = CHOOSE z \in s : \A y \in s : z >= y
  BY DEF Max
<1>6. Max(s) \in s /\ \A y \in s : Max(s) >= y
  BY <1>4, <1>5
<1> QED
  BY <1>6

\* What format has done after each set of pieces, in their order.
DoneOf(argc, pieces) ==
    LET iter[s \in SUBSET DOMAIN pieces] ==
            IF s = {} THEN StartOfFormat
            ELSE LET x == Max(s) IN Step(argc, iter[s \ {x}], pieces[x])
    IN iter

LEMMA FoldIs ==
    ASSUME NEW argc, NEW n, NEW pieces \in [1..n -> SomePiece]
    PROVE  FoldLeft(LAMBDA d, p : Step(argc, d, p), StartOfFormat, pieces)
           = DoneOf(argc, pieces)[1..n]
<1>1. DOMAIN pieces = 1..n
  OBVIOUS
<1> QED
  BY <1>1 DEF FoldLeft, MapThenFoldSet, DoneOf

LEMMA DoneOfIs ==
    ASSUME NEW argc \in Nat, NEW n \in Nat, NEW pieces \in [1..n -> SomePiece]
    PROVE  \A s \in SUBSET (1..n) :
              DoneOf(argc, pieces)[s] = IF s = {} THEN StartOfFormat
                                        ELSE Step(argc, DoneOf(argc, pieces)[s \ {Max(s)}],
                                                  pieces[Max(s)])
<1> DEFINE Sets == SUBSET (1..n)
           V == [Sets -> Done]
           Do(v, k, s) == IF k \in s THEN Step(argc, v[s \ {k}], pieces[k]) ELSE v[s]
           next == [k \in 1..n |-> [v \in V |-> [s \in Sets |-> Do(v, k, s)]]]
           first == [s \in Sets |-> StartOfFormat]
<1>1. StartOfFormat \in Done
  BY DEF StartOfFormat, Done
<1>2. first \in V
  BY <1>1
<1>3. \A k \in 1..n, v \in V, s \in Sets : Do(v, k, s) \in Done
  <2> SUFFICES ASSUME NEW k \in 1..n, NEW v \in V, NEW s \in Sets PROVE Do(v, k, s) \in Done
    OBVIOUS
  <2>1. s \ {k} \in Sets /\ v[s] \in Done /\ pieces[k] \in SomePiece
    OBVIOUS
  <2>2. v[s \ {k}] \in Done
    BY <2>1
  <2> QED
    BY <2>1, <2>2, StepIs
<1> HIDE DEF Do
<1>4. \A k \in 1..n, v \in V : [s \in Sets |-> Do(v, k, s)] \in V
  BY <1>3
<1>5. next \in [1..n -> [V -> V]]
  <2> HIDE DEF V, Sets
  <2> QED
    BY <1>4
<1>6. \A k \in 1..n : \A v \in V : next[k][v] = [s \in Sets |-> Do(v, k, s)]
  <2> HIDE DEF V, Sets
  <2> QED
    OBVIOUS
<1> HIDE DEF next
<1>7. PICK g \in [0..n -> V] : g[0] = first /\ \A k \in 1..n : g[k] = next[k][g[k - 1]]
  <2> HIDE DEF V, first
  <2>1. \E g \in [0..n -> V] : g[0] = first /\ Follows(g, n, next)
    BY <1>2, <1>5, Recursion
  <2> QED
    BY <2>1 DEF Follows
<1>8. ASSUME NEW k \in 1..n, NEW s \in Sets PROVE g[k][s] = Do(g[k - 1], k, s)
  <2>1. k - 1 \in 0..n
    OBVIOUS
  <2> HIDE DEF V, Sets
  <2>2. g[k - 1] \in V
    BY <1>7, <2>1
  <2>3. g[k] = [t \in Sets |-> Do(g[k - 1], k, t)]
    BY <1>6, <1>7, <2>2
  <2> QED
    BY <2>3
<1>9. ASSUME NEW k \in 0..n, NEW s \in SUBSET (1..k) PROVE g[n][s] = g[k][s]
  <2> DEFINE bad == {j \in k..n : g[j][s] # g[k][s]}
  <2>1. bad = {}
    <3> SUFFICES ASSUME bad # {} PROVE FALSE
      OBVIOUS
    <3>1. bad \in SUBSET Nat
      OBVIOUS
    <3> HIDE DEF bad
    <3>2. PICK j \in bad : \A i \in bad : j <= i
      BY <3>1, LeastNatural
    <3>3. j \in k..n /\ g[j][s] # g[k][s]
      BY DEF bad
    <3>4. j \in 1..n /\ j - 1 \in k..n /\ j - 1 \notin bad /\ j \notin s /\ s \in Sets
      BY <3>2, <3>3
    <3>5. g[j - 1][s] = g[k][s]
      BY <3>4 DEF bad
    <3>6. g[j][s] = g[j - 1][s]
      BY <1>8, <3>4 DEF Do
    <3> QED
      BY <3>3, <3>5, <3>6
  <2> QED
    BY <2>1
<1> DEFINE iter == g[n]
           Level(f, s) == IF s = {} THEN StartOfFormat
                          ELSE LET x == Max(s) IN Step(argc, f[s \ {x}], pieces[x])
<1>10. ASSUME NEW s \in Sets PROVE iter[s] = Level(iter, s)
  <2>1. CASE s = {}
    <3>1. 0 \in 0..n /\ s \in SUBSET (1..0) /\ s \in Sets
      BY <2>1
    <3>2. g[n][s] = g[0][s]
      BY <1>9, <3>1
    <3> QED
      BY <1>7, <2>1, <3>1, <3>2
  <2>2. CASE s # {}
    <3> DEFINE x == Max(s)
               t == s \ {x}
    <3>1. x \in s /\ \A y \in s : y <= x
      BY <2>2, GreatestOf
    <3> HIDE DEF x
    <3>2. x \in 1..n /\ x \in 0..n /\ x - 1 \in 0..n /\ t \in Sets
      BY <3>1
    <3>3. s \in SUBSET (1..x) /\ t \in SUBSET (1..x - 1)
      BY <3>1
    <3>4. g[n][s] = g[x][s] /\ g[n][t] = g[x - 1][t]
      BY <1>9, <3>2, <3>3
    <3>5. g[x][s] = Step(argc, g[x - 1][t], pieces[x])
      BY <1>8, <3>1, <3>2 DEF Do
    <3> QED
      BY <2>2, <3>4, <3>5 DEF x
  <2> QED
    BY <2>1, <2>2
<1>11. iter = [s \in Sets |-> Level(iter, s)]
  <2>1. iter \in V
    <3> HIDE DEF V
    <3> QED
      BY <1>7
  <2> HIDE DEF Level, iter
  <2> QED
    BY <1>10, <2>1
<1> DEFINE done == DoneOf(argc, pieces)
<1>12. done = [s \in Sets |-> Level(done, s)]
  <2>1. DOMAIN pieces = 1..n
    OBVIOUS
  <2>2. DoneOf(argc, pieces) = CHOOSE f : f = [s \in Sets |-> Level(f, s)]
    BY <2>1, Zenon DEF DoneOf
  <2> HIDE DEF Level, iter, Sets
  <2> QED
    BY <1>11, <2>2
<1> HIDE DEF done
<1>13. \A s \in Sets : done[s] = Level(done, s)
  <2> HIDE DEF Level, Sets
  <2> QED
    BY <1>12, Zenon
<1> QED
  BY <1>13 DEF done

LEMMA DoneAlong ==
    ASSUME NEW argc \in Nat, NEW n \in Nat, NEW pieces \in [1..n -> SomePiece]
    PROVE  \E f \in [0..n -> Done] :
              /\ f[0] = StartOfFormat
              /\ \A k \in 1..n : f[k] = Step(argc, f[k - 1], pieces[k])
              /\ FoldLeft(LAMBDA d, p : Step(argc, d, p), StartOfFormat, pieces) = f[n]
<1> DEFINE done == DoneOf(argc, pieces)
           f == [k \in 0..n |-> done[1..k]]
<1>1. done[1..0] = StartOfFormat
  <2>1. 1..0 = {} /\ {} \in SUBSET (1..n)
    OBVIOUS
  <2>2. done[{}] = StartOfFormat
    BY <2>1, DoneOfIs
  <2> HIDE DEF done
  <2> QED
    BY <2>1, <2>2
<1>2. ASSUME NEW k \in 1..n PROVE done[1..k] = Step(argc, done[1..k - 1], pieces[k])
  <2>1. 1..k \in SUBSET (1..n) /\ k \in 1..k /\ (1..k) \ {k} = 1..k - 1 /\ 1..k # {}
    OBVIOUS
  <2>2. Max(1..k) \in 1..k /\ \A y \in 1..k : y <= Max(1..k)
    BY <2>1, GreatestOf
  <2>3. Max(1..k) = k
    BY <2>1, <2>2
  <2>4. done[1..k] = Step(argc, done[(1..k) \ {Max(1..k)}], pieces[Max(1..k)])
    <3> DEFINE s == 1..k
    <3>1. s \in SUBSET (1..n) /\ s # {}
      BY <2>1
    <3> HIDE DEF s
    <3>2. done[s] = IF s = {} THEN StartOfFormat
                    ELSE Step(argc, done[s \ {Max(s)}], pieces[Max(s)])
      BY <3>1, DoneOfIs
    <3> HIDE DEF done
    <3> QED
      BY <3>1, <3>2 DEF s
  <2> HIDE DEF done
  <2> QED
    BY <2>1, <2>3, <2>4
<1>3. FoldLeft(LAMBDA d, p : Step(argc, d, p), StartOfFormat, pieces) = done[1..n]
  BY FoldIs
<1> HIDE DEF done
<1> DEFINE bad == {k \in 0..n : done[1..k] \notin Done}
<1>4. bad = {}
  <2> SUFFICES ASSUME bad # {} PROVE FALSE
    OBVIOUS
  <2>1. bad \in SUBSET Nat
    OBVIOUS
  <2> HIDE DEF bad
  <2>2. PICK k \in bad : \A j \in bad : k <= j
    BY <2>1, LeastNatural
  <2>3. k \in 0..n /\ done[1..k] \notin Done
    BY DEF bad
  <2>4. k # 0
    <3>1. StartOfFormat \in Done
      BY DEF StartOfFormat, Done
    <3>2. k = 0 => done[1..k] = StartOfFormat
      BY <1>1
    <3> QED
      BY <2>3, <3>1, <3>2
  <2>5. k \in 1..n /\ k - 1 \in 0..n /\ k - 1 \notin bad
    BY <2>2, <2>3, <2>4
  <2>6. done[1..k - 1] \in Done /\ pieces[k] \in SomePiece
    BY <2>5 DEF bad
  <2> QED
    BY <1>2, <2>3, <2>5, <2>6, StepIs
<1>5. f \in [0..n -> Done]
  BY <1>4
<1>6. f[0] = StartOfFormat /\ f[n] = done[1..n]
  BY <1>1
<1>7. ASSUME NEW k \in 1..n PROVE f[k] = Step(argc, f[k - 1], pieces[k])
  <2>1. k \in 0..n /\ k - 1 \in 0..n
    OBVIOUS
  <2> QED
    BY <1>2, <2>1
<1> QED
  BY <1>3, <1>5, <1>6, <1>7

\* The argument to be used next after each piece, and what becomes of each piece.
Advances(argc, pieces, n, next) ==
    /\ next \in [0..n -> 1..argc]
    /\ next[0] = 1
    /\ \A k \in 1..n :
          next[k] = IF pieces[k] \in Placeholder \ {"%%"} /\ next[k - 1] < argc
                    THEN next[k - 1] + 1 ELSE next[k - 1]

PieceText(argc, piece, i) ==
    IF piece \notin Placeholder \/ i >= argc THEN Text(piece) ELSE Shown(piece, i)

LEMMA FormattedIs ==
    ASSUME NEW argc \in Nat, argc # 0, NEW n \in Nat, NEW pieces \in [1..n -> SomePiece]
    PROVE  \E next, text :
              /\ Advances(argc, pieces, n, next)
              /\ text \in Seq(Part) /\ Len(text) = n
              /\ \A k \in 1..n : text[k] = PieceText(argc, pieces[k], next[k - 1])
              /\ FoldLeft(LAMBDA d, p : Step(argc, d, p), StartOfFormat, pieces)
                 = [text |-> text, i |-> next[n]]
<1>1. PICK f \in [0..n -> Done] :
              /\ f[0] = StartOfFormat
              /\ \A k \in 1..n : f[k] = Step(argc, f[k - 1], pieces[k])
              /\ FoldLeft(LAMBDA d, p : Step(argc, d, p), StartOfFormat, pieces) = f[n]
  BY DoneAlong
<1>0. f[0].i = 1 /\ f[0].text = <<>>
  <2>1. f[0] = StartOfFormat
    BY <1>1
  <2> QED
    BY <2>1 DEF StartOfFormat
<1>2. \A k \in 0..n : f[k].text \in Seq(Part) /\ f[k].i \in Nat
                      /\ f[k] = [text |-> f[k].text, i |-> f[k].i]
  BY DEF Done
<1>3. ASSUME NEW k \in 1..n
      PROVE  /\ f[k].text = Append(f[k - 1].text, PieceText(argc, pieces[k], f[k - 1].i))
             /\ PieceText(argc, pieces[k], f[k - 1].i) \in Part
             /\ f[k].i = IF pieces[k] \in Placeholder \ {"%%"} /\ f[k - 1].i < argc
                         THEN f[k - 1].i + 1 ELSE f[k - 1].i
  <2> DEFINE d == f[k - 1]
             piece == pieces[k]
  <2>1. k - 1 \in 0..n /\ k \in 0..n /\ piece \in SomePiece
    OBVIOUS
  <2>2. d \in Done /\ d.text \in Seq(Part) /\ d.i \in Nat /\ f[k] = Step(argc, d, piece)
    BY <1>1, <1>2, <2>1
  <2>3. d = [text |-> d.text, i |-> d.i]
    BY <2>2 DEF Done
  <2> HIDE DEF d, piece
  <2>4. Text(piece) \in Part
    BY <2>1 DEF Part
  <2>5. CASE piece \notin Placeholder \/ d.i >= argc
    <3>1. Step(argc, d, piece) = [text |-> Append(d.text, Text(piece)), i |-> d.i]
      BY <2>3, <2>5 DEF Step
    <3>2. ~(piece \in Placeholder \ {"%%"} /\ d.i < argc)
      BY <2>2, <2>5
    <3> QED
      BY <2>2, <2>4, <2>5, <3>1, <3>2 DEF PieceText, d, piece
  <2>6. CASE ~(piece \notin Placeholder \/ d.i >= argc)
    <3>1. Step(argc, d, piece) = [text |-> Append(d.text, Shown(piece, d.i)),
                                  i |-> d.i + Takes(piece)]
      BY <2>6 DEF Step
    <3>2. Takes(piece) = IF piece = "%%" THEN 0 ELSE 1
      BY DEF Takes
    <3>3. d.i < argc /\ piece \in Placeholder
      BY <2>2, <2>6
    <3>4. d.i + Takes(piece) = IF piece \in Placeholder \ {"%%"} /\ d.i < argc
                               THEN d.i + 1 ELSE d.i
      BY <2>2, <3>2, <3>3
    <3>5. Shown(piece, d.i) \in Part
      <4>1. piece \in {"%s", "%d", "%j", "%%"}
        BY <3>3 DEF Placeholder
      <4>2. CASE piece = "%%"
        BY <4>2 DEF Shown, Part
      <4>3. CASE piece \in {"%s", "%d"}
        BY <2>2, <4>3 DEF Shown, Part
      <4>4. CASE piece = "%j"
        BY <2>2, <4>4 DEF Shown, Part
      <4> QED
        BY <4>1, <4>2, <4>3, <4>4
    <3> QED
      BY <2>2, <2>6, <3>1, <3>4, <3>5 DEF PieceText, d, piece
  <2> QED
    BY <2>5, <2>6
<1> DEFINE next == [k \in 0..n |-> f[k].i]
           Good(k) == /\ f[k].i \in 1..argc /\ Len(f[k].text) = k
                      /\ \A j \in 1..k : f[k].text[j] = PieceText(argc, pieces[j], next[j - 1])
           bad == {k \in 0..n : ~Good(k)}
<1>4. bad = {}
  <2> SUFFICES ASSUME bad # {} PROVE FALSE
    OBVIOUS
  <2>1. bad \in SUBSET Nat
    OBVIOUS
  <2> HIDE DEF bad
  <2>2. PICK k \in bad : \A j \in bad : k <= j
    BY <2>1, LeastNatural
  <2>3. k \in 0..n /\ ~Good(k)
    BY DEF bad
  <2>4. k # 0
    <3>1. f[0].i = 1 /\ f[0].text = <<>>
      BY <1>0
    <3>2. 1 \in 1..argc /\ Len(<<>>) = 0
      OBVIOUS
    <3> QED
      BY <2>3, <3>1, <3>2
  <2>5. k \in 1..n /\ k - 1 \in 0..n /\ k - 1 \notin bad
    BY <2>2, <2>3, <2>4
  <2>6. Good(k - 1)
    <3> HIDE DEF Good
    <3> QED
      BY <2>5 DEF bad
  <2> DEFINE part == PieceText(argc, pieces[k], f[k - 1].i)
             u == f[k - 1].text
             t == f[k].text
  <2>7. t = Append(u, part) /\ part \in Part /\ u \in Seq(Part)
    BY <1>2, <1>3, <2>5
  <2>8. f[k].i \in 1..argc
    BY <1>3, <2>5, <2>6
  <2>9. next[k - 1] = f[k - 1].i
    BY <2>5
  <2>10. Len(u) = k - 1 /\ \A j \in 1..k - 1 : u[j] = PieceText(argc, pieces[j], next[j - 1])
    BY <2>6
  <2> HIDE DEF part, u, t, next
  <2>11. Len(t) = k /\ t[k] = part /\ \A j \in 1..k - 1 : t[j] = u[j]
    BY <2>5, <2>7, <2>10
  <2>12. part = PieceText(argc, pieces[k], next[k - 1])
    BY <2>9 DEF part
  <2>13. \A j \in 1..k : t[j] = PieceText(argc, pieces[j], next[j - 1])
    <3> SUFFICES ASSUME NEW j \in 1..k PROVE t[j] = PieceText(argc, pieces[j], next[j - 1])
      OBVIOUS
    <3>1. CASE j = k
      BY <2>11, <2>12, <3>1
    <3>2. CASE j # k
      <4>1. j \in 1..k - 1
        BY <2>5, <3>2
      <4> QED
        BY <2>10, <2>11, <4>1
    <3> QED
      BY <3>1, <3>2
  <2> QED
    BY <2>3, <2>8, <2>11, <2>13 DEF t
<1>5. \A k \in 0..n : Good(k)
  BY <1>4
<1>6. Advances(argc, pieces, n, next)
  <2>1. next \in [0..n -> 1..argc]
    BY <1>5
  <2>2. next[0] = 1
    <3>1. f[0].i = 1 /\ 0 \in 0..n
      BY <1>0
    <3> QED
      BY <3>1
  <2>3. ASSUME NEW k \in 1..n
        PROVE  next[k] = IF pieces[k] \in Placeholder \ {"%%"} /\ next[k - 1] < argc
                         THEN next[k - 1] + 1 ELSE next[k - 1]
    <3>1. k \in 0..n /\ k - 1 \in 0..n
      OBVIOUS
    <3>2. next[k] = f[k].i /\ next[k - 1] = f[k - 1].i
      BY <3>1
    <3> HIDE DEF next
    <3> QED
      BY <1>3, <3>2
  <2> HIDE DEF next
  <2> QED
    BY <2>1, <2>2, <2>3 DEF Advances
<1> DEFINE text == f[n].text
<1>7. n \in 0..n /\ next[n] = f[n].i
  OBVIOUS
<1>8. text \in Seq(Part) /\ f[n] = [text |-> text, i |-> next[n]]
  BY <1>2, <1>7
<1>9. Len(text) = n /\ \A k \in 1..n : text[k] = PieceText(argc, pieces[k], next[k - 1])
  BY <1>5, <1>7
<1> HIDE DEF next, text
<1> QED
  BY <1>1, <1>6, <1>8, <1>9

Flattened(seqs) ==
    LET flatten[i \in 1..Len(seqs)] == IF i = 1 THEN seqs[i] ELSE flatten[i - 1] \o seqs[i]
    IN flatten

LEMMA FlattenIs ==
    ASSUME NEW S, NEW m \in Nat, NEW seqs \in [1..m -> Seq(S)]
    PROVE  \E h \in [0..m -> Seq(S)] :
              h[0] = <<>> /\ (\A k \in 1..m : h[k] = h[k - 1] \o seqs[k])
              /\ FlattenSeq(seqs) = h[m]
<1> DEFINE V == Seq(S)
           next == [k \in 1..m |-> [v \in V |-> v \o seqs[k]]]
           first == <<>>
<1>1. first \in V
  OBVIOUS
<1>2. \A k \in 1..m, v \in V : v \o seqs[k] \in V
  OBVIOUS
<1>3. next \in [1..m -> [V -> V]]
  <2> HIDE DEF V
  <2> QED
    BY <1>2
<1>4. \A k \in 1..m : \A v \in V : next[k][v] = v \o seqs[k]
  <2> HIDE DEF V
  <2> QED
    OBVIOUS
<1> HIDE DEF next
<1>5. PICK h \in [0..m -> V] : h[0] = first /\ \A k \in 1..m : h[k] = next[k][h[k - 1]]
  <2> HIDE DEF V, first
  <2>1. \E h \in [0..m -> V] : h[0] = first /\ Follows(h, m, next)
    BY <1>1, <1>3, Recursion
  <2> QED
    BY <2>1 DEF Follows
<1>6. \A k \in 1..m : h[k] = h[k - 1] \o seqs[k]
  <2> SUFFICES ASSUME NEW k \in 1..m PROVE h[k] = h[k - 1] \o seqs[k]
    OBVIOUS
  <2>1. k - 1 \in 0..m
    OBVIOUS
  <2> HIDE DEF V
  <2>2. h[k - 1] \in V
    BY <1>5, <2>1
  <2> QED
    BY <1>4, <1>5, <2>2
<1>7. seqs \in Seq(Seq(S)) /\ Len(seqs) = m
  OBVIOUS
<1>8. CASE m = 0
  <2>1. seqs = <<>> /\ FlattenSeq(seqs) = seqs
    BY <1>7, <1>8 DEF FlattenSeq
  <2> QED
    BY <1>5, <1>6, <1>8, <2>1
<1>9. CASE m # 0
  <2> DEFINE f == [k \in 1..m |-> h[k]]
             Level(g, i) == IF i = 1 THEN seqs[i] ELSE g[i - 1] \o seqs[i]
             flat == Flattened(seqs)
  <2>1. ASSUME NEW i \in 1..m PROVE f[i] = Level(f, i)
    <3>1. CASE i = 1
      <4>1. h[1] = h[0] \o seqs[1] /\ seqs[1] \in Seq(S)
        BY <1>6, <3>1
      <4>2. h[1] = seqs[1]
        BY <1>5, <4>1
      <4> QED
        BY <3>1, <4>2
    <3>2. CASE i # 1
      <4>1. i - 1 \in 1..m
        BY <3>2
      <4> QED
        BY <1>6, <3>2, <4>1
    <3> QED
      BY <3>1, <3>2
  <2>2. f = [i \in 1..m |-> Level(f, i)]
    <3> HIDE DEF Level
    <3> QED
      BY <2>1
  <2>3. flat = [i \in 1..m |-> Level(flat, i)]
    <3>1. Flattened(seqs) = CHOOSE g : g = [i \in 1..m |-> Level(g, i)]
      BY <1>7, Zenon DEF Flattened
    <3> HIDE DEF Level, f
    <3> QED
      BY <2>2, <3>1
  <2> HIDE DEF flat
  <2>4. \A i \in 1..m : flat[i] = Level(flat, i)
    <3> HIDE DEF Level
    <3> QED
      BY <2>3, Zenon
  <2> DEFINE bad == {i \in 1..m : flat[i] # h[i]}
  <2>5. bad = {}
    <3> SUFFICES ASSUME bad # {} PROVE FALSE
      OBVIOUS
    <3>1. bad \in SUBSET Nat
      OBVIOUS
    <3> HIDE DEF bad
    <3>2. PICK i \in bad : \A j \in bad : i <= j
      BY <3>1, LeastNatural
    <3>3. i \in 1..m /\ flat[i] # h[i] /\ h[i] = Level(f, i)
      BY <2>1 DEF bad
    <3>4. CASE i = 1
      BY <2>4, <3>3, <3>4
    <3>5. CASE i # 1
      <4>1. i - 1 \in 1..m /\ i - 1 \notin bad
        BY <3>2, <3>3, <3>5
      <4>2. flat[i - 1] = h[i - 1] /\ f[i - 1] = h[i - 1]
        BY <4>1 DEF bad
      <4>3. flat[i] = Level(flat, i)
        BY <2>4, <3>3
      <4> QED
        BY <3>3, <3>5, <4>2, <4>3
    <3> QED
      BY <3>4, <3>5
  <2>6. m \in 1..m
    BY <1>9
  <2>7. FlattenSeq(seqs) = flat[m]
    BY <1>7, <1>9 DEF FlattenSeq, Flattened, flat
  <2> QED
    BY <1>5, <1>6, <2>5, <2>6, <2>7
<1> QED
  BY <1>8, <1>9

LEMMA PairIs ==
    ASSUME NEW S, NEW a \in S, NEW b \in S
    PROVE  <<a, b>> \in Seq(S) /\ Len(<<a, b>>) = 2 /\ <<a, b>>[1] = a /\ <<a, b>>[2] = b
OBVIOUS

LEMMA ConcatIs ==
    ASSUME NEW S, NEW u \in Seq(S), NEW v \in Seq(S)
    PROVE  /\ u \o v \in Seq(S) /\ Len(u) \in Nat /\ Len(v) \in Nat
           /\ Len(u \o v) = Len(u) + Len(v)
           /\ \A j \in 1..Len(u) : (u \o v)[j] = u[j]
           /\ \A j \in 1..Len(v) : (u \o v)[Len(u) + j] = v[j]
<1>1. Len(u) \in Nat /\ Len(v) \in Nat
  OBVIOUS
<1>2. ASSUME NEW j \in 1..Len(v) PROVE (u \o v)[Len(u) + j] = v[j]
  <2> DEFINE i == Len(u) + j
  <2>1. i \in 1..Len(u) + Len(v) /\ ~(i <= Len(u)) /\ i - Len(u) = j
    BY <1>1
  <2> HIDE DEF i
  <2>2. (u \o v)[i] = v[i - Len(u)]
    BY <2>1, ConcatProperties
  <2> QED
    BY <2>1, <2>2 DEF i
<1> QED
  BY <1>1, <1>2, ConcatProperties

\* After each space an argument.
LEMMA ListedIs ==
    ASSUME NEW i \in Nat, NEW argc \in Nat, i <= argc
    PROVE  /\ Listed(i, argc) \in Seq(Part)
           /\ Len(Listed(i, argc)) = 2 * (argc - i)
           /\ \A j \in 1 .. argc - i : /\ Listed(i, argc)[2 * j - 1] = Text(" ")
                                       /\ Listed(i, argc)[2 * j] = Inspected(i + j - 1)
<1> DEFINE m == argc - i
           seqs == [k \in 1..m |-> <<Text(" "), Inspected(i + k - 1)>>]
           listed == Listed(i, argc)
<1>1. m \in Nat
  OBVIOUS
<1>2. Text(" ") \in Part /\ \A k \in 1..m : Inspected(i + k - 1) \in Part
  <2>1. \A k \in 1..m : i + k - 1 \in Nat
    OBVIOUS
  <2> QED
    BY <2>1 DEF Part
<1> HIDE DEF m
<1>3. seqs \in [1..m -> Seq(Part)]
  <2>1. \A k \in 1..m : <<Text(" "), Inspected(i + k - 1)>> \in Seq(Part)
    BY <1>2, PairIs
  <2> QED
    BY <2>1
<1>4. listed = FlattenSeq(seqs)
  BY DEF Listed, m
<1> HIDE DEF listed
<1>5. \A k \in 1..m : /\ seqs[k] \in Seq(Part) /\ Len(seqs[k]) = 2
                      /\ seqs[k][1] = Text(" ") /\ seqs[k][2] = Inspected(i + k - 1)
  BY <1>2, <1>3, PairIs
<1> HIDE DEF seqs
<1>6. PICK h \in [0..m -> Seq(Part)] :
              h[0] = <<>> /\ (\A k \in 1..m : h[k] = h[k - 1] \o seqs[k])
              /\ FlattenSeq(seqs) = h[m]
  BY <1>1, <1>3, FlattenIs, ZenonT(30)
<1> DEFINE Good(k) == /\ Len(h[k]) = 2 * k
                      /\ \A j \in 1..k : /\ h[k][2 * j - 1] = Text(" ")
                                         /\ h[k][2 * j] = Inspected(i + j - 1)
           bad == {k \in 0..m : ~Good(k)}
<1>7. bad = {}
  <2> SUFFICES ASSUME bad # {} PROVE FALSE
    OBVIOUS
  <2>1. bad \in SUBSET Nat
    <3> HIDE DEF Good
    <3> QED
      BY <1>1
  <2> HIDE DEF bad
  <2>2. PICK k \in bad : \A j \in bad : k <= j
    BY <2>1, LeastNatural
  <2>3. k \in 0..m /\ ~Good(k)
    BY DEF bad
  <2>4. k # 0
    <3>1. Good(0)
      <4>1. Len(h[0]) = 2 * 0
        BY <1>6
      <4> QED
        BY <4>1
    <3> HIDE DEF Good
    <3> QED
      BY <2>3, <3>1
  <2>5. k \in 1..m /\ k - 1 \in 0..m /\ k - 1 \notin bad /\ k \in Nat
    <3> HIDE DEF Good
    <3> QED
      BY <1>1, <2>2, <2>3, <2>4
  <2>6. Good(k - 1)
    <3> HIDE DEF Good
    <3> QED
      BY <2>5 DEF bad
  <2> DEFINE u == h[k - 1]
             v == seqs[k]
             t == h[k]
  <2>7. u \in Seq(Part) /\ v \in Seq(Part) /\ t = u \o v /\ Len(v) = 2
        /\ v[1] = Text(" ") /\ v[2] = Inspected(i + k - 1)
    BY <1>5, <1>6, <2>5
  <2>12. u \in Seq(Part) /\ v \in Seq(Part)
    BY <2>7
  <2>13. Len(v) = 2
    BY <2>7
  <2>14. Len(u) = 2 * (k - 1)
    BY <2>6
  <2>15. k \in Nat /\ k >= 1
    BY <2>4, <2>5
  <2>8. Len(u) = 2 * (k - 1)
        /\ \A j \in 1..k - 1 : u[2 * j - 1] = Text(" ") /\ u[2 * j] = Inspected(i + j - 1)
    BY <2>6
  <2> HIDE DEF u, v, t
  <2>9. /\ t \in Seq(Part) /\ Len(t) = Len(u) + Len(v)
        /\ Len(u) \in Nat /\ Len(v) \in Nat
        /\ \A j \in 1..Len(u) : t[j] = u[j]
        /\ \A j \in 1..Len(v) : t[Len(u) + j] = v[j]
    <3> DEFINE w == u \o v
    <3>1. /\ w \in Seq(Part) /\ Len(u) \in Nat /\ Len(v) \in Nat
          /\ Len(w) = Len(u) + Len(v)
          /\ \A j \in 1..Len(u) : w[j] = u[j]
          /\ \A j \in 1..Len(v) : w[Len(u) + j] = v[j]
      BY <2>12, ConcatIs
    <3> HIDE DEF w
    <3>2. t = w
      BY <2>7 DEF w
    <3> QED
      BY <3>1, <3>2
  <2>10. Len(t) = 2 * k
    <3>1. Len(t) = Len(u) + Len(v)
      BY <2>9
    <3> QED
      BY <2>13, <2>14, <2>15, <3>1
  <2>11. ASSUME NEW j \in 1..k PROVE t[2 * j - 1] = Text(" ") /\ t[2 * j] = Inspected(i + j - 1)
    <3>1. CASE j = k
      <4>1. Len(u) + 1 = 2 * j - 1 /\ Len(u) + 2 = 2 * j /\ 1 \in 1..Len(v) /\ 2 \in 1..Len(v)
        BY <2>13, <2>14, <2>15, <3>1
      <4> QED
        BY <2>7, <2>9, <3>1, <4>1
    <3>2. CASE j # k
      <4>1. j \in 1..k - 1 /\ 2 * j - 1 \in 1..Len(u) /\ 2 * j \in 1..Len(u)
        BY <2>14, <2>15, <3>2
      <4> QED
        BY <2>8, <2>9, <4>1
    <3> QED
      BY <3>1, <3>2
  <2> QED
    BY <2>3, <2>10, <2>11 DEF t
<1>8. Good(m) /\ listed \in Seq(Part) /\ listed = h[m]
  <2>1. m \in 0..m
    BY <1>1
  <2> QED
    BY <1>4, <1>6, <1>7, <2>1
<1> QED
  BY <1>8 DEF listed, m

LEMMA FormatInput ==
    ASSUME Init, Is("format")
    PROVE  /\ input.argc \in Nat /\ input.argc # 0 /\ input.isString \in BOOLEAN
           /\ \E n \in Nat : input.pieces \in [1..n -> SomePiece]
<1>1. ~BufferInput /\ ~PathInput /\ ~AssertInput
  BY DEF BufferInput, PathInput, AssertInput, Is
<1>2. UtilInput
  BY <1>1 DEF Init
<1>3. input \in [op : {"format"}, argc : 1 .. MaxPieces + 1, isString : BOOLEAN,
                 pieces : UNION {[1..k -> SomePiece] : k \in 0..MaxPieces}]
  BY <1>2 DEF UtilInput, Is
<1>4. PICK k \in 0..MaxPieces : input.pieces \in [1..k -> SomePiece]
  BY <1>3
<1>5. MaxPieces \in Nat
  BY LibraryAssumption
<1> QED
  BY <1>3, <1>4, <1>5

LEMMA PartIs ==
    /\ \A p : Text(p).how = "text" /\ Text(p).what = p
    /\ \A p : Inspected(p).how = "inspect" /\ Inspected(p).what = p
    /\ \A p : Json(p).how = "json" /\ Json(p).what = p
BY DEF Text, Inspected, Json

\* The arguments that out shows, and that they are those from first on, in order.
Showing(out) == {k \in 1..Len(out) : out[k].how # "text"}

UsesFrom(out, argc, first) ==
    /\ Cardinality(UpTo(Showing(out), Len(out))) = argc - first
    /\ \A k \in Showing(out) : out[k].what = Cardinality(UpTo(Showing(out), k)) - 1 + first

LEMMA TailUses ==
    ASSUME NEW argc \in Nat, argc # 0
    PROVE  UsesFrom(Tail(Listed(0, argc)), argc, 0)
<1> DEFINE all == Listed(0, argc)
           out == Tail(all)
           n == 2 * argc - 1
           S == Showing(out)
           w == [k \in 0..n |-> (k + 1) \div 2]
<1>1. 0 \in Nat /\ 0 <= argc /\ argc - 0 = argc
  OBVIOUS
<1>2. all \in Seq(Part)
  BY <1>1, ListedIs
<1>3. Len(all) = 2 * argc /\ argc >= 1 /\ n \in Nat
  <2>1. Len(all) = 2 * (argc - 0)
    BY <1>1, ListedIs
  <2> QED
    BY <1>1, <2>1
<1>4. \A j \in 1..argc : all[2 * j - 1] = Text(" ")
  <2>1. \A j \in 1..argc - 0 : all[2 * j - 1] = Text(" ")
    BY <1>1, ListedIs
  <2> QED
    BY <1>1, <2>1
<1>5. \A j \in 1..argc : all[2 * j] = Inspected(j - 1)
  <2>1. \A j \in 1..argc - 0 : all[2 * j] = Inspected(0 + j - 1)
    BY <1>1, ListedIs
  <2>2. \A j \in 1..argc : 0 + j - 1 = j - 1
    OBVIOUS
  <2> QED
    BY <1>1, <2>1, <2>2
<1> HIDE DEF all
<1>6. Len(out) = n /\ \A k \in 1..n : out[k] = all[k + 1]
  <2>1. all # <<>>
    BY <1>3
  <2> HIDE DEF n
  <2>2. Len(out) = Len(all) - 1 /\ \A k \in 1..Len(out) : out[k] = all[k + 1]
    BY <1>2, <2>1
  <2> QED
    BY <1>3, <2>2 DEF n
<1> HIDE DEF out
<1>7. ASSUME NEW j \in 1..argc
      PROVE  2 * j - 1 \in 1..n /\ out[2 * j - 1] = Inspected(j - 1) /\ 2 * j - 1 \in S
  <2>1. 2 * j - 1 \in 1..n /\ (2 * j - 1) + 1 = 2 * j
    BY <1>3
  <2>2. out[2 * j - 1] = Inspected(j - 1)
    BY <1>5, <1>6, <2>1
  <2> QED
    BY <1>6, <2>1, <2>2 DEF Showing, Inspected
<1>8. ASSUME NEW j \in 1..argc - 1 PROVE 2 * j \notin S
  <2>1. j + 1 \in 1..argc /\ 2 * j \in 1..n /\ 2 * (j + 1) - 1 = 2 * j + 1
    BY <1>3
  <2>2. out[2 * j] = Text(" ")
    BY <1>4, <1>6, <2>1
  <2>3. out[2 * j].how = "text"
    BY <2>2, PartIs
  <2> QED
    BY <2>3 DEF Showing
<1>9. ASSUME NEW k \in 1..n
      PROVE  \/ \E j \in 1..argc : k = 2 * j - 1
             \/ \E j \in 1..argc - 1 : k = 2 * j
  <2> DEFINE h == (k + 1) \div 2
  <2>1. h \in Nat /\ (k = 2 * h - 1 \/ k = 2 * h)
    BY <1>3
  <2>2. (k = 2 * h - 1 /\ h \in 1..argc) \/ (k = 2 * h /\ h \in 1..argc - 1)
    <3> HIDE DEF h
    <3> QED
      BY <1>3, <2>1
  <2> HIDE DEF h
  <2> QED
    BY <2>2
<1> HIDE DEF S, n
<1>10. \A k \in 1..n : w[k] = w[k - 1] + (IF k \in S THEN 1 ELSE 0)
  <2> SUFFICES ASSUME NEW k \in 1..n PROVE w[k] = w[k - 1] + (IF k \in S THEN 1 ELSE 0)
    OBVIOUS
  <2>1. k \in 0..n /\ k - 1 \in 0..n /\ k \in Nat
    BY <1>3
  <2>2. w[k] = (k + 1) \div 2 /\ w[k - 1] = ((k - 1) + 1) \div 2
    BY <2>1
  <2> HIDE DEF w
  <2>3. ASSUME NEW j \in 1..argc, k = 2 * j - 1 PROVE w[k] = w[k - 1] + (IF k \in S THEN 1 ELSE 0)
    <3>1. (k + 1) \div 2 = j /\ ((k - 1) + 1) \div 2 = j - 1
      BY <2>3
    <3> QED
      BY <1>7, <2>2, <2>3, <3>1
  <2>4. ASSUME NEW j \in 1..argc - 1, k = 2 * j PROVE w[k] = w[k - 1] + (IF k \in S THEN 1 ELSE 0)
    <3>1. (k + 1) \div 2 = j /\ ((k - 1) + 1) \div 2 = j /\ j \in Int
      BY <1>3, <2>4
    <3> QED
      BY <1>8, <2>2, <2>4, <3>1
  <2> QED
    BY <1>9, <2>3, <2>4
<1>11. w \in [0..n -> Nat] /\ w[0] = 0
  <2>1. \A k \in 0..n : (k + 1) \div 2 \in Nat
    BY <1>3
  <2> QED
    BY <1>3, <2>1
<1>12. \A k \in 0..n : Cardinality(UpTo(S, k)) = (k + 1) \div 2
  <2>1. \A k \in 0..n : Cardinality(UpTo(S, k)) = w[k]
    <3> HIDE DEF w
    <3> QED
      <4>1. Counts(S, n, w)
        BY <1>10, <1>11 DEF Counts
      <4> QED
        BY <1>3, <4>1, CountTo
  <2> QED
    BY <2>1
<1>13. Cardinality(UpTo(S, Len(out))) = argc - 0
  <2>1. n \in 0..n /\ (n + 1) \div 2 = argc
    BY <1>3 DEF n
  <2>2. Cardinality(UpTo(S, n)) = argc
    BY <1>12, <2>1
  <2>3. Len(out) = n
    BY <1>6
  <2> QED
    BY <2>2, <2>3
<1>14. ASSUME NEW k \in S PROVE out[k].what = Cardinality(UpTo(S, k)) - 1 + 0
  <2>1. k \in 1..n
    BY <1>6 DEF S, Showing
  <2>2. PICK j \in 1..argc : k = 2 * j - 1
    BY <1>8, <1>9, <2>1
  <2>3. out[k].what = j - 1
    <3>1. out[k] = Inspected(j - 1)
      BY <1>7, <2>2
    <3> QED
      BY <3>1 DEF Inspected
  <2>4. k \in 0..n /\ (k + 1) \div 2 = j
    BY <1>3, <2>1, <2>2
  <2> QED
    BY <1>3, <1>12, <2>3, <2>4
<1> QED
  BY <1>13, <1>14 DEF UsesFrom, S, out, all

\* What takes an argument as long as there is one.
Taking(pieces, n) == {k \in 1..n : pieces[k] \in Placeholder \ {"%%"}}

LEMMA PieceTextIs ==
    ASSUME NEW argc \in Nat, NEW piece \in SomePiece, NEW i \in 1..argc
    PROVE  /\ piece \notin Placeholder \/ i >= argc => PieceText(argc, piece, i) = Text(piece)
           /\ piece \in Placeholder \ {"%%"} /\ i < argc =>
                PieceText(argc, piece, i).how # "text" /\ PieceText(argc, piece, i).what = i
           /\ piece = "%%" /\ i < argc => PieceText(argc, piece, i) = Text("%")
<1>1. ~(i >= argc) <=> i < argc
  OBVIOUS
<1>2. CASE piece \notin Placeholder \/ i >= argc
  BY <1>1, <1>2 DEF PieceText, Placeholder
<1>3. CASE piece = "%%" /\ i < argc
  BY <1>1, <1>3 DEF PieceText, Shown, Placeholder
<1>4. CASE piece \in Placeholder \ {"%%"} /\ i < argc
  <2>1. PieceText(argc, piece, i) = Shown(piece, i) /\ piece \in {"%s", "%d", "%j"}
    BY <1>1, <1>4 DEF PieceText, Placeholder
  <2>2. Shown(piece, i) \in {Inspected(i), Json(i)}
    BY <2>1 DEF Shown
  <2> QED
    BY <1>4, <2>1, <2>2, PartIs
<1> QED
  BY <1>1, <1>2, <1>3, <1>4

\* The next argument is the one after as many as there were placeholders, or none.
LEMMA NextIs ==
    ASSUME NEW argc \in Nat, argc # 0, NEW n \in Nat, NEW pieces, NEW next,
           Advances(argc, pieces, n, next)
    PROVE  \A k \in 0..n : LET c == Cardinality(UpTo(Taking(pieces, n), k))
                           IN c \in Nat /\ next[k] = IF c + 1 <= argc THEN c + 1 ELSE argc
<1> DEFINE T == Taking(pieces, n)
           C(k) == Cardinality(UpTo(T, k))
           Good(k) == C(k) \in Nat /\ next[k] = IF C(k) + 1 <= argc THEN C(k) + 1 ELSE argc
           bad == {k \in 0..n : ~Good(k)}
<1> SUFFICES ASSUME bad # {} PROVE FALSE
  OBVIOUS
<1> HIDE DEF T
<1>1. bad \in SUBSET Nat
  OBVIOUS
<1> HIDE DEF bad
<1>2. PICK k \in bad : \A j \in bad : k <= j
  BY <1>1, LeastNatural
<1>3. k \in 0..n /\ ~Good(k)
  BY DEF bad
<1>4. k # 0
  <2>1. C(0) = 0
    BY UpToNone
  <2>2. next[0] = 1
    BY DEF Advances
  <2>3. Good(0)
    BY <2>1, <2>2
  <2> HIDE DEF Good
  <2> QED
    BY <1>3, <2>3
<1>5. k \in Nat /\ k \in 1..n /\ k - 1 \in 0..n /\ k - 1 \notin bad
  BY <1>2, <1>3, <1>4
<1>6. Good(k - 1)
  <2> HIDE DEF Good
  <2> QED
    BY <1>5 DEF bad
<1>7. C(k) \in Nat /\ C(k - 1) \in Nat /\ C(k) = C(k - 1) + (IF k \in T THEN 1 ELSE 0)
  BY <1>4, <1>5, UpToNext
<1>8. next[k] = IF pieces[k] \in Placeholder \ {"%%"} /\ next[k - 1] < argc
                THEN next[k - 1] + 1 ELSE next[k - 1]
  BY <1>5 DEF Advances
<1>9. k \in T <=> pieces[k] \in Placeholder \ {"%%"}
  BY <1>5 DEF T, Taking
<1> DEFINE takes == pieces[k] \in Placeholder \ {"%%"}
<1>10. /\ C(k) = C(k - 1) + (IF takes THEN 1 ELSE 0)
       /\ next[k] = IF takes /\ next[k - 1] < argc THEN next[k - 1] + 1 ELSE next[k - 1]
  BY <1>7, <1>8, <1>9
<1> HIDE DEF takes
<1>11. next[k - 1] = IF C(k - 1) + 1 <= argc THEN C(k - 1) + 1 ELSE argc
  BY <1>6
<1> HIDE DEF C
<1>12. next[k] = IF C(k) + 1 <= argc THEN C(k) + 1 ELSE argc
  BY <1>7, <1>10, <1>11
<1> QED
  BY <1>3, <1>7, <1>12

\* What has been made of a format, and the arguments left over.
Formatted(argc, pieces, n, next, text) ==
    /\ Advances(argc, pieces, n, next)
    /\ text \in Seq(Part) /\ Len(text) = n
    /\ \A k \in 1..n : text[k] = PieceText(argc, pieces[k], next[k - 1])

Whole(argc, pieces, n, next, out) ==
    /\ next[n] \in 1..argc /\ argc - next[n] \in Nat
    /\ Len(out) = n + 2 * (argc - next[n])
    /\ \A k \in 1..n : next[k - 1] \in 1..argc
    /\ \A k \in 1..n : out[k] = PieceText(argc, pieces[k], next[k - 1])
    /\ \A j \in 1 .. argc - next[n] : out[n + (2 * j - 1)] = Text(" ")
    /\ \A j \in 1 .. argc - next[n] : out[n + 2 * j] = Inspected(next[n] + j - 1)

LEMMA WholeIs ==
    ASSUME NEW argc \in Nat, argc # 0, NEW n \in Nat, NEW pieces \in [1..n -> SomePiece],
           NEW next, NEW text, Formatted(argc, pieces, n, next, text),
           NEW out, out = text \o Listed(next[n], argc)
    PROVE  Whole(argc, pieces, n, next, out)
<1> DEFINE i == next[n]
           m == argc - i
           list == Listed(i, argc)
<1>1. next \in [0..n -> 1..argc]
  BY DEF Formatted, Advances
<1>2. i \in 1..argc /\ \A k \in 1..n : next[k - 1] \in 1..argc
  BY <1>1
<1> HIDE DEF i
<1>3. i \in Nat /\ i <= argc /\ m \in Nat
  BY <1>2
<1>4. list \in Seq(Part)
  BY <1>3, ListedIs
<1>5. Len(list) = 2 * m
  BY <1>3, ListedIs
<1>6. \A j \in 1..m : list[2 * j - 1] = Text(" ")
  BY <1>3, ListedIs
<1>7. \A j \in 1..m : list[2 * j] = Inspected(i + j - 1)
  BY <1>3, ListedIs
<1> HIDE DEF list, m
<1>8. text \in Seq(Part) /\ Len(text) = n
  BY DEF Formatted
<1>9. \A k \in 1..n : text[k] = PieceText(argc, pieces[k], next[k - 1])
  BY DEF Formatted
<1>10. out = text \o list
  BY DEF list, i
<1> DEFINE w == text \o list
<1>11. /\ Len(w) = n + Len(list)
       /\ \A k \in 1..n : w[k] = text[k]
       /\ \A j \in 1..Len(list) : w[n + j] = list[j]
  <2>1. text \in Seq(Part)
    BY <1>8
  <2>2. Len(w) = Len(text) + Len(list)
    BY <1>4, <2>1, ConcatIs
  <2>3. \A k \in 1..Len(text) : w[k] = text[k]
    BY <1>4, <2>1, ConcatIs
  <2>4. \A j \in 1..Len(list) : w[Len(text) + j] = list[j]
    BY <1>4, <2>1, ConcatIs
  <2> HIDE DEF w
  <2> QED
    BY <1>8, <2>2, <2>3, <2>4
<1> HIDE DEF w
<1>12. out = w
  BY <1>10 DEF w
<1>13. \A k \in 1..n : out[k] = PieceText(argc, pieces[k], next[k - 1])
  BY <1>9, <1>11, <1>12
<1>14. \A j \in 1..m : out[n + (2 * j - 1)] = Text(" ") /\ out[n + 2 * j] = Inspected(i + j - 1)
  <2> SUFFICES ASSUME NEW j \in 1..m
               PROVE  out[n + (2 * j - 1)] = Text(" ") /\ out[n + 2 * j] = Inspected(i + j - 1)
    OBVIOUS
  <2>1. 2 * j - 1 \in 1..Len(list) /\ 2 * j \in 1..Len(list)
    BY <1>3, <1>5
  <2>2. out[n + (2 * j - 1)] = list[2 * j - 1] /\ out[n + 2 * j] = list[2 * j]
    BY <1>11, <1>12, <2>1
  <2> QED
    BY <1>6, <1>7, <2>2
<1>15. Len(out) = n + 2 * m
  BY <1>5, <1>11, <1>12
<1> QED
  BY <1>2, <1>3, <1>13, <1>14, <1>15 DEF i, m, Whole

LEMMA WholeUses ==
    ASSUME NEW argc \in Nat, argc # 0, NEW n \in Nat, NEW pieces \in [1..n -> SomePiece],
           NEW next, NEW text, Formatted(argc, pieces, n, next, text),
           NEW out, out = text \o Listed(next[n], argc)
    PROVE  UsesFrom(out, argc, 1)
<1> DEFINE i == next[n]
           m == argc - i
           all == n + 2 * m
           S == Showing(out)
           W(k) == IF k <= n THEN next[k] - 1 ELSE i - 1 + ((k - n) \div 2)
           w == [k \in 0..all |-> W(k)]
<1>0. Whole(argc, pieces, n, next, out)
  BY WholeIs
<1>1. i \in 1..argc /\ m \in Nat
  BY <1>0 DEF Whole
<1>2. Len(out) = all
  BY <1>0 DEF Whole
<1>3. \A k \in 1..n : next[k - 1] \in 1..argc /\ pieces[k] \in SomePiece
  BY <1>0 DEF Whole
<1>4. \A k \in 1..n : out[k] = PieceText(argc, pieces[k], next[k - 1])
  BY <1>0 DEF Whole
<1>5. \A j \in 1..m : out[n + (2 * j - 1)] = Text(" ")
  BY <1>0 DEF Whole
<1>6. \A j \in 1..m : out[n + 2 * j] = Inspected(i + j - 1)
  BY <1>0 DEF Whole
<1>7. /\ next \in [0..n -> 1..argc]
      /\ next[0] = 1
      /\ \A k \in 1..n :
            next[k] = IF pieces[k] \in Placeholder \ {"%%"} /\ next[k - 1] < argc
                      THEN next[k - 1] + 1 ELSE next[k - 1]
  BY DEF Formatted, Advances
<1> HIDE DEF i, m
<1>8. all \in Nat /\ n <= all
  BY <1>1
<1>9. \A k \in 1..all : k \in S <=> out[k].how # "text"
  BY <1>2 DEF Showing
<1> HIDE DEF S, all
<1>10. ASSUME NEW k \in 1..n
       PROVE  /\ k \in S <=> pieces[k] \in Placeholder \ {"%%"} /\ next[k - 1] < argc
              /\ k \in S => out[k].what = next[k - 1]
  <2> DEFINE piece == pieces[k]
             next1 == next[k - 1]
             part == PieceText(argc, piece, next1)
  <2>1. piece \in SomePiece /\ next1 \in 1..argc /\ out[k] = part
    BY <1>3, <1>4
  <2>2. k \in 1..all
    BY <1>8
  <2>3. k \in S <=> part.how # "text"
    BY <1>9, <2>1, <2>2
  <2> HIDE DEF piece, next1
  <2>4. /\ piece \notin Placeholder \/ next1 >= argc => part = Text(piece)
        /\ piece \in Placeholder \ {"%%"} /\ next1 < argc => part.how # "text" /\ part.what = next1
        /\ piece = "%%" /\ next1 < argc => part = Text("%")
    BY <2>1, PieceTextIs
  <2> HIDE DEF part
  <2>5. ~(next1 >= argc) <=> next1 < argc
    BY <2>1
  <2>6. (piece \notin Placeholder \/ next1 >= argc) => part.how = "text"
    BY <2>4, PartIs
  <2>7. (piece = "%%" /\ next1 < argc) => part.how = "text"
    BY <2>4, PartIs
  <2>8. part.how # "text" <=> piece \in Placeholder \ {"%%"} /\ next1 < argc
    BY <2>4, <2>5, <2>6, <2>7
  <2>9. part.how # "text" => part.what = next1
    BY <2>4, <2>8
  <2> QED
    BY <2>1, <2>3, <2>8, <2>9 DEF piece, next1
<1>11. ASSUME NEW j \in 1..m
       PROVE  /\ n + (2 * j - 1) \notin S
              /\ n + 2 * j \in S /\ out[n + 2 * j].what = i + j - 1
  <2>1. n + (2 * j - 1) \in 1..all /\ n + 2 * j \in 1..all
    BY <1>1 DEF all
  <2>2. out[n + (2 * j - 1)].how = "text"
    BY <1>5, PartIs
  <2>3. out[n + 2 * j].how = "inspect" /\ out[n + 2 * j].what = i + j - 1
    <3>1. out[n + 2 * j] = Inspected(i + j - 1)
      BY <1>6
    <3> QED
      BY <3>1, PartIs
  <2>4. out[n + 2 * j].how # "text"
    BY <2>3
  <2> QED
    BY <1>9, <2>1, <2>2, <2>3, <2>4
<1>12. ASSUME NEW k \in 1..all
       PROVE  \/ k \in 1..n
              \/ \E j \in 1..m : k = n + (2 * j - 1)
              \/ \E j \in 1..m : k = n + 2 * j
  <2> DEFINE h == (k - n + 1) \div 2
  <2>1. CASE k > n
    <3>1. h \in Nat /\ (k - n = 2 * h - 1 \/ k - n = 2 * h)
      BY <2>1
    <3>2. h \in 1..m /\ (k = n + (2 * h - 1) \/ k = n + 2 * h)
      <4> HIDE DEF h
      <4> QED
        BY <1>1, <2>1, <3>1 DEF all
    <3> HIDE DEF h
    <3> QED
      BY <3>2
  <2>2. CASE ~(k > n)
    BY <2>2
  <2> QED
    BY <2>1, <2>2
<1>13. w \in [0..all -> Nat] /\ w[0] = 0
  <2>1. \A k \in 0..n : next[k] - 1 \in Nat
    BY <1>1, <1>7
  <2>2. \A k \in 0..all : k > n => i - 1 + ((k - n) \div 2) \in Nat
    BY <1>1
  <2>3. \A k \in 0..all : W(k) \in Nat
    BY <1>8, <2>1, <2>2
  <2>4. 0 \in 0..all /\ W(0) = 0
    BY <1>7, <1>8
  <2> HIDE DEF W
  <2> QED
    BY <2>3, <2>4
<1>14. ASSUME NEW k \in 1..n PROVE w[k] = next[k] - 1 /\ w[k - 1] = next[k - 1] - 1
  <2>1. k \in 0..all /\ k - 1 \in 0..all /\ k <= n /\ k - 1 <= n
    BY <1>8
  <2> QED
    BY <2>1
<1>15. ASSUME NEW j \in 1..m
       PROVE  w[n + (2 * j - 1)] = i + j - 2 /\ w[n + 2 * j] = i + j - 1
  <2> DEFINE a == n + (2 * j - 1)
             b == n + 2 * j
  <2>1. a \in 0..all /\ b \in 0..all /\ ~(a <= n) /\ ~(b <= n) /\ a - n = 2 * j - 1 /\ b - n = 2 * j
    BY <1>1 DEF all
  <2> HIDE DEF a, b
  <2>2. w[a] = i - 1 + ((2 * j - 1) \div 2) /\ w[b] = i - 1 + ((2 * j) \div 2)
    BY <2>1
  <2>3. (2 * j - 1) \div 2 = j - 1 /\ (2 * j) \div 2 = j
    OBVIOUS
  <2> HIDE DEF w
  <2>4. i - 1 + (j - 1) = i + j - 2 /\ i - 1 + j = i + j - 1
    BY <1>1
  <2> QED
    BY <2>2, <2>3, <2>4 DEF a, b
<1>16. w[n] = i - 1
  BY <1>8 DEF i
<1> HIDE DEF w
<1>17. \A k \in 1..all : w[k] = w[k - 1] + (IF k \in S THEN 1 ELSE 0)
  <2> SUFFICES ASSUME NEW k \in 1..all PROVE w[k] = w[k - 1] + (IF k \in S THEN 1 ELSE 0)
    OBVIOUS
  <2>1. CASE k \in 1..n
    <3> DEFINE takes == pieces[k] \in Placeholder \ {"%%"} /\ next[k - 1] < argc
    <3>1. k \in S <=> takes
      BY <1>10, <2>1
    <3>2. next[k] = IF takes THEN next[k - 1] + 1 ELSE next[k - 1]
      BY <1>7, <2>1
    <3>3. next[k - 1] \in Nat
      BY <1>3, <2>1
    <3>4. w[k] = next[k] - 1 /\ w[k - 1] = next[k - 1] - 1
      BY <1>14, <2>1
    <3> HIDE DEF takes
    <3>5. CASE takes
      BY <3>1, <3>2, <3>3, <3>4, <3>5
    <3>6. CASE ~takes
      BY <3>1, <3>2, <3>3, <3>4, <3>6
    <3> QED
      BY <3>5, <3>6
  <2>2. ASSUME NEW j \in 1..m, k = n + (2 * j - 1)
        PROVE  w[k] = w[k - 1] + (IF k \in S THEN 1 ELSE 0)
    <3>1. k \notin S /\ w[k] = i + j - 2
      BY <1>11, <1>15, <2>2
    <3>2. CASE j = 1
      <4>1. k - 1 = n
        BY <2>2, <3>2
      <4> QED
        BY <1>1, <1>16, <3>1, <3>2, <4>1
    <3>3. CASE j # 1
      <4>1. j - 1 \in 1..m /\ k - 1 = n + 2 * (j - 1)
        BY <1>1, <2>2, <3>3
      <4>2. w[k - 1] = i + (j - 1) - 1
        BY <1>15, <4>1
      <4> QED
        BY <1>1, <3>1, <4>2
    <3> QED
      BY <3>2, <3>3
  <2>3. ASSUME NEW j \in 1..m, k = n + 2 * j
        PROVE  w[k] = w[k - 1] + (IF k \in S THEN 1 ELSE 0)
    <3>1. k - 1 = n + (2 * j - 1)
      BY <2>3
    <3>2. k \in S /\ w[k] = i + j - 1 /\ w[k - 1] = i + j - 2
      BY <1>11, <1>15, <2>3, <3>1
    <3> QED
      BY <1>1, <3>2
  <2> QED
    BY <1>12, <2>1, <2>2, <2>3
<1>18. \A k \in 0..all : Cardinality(UpTo(S, k)) = w[k]
  <2>1. all \in Nat /\ w[0] = 0
    BY <1>8, <1>13
  <2>2. w \in [0..all -> Nat]
    BY <1>13
  <2> QED
    <3>1. Counts(S, all, w)
      BY <1>17, <2>1, <2>2 DEF Counts
    <3> QED
      BY <2>1, <3>1, CountTo
<1>19. w[all] = argc - 1
  <2>1. CASE m = 0
    BY <1>1, <1>16, <2>1 DEF all, m
  <2>2. CASE m # 0
    <3>1. m \in 1..m /\ all = n + 2 * m
      BY <1>1, <2>2 DEF all
    <3>2. w[all] = i + m - 1
      BY <1>15, <3>1
    <3> QED
      BY <1>1, <3>2 DEF m
  <2> QED
    BY <2>1, <2>2
<1>20. Cardinality(UpTo(S, Len(out))) = argc - 1
  <2>1. all \in 0..all
    BY <1>8
  <2> QED
    BY <1>2, <1>18, <1>19, <2>1
<1>21. ASSUME NEW k \in S PROVE out[k].what = Cardinality(UpTo(S, k)) - 1 + 1
  <2>1. k \in 1..all /\ k \in 0..all
    BY <1>2 DEF S, Showing
  <2>2. Cardinality(UpTo(S, k)) = w[k]
    BY <1>18, <2>1
  <2>3. out[k].what = w[k] /\ w[k] \in Int
    <3>1. CASE k \in 1..n
      <4>1. out[k].what = next[k - 1] /\ next[k - 1] < argc
            /\ pieces[k] \in Placeholder \ {"%%"}
        BY <1>10, <3>1
      <4>2. next[k] = next[k - 1] + 1 /\ next[k - 1] \in Nat
        BY <1>3, <1>7, <3>1, <4>1
      <4> QED
        BY <1>14, <3>1, <4>1, <4>2
    <3>2. ASSUME NEW j \in 1..m, k = n + (2 * j - 1) PROVE FALSE
      BY <1>11, <3>2
    <3>3. ASSUME NEW j \in 1..m, k = n + 2 * j PROVE out[k].what = w[k] /\ w[k] \in Int
      <4>1. out[k].what = i + j - 1 /\ w[k] = i + j - 1
        BY <1>11, <1>15, <3>3
      <4> QED
        BY <1>1, <4>1
    <3> QED
      BY <1>12, <2>1, <3>1, <3>2, <3>3
  <2> QED
    BY <2>2, <2>3
<1> QED
  BY <1>20, <1>21 DEF UsesFrom, S

\* What there is no argument for stays, text too, and the rest of the text is the
\* separators and what stands for %%.
KeepsText(argc, pieces, n, out) ==
    LET taking(k) == {j \in 1..k : pieces[j] \in Placeholder \ {"%%"}}
        kept == {k \in 1..n : pieces[k] \in Placeholder => Cardinality(taking(k - 1)) + 1 >= argc}
    IN /\ \A k \in kept : out[k] = Text(pieces[k])
       /\ \A k \in (1..Len(out)) \ kept : out[k].how = "text" => out[k] \in {Text(" "), Text("%")}

LEMMA WholeKeeps ==
    ASSUME NEW argc \in Nat, argc # 0, NEW n \in Nat, NEW pieces \in [1..n -> SomePiece],
           NEW next, NEW text, Formatted(argc, pieces, n, next, text),
           NEW out, out = text \o Listed(next[n], argc)
    PROVE  KeepsText(argc, pieces, n, out)
<1> DEFINE i == next[n]
           m == argc - i
           T == Taking(pieces, n)
           taking(k) == {j \in 1..k : pieces[j] \in Placeholder \ {"%%"}}
           kept == {k \in 1..n : pieces[k] \in Placeholder => Cardinality(taking(k - 1)) + 1 >= argc}
<1>0. Whole(argc, pieces, n, next, out)
  BY WholeIs
<1>1. i \in 1..argc /\ m \in Nat
  BY <1>0 DEF Whole
<1>2. Len(out) = n + 2 * m
  BY <1>0 DEF Whole
<1>3. \A k \in 1..n : next[k - 1] \in 1..argc /\ pieces[k] \in SomePiece
  BY <1>0 DEF Whole
<1>4. \A k \in 1..n : out[k] = PieceText(argc, pieces[k], next[k - 1])
  BY <1>0 DEF Whole
<1>5. \A j \in 1..m : out[n + (2 * j - 1)] = Text(" ")
  BY <1>0 DEF Whole
<1>6. \A j \in 1..m : out[n + 2 * j] = Inspected(i + j - 1)
  BY <1>0 DEF Whole
<1> HIDE DEF i, m
<1>7. ASSUME NEW k \in 1..n
      PROVE  next[k - 1] >= argc <=> Cardinality(taking(k - 1)) + 1 >= argc
  <2> DEFINE c == Cardinality(UpTo(T, k - 1))
  <2>1. k - 1 \in 0..n
    OBVIOUS
  <2>2. Advances(argc, pieces, n, next)
    BY DEF Formatted
  <2>3. c \in Nat /\ next[k - 1] = IF c + 1 <= argc THEN c + 1 ELSE argc
    BY <2>1, <2>2, NextIs
  <2>4. UpTo(T, k - 1) = taking(k - 1)
    BY <2>1 DEF UpTo, Taking
  <2>5. c = Cardinality(taking(k - 1))
    BY <2>4
  <2> HIDE DEF c, taking
  <2> QED
    BY <2>3, <2>5
<1> HIDE DEF taking
<1>8. ASSUME NEW k \in 1..n
      PROVE  /\ k \in kept => out[k] = Text(pieces[k])
             /\ k \notin kept /\ out[k].how = "text" => out[k] = Text("%")
  <2> DEFINE piece == pieces[k]
             next1 == next[k - 1]
             part == PieceText(argc, piece, next1)
  <2>1. piece \in SomePiece /\ next1 \in 1..argc /\ out[k] = part
    BY <1>3, <1>4
  <2>2. k \in kept <=> piece \notin Placeholder \/ next1 >= argc
    BY <1>7
  <2> HIDE DEF piece, next1
  <2>3. /\ piece \notin Placeholder \/ next1 >= argc => part = Text(piece)
        /\ piece \in Placeholder \ {"%%"} /\ next1 < argc => part.how # "text" /\ part.what = next1
        /\ piece = "%%" /\ next1 < argc => part = Text("%")
    BY <2>1, PieceTextIs
  <2> HIDE DEF part, kept
  <2>4. ~(next1 >= argc) <=> next1 < argc
    BY <2>1
  <2>5. k \in kept => out[k] = Text(piece)
    BY <2>1, <2>2, <2>3
  <2>6. k \notin kept /\ out[k].how = "text" => out[k] = Text("%")
    BY <2>1, <2>2, <2>3, <2>4
  <2> QED
    BY <2>5, <2>6 DEF piece
<1>9. ASSUME NEW k \in (1..Len(out)) \ (1..n), out[k].how = "text" PROVE out[k] = Text(" ")
  <2> DEFINE h == (k - n + 1) \div 2
  <2>1. k \in Nat /\ k > n /\ k <= n + 2 * m
    BY <1>1, <1>2, <1>9
  <2>2. h \in Nat /\ (k - n = 2 * h - 1 \/ k - n = 2 * h)
    BY <2>1
  <2>3. h \in 1..m /\ (k = n + (2 * h - 1) \/ k = n + 2 * h)
    <3> HIDE DEF h
    <3> QED
      BY <1>1, <2>1, <2>2
  <2> HIDE DEF h
  <2>4. CASE k = n + (2 * h - 1)
    BY <1>5, <2>3, <2>4
  <2>5. CASE k = n + 2 * h
    <3>1. out[k] = Inspected(i + h - 1)
      BY <1>6, <2>3, <2>5
    <3>2. out[k].how = "inspect"
      BY <3>1, PartIs
    <3> QED
      BY <1>9, <3>2
  <2> QED
    BY <2>3, <2>4, <2>5
<1>10. kept \subseteq 1..n
  OBVIOUS
<1>11. KeepsText(argc, pieces, n, out)
       <=> /\ \A k \in kept : out[k] = Text(pieces[k])
           /\ \A k \in (1..Len(out)) \ kept :
                 out[k].how = "text" => out[k] \in {Text(" "), Text("%")}
  BY DEF KeepsText, taking
<1> HIDE DEF kept
<1>12. \A k \in kept : out[k] = Text(pieces[k])
  BY <1>8, <1>10
<1>13. ASSUME NEW k \in (1..Len(out)) \ kept, out[k].how = "text"
       PROVE  out[k] \in {Text(" "), Text("%")}
  <2>1. CASE k \in 1..n
    BY <1>8, <1>13, <2>1
  <2>2. CASE k \notin 1..n
    BY <1>9, <1>13, <2>2
  <2> QED
    BY <2>1, <2>2
<1> QED
  BY <1>11, <1>12, <1>13

LEMMA MethodIs ==
    ASSUME NEW argc \in Nat, argc # 0, NEW n \in Nat, NEW pieces \in [1..n -> SomePiece]
    PROVE  /\ method_format(argc, FALSE, pieces) = Tail(Listed(0, argc))
           /\ \E next, text : /\ Formatted(argc, pieces, n, next, text)
                              /\ method_format(argc, TRUE, pieces)
                                 = text \o Listed(next[n], argc)
<1>1. PICK next, text :
              /\ Advances(argc, pieces, n, next)
              /\ text \in Seq(Part) /\ Len(text) = n
              /\ \A k \in 1..n : text[k] = PieceText(argc, pieces[k], next[k - 1])
              /\ FoldLeft(LAMBDA d, p : Step(argc, d, p), StartOfFormat, pieces)
                 = [text |-> text, i |-> next[n]]
  BY FormattedIs
<1>2. Formatted(argc, pieces, n, next, text)
  BY <1>1 DEF Formatted
<1> DEFINE done == FoldLeft(LAMBDA d, p : Step(argc, d, p), StartOfFormat, pieces)
<1>3. method_format(argc, TRUE, pieces) = done.text \o Listed(done.i, argc)
  BY DEF method_format, StartOfFormat
<1>4. done = [text |-> text, i |-> next[n]]
  BY <1>1
<1> HIDE DEF done
<1>5. done.text = text /\ done.i = next[n]
  BY <1>4
<1>6. method_format(argc, FALSE, pieces) = Tail(Listed(0, argc))
  BY DEF method_format
<1> QED
  BY <1>2, <1>3, <1>5, <1>6

LEMMA FormatInit == Init => FormatUsesAll
<1> SUFFICES ASSUME Init, Is("format") PROVE FormatUsesAll
  BY DEF FormatUsesAll
<1> DEFINE argc == input.argc
           pieces == input.pieces
           isString == input.isString
           out == method_format(argc, isString, pieces)
           first == IF isString THEN 1 ELSE 0
           used(k) == {j \in 1..k : out[j].how # "text"}
<1>1. argc \in Nat /\ argc # 0 /\ isString \in BOOLEAN
  BY FormatInput
<1>2. PICK n \in Nat : pieces \in [1..n -> SomePiece]
  BY FormatInput
<1>3. DOMAIN pieces = 1..n
  BY <1>2
<1> HIDE DEF argc, pieces, isString
<1>4. PICK next, text : Formatted(argc, pieces, n, next, text)
                        /\ method_format(argc, TRUE, pieces) = text \o Listed(next[n], argc)
  BY <1>1, <1>2, MethodIs
<1>5. UsesFrom(out, argc, first) /\ (isString => KeepsText(argc, pieces, n, out))
  <2>1. CASE isString
    <3>1. out = text \o Listed(next[n], argc)
      BY <1>1, <1>4, <2>1
    <3>2. UsesFrom(out, argc, 1)
      BY <1>1, <1>2, <1>4, <3>1, WholeUses
    <3>3. KeepsText(argc, pieces, n, out)
      BY <1>1, <1>2, <1>4, <3>1, WholeKeeps
    <3> QED
      BY <2>1, <3>2, <3>3
  <2>2. CASE ~isString
    <3>1. out = Tail(Listed(0, argc))
      BY <1>1, <1>2, <2>2, MethodIs
    <3>2. UsesFrom(out, argc, 0)
      BY <1>1, <3>1, TailUses
    <3> QED
      BY <2>2, <3>2
  <2> QED
    BY <2>1, <2>2
<1>6. out \in Seq(Part)
  <2>1. CASE isString
    <3>1. text \in Seq(Part) /\ next[n] \in 1..argc
      BY <1>4 DEF Formatted, Advances
    <3>2. Listed(next[n], argc) \in Seq(Part)
      <4>1. next[n] \in Nat /\ next[n] <= argc
        BY <1>1, <3>1
      <4> QED
        BY <1>1, <4>1, ListedIs
    <3>3. out = text \o Listed(next[n], argc)
      BY <1>1, <1>4, <2>1
    <3>4. text \o Listed(next[n], argc) \in Seq(Part)
      BY <3>1, <3>2, ConcatIs
    <3> QED
      BY <3>3, <3>4
  <2>2. CASE ~isString
    <3>1. out = Tail(Listed(0, argc))
      BY <1>1, <1>2, <2>2, MethodIs
    <3>2. Listed(0, argc) \in Seq(Part) /\ Len(Listed(0, argc)) = 2 * (argc - 0)
      <4>1. 0 \in Nat /\ 0 <= argc
        BY <1>1
      <4> QED
        BY <1>1, <4>1, ListedIs
    <3>3. Listed(0, argc) # <<>>
      BY <1>1, <3>2
    <3> QED
      BY <3>1, <3>2, <3>3
  <2> QED
    BY <2>1, <2>2
<1> HIDE DEF out, first
<1>7. Len(out) \in Nat /\ DOMAIN out = 1..Len(out)
  BY <1>6
<1>8. \A k \in 0..Len(out) : used(k) = UpTo(Showing(out), k)
  BY <1>7 DEF UpTo, Showing
<1>9. used(Len(out)) = Showing(out)
  BY DEF Showing
<1>10. Cardinality(used(Len(out))) = argc - first
  <2>1. Cardinality(UpTo(Showing(out), Len(out))) = argc - first
    BY <1>5 DEF UsesFrom
  <2>2. Len(out) \in 0..Len(out)
    BY <1>7
  <2>3. used(Len(out)) = UpTo(Showing(out), Len(out))
    BY <1>8, <2>2
  <2> QED
    BY <2>1, <2>3
<1>11. \A k \in used(Len(out)) : out[k].what = Cardinality(used(k)) - 1 + first
  <2> SUFFICES ASSUME NEW k \in used(Len(out))
               PROVE  out[k].what = Cardinality(used(k)) - 1 + first
    OBVIOUS
  <2>1. k \in 0..Len(out) /\ k \in Showing(out)
    BY <1>7, <1>9
  <2>2. used(k) = UpTo(Showing(out), k)
    BY <1>8, <2>1
  <2> HIDE DEF used
  <2> QED
    BY <1>5, <2>1, <2>2 DEF UsesFrom
<1> QED
  BY <1>3, <1>5, <1>7, <1>10, <1>11
     DEF FormatUsesAll, KeepsText, out, first, argc, pieces, isString

\* Whatever is formatted, of however many pieces and with however many arguments, each
\* argument is used once, in order, and what there is none for stays as it is
\* (UtilModule::method_format).
THEOREM FormatCorrect == Spec => []FormatUsesAll
BY InputStays, FormatInit, PTL
=============================================================================
