----------------------------- MODULE BufferBytes -----------------------------
(***************************************************************************)
(* The arithmetic of Buffers (src/nodeqml/types/buffer.cpp): the ranges    *)
(* scripts ask for, and the bytes that are written to memory, as operators *)
(* on numbers and sequences of bytes.  Module Buffer puts the bytes in     *)
(* memory that Buffers share.                                              *)
(***************************************************************************)
EXTENDS Integers, Sequences

CONSTANTS
    Base,       \* the number of values of a byte: 256
    MaxLength,  \* kMaxLength
    Infinities  \* the bits of the floats and doubles that are infinite

ASSUME BytesAssumption ==
    /\ Base \in Nat \ {0, 1}
    /\ MaxLength \in Nat

ASSUME EvenAssumption == Base % 2 = 0

Byte == 0 .. Base - 1

Least(a, b) == IF a <= b THEN a ELSE b
Greatest(a, b) == IF a >= b THEN a ELSE b

\* Mutant: all of it.
ToByteAll(v) == v

\* What is kept of a number: "toInt32() & 0xff", or its conversion to a char.
ToByte(v) == v % Base

-----------------------------------------------------------------------------
(* Ranges. *)

\* Mutant: a negative index is not held at 0.
IndexUnheld(size, i) == IF i < 0 THEN size + i ELSE Least(i, size)

\* An index slice is given: negative ones count from the end.
Index(size, i) == IF i < 0 THEN Greatest(size + i, 0) ELSE Least(i, size)

\* slice: where the new Buffer begins in the old one, and its size.
SliceStart(size, start, end) == Index(size, start)

SliceSize(size, start, end) ==
    Greatest(Index(size, end), Index(size, start)) - Index(size, start)

\* toString: negative indices are not counted from the end.
TextSize(size, start, end) ==
    LET from == Greatest(Least(start, size), 0)
        to   == Least(end, size)
    IN IF to <= from THEN 0 ELSE to - from

\* Mutant: what is left of the source is forgotten.
CopyCountTarget(source, target, targetStart, sourceStart, sourceEnd) ==
    IF targetStart >= target \/ sourceStart >= sourceEnd THEN 0
    ELSE Least(sourceEnd - sourceStart, target - targetStart)

\* copy: how many bytes are copied, unless it throws.
CopyCount(source, target, targetStart, sourceStart, sourceEnd) ==
    LET room == target - targetStart
        end  == IF sourceEnd - sourceStart > room THEN sourceStart + room
                ELSE sourceEnd
    IN IF targetStart >= target \/ sourceStart >= sourceEnd THEN 0
       ELSE Least(Least(end - sourceStart, room), source - sourceStart)

\* Mutant: the last byte cannot be reached.
CheckRangeShort(size, offset, length) ==
    offset + length < MaxLength /\ offset + length < size

\* checkRange, for an offset and a length that are not negative.
CheckRange(size, offset, length) ==
    /\ offset < MaxLength /\ length < MaxLength
    /\ offset + length < MaxLength
    /\ offset + length <= size

-----------------------------------------------------------------------------
(* Bytes. *)

\* Mutant: the rest is copied from what was written last.
FillRestLast(written, length) ==
    SubSeq(written, 2 * Len(written) - length + 1, Len(written))

\* The last memcpy of fill: from the start again.
FillRest(written, length) == SubSeq(written, 1, length - Len(written))

\* fill with a string: the bytes from its start are doubled while twice as many
\* fit.  With an empty value the loop would not end.
FillPattern(value, length) ==
    LET doubled[written \in Seq(Byte)] ==
            IF Len(written) < length - Len(written)
            THEN doubled[written \o written] ELSE written
        most == doubled[value]
    IN IF Len(value) >= length THEN SubSeq(value, 1, length)
       ELSE most \o FillRest(most, length)

\* Mutant: the character that does not fit any more is passed over.
DecodeSkipping(chars, limit) ==
    LET taken[n \in 0..Len(chars)] ==
            IF n = 0 THEN <<>>
            ELSE IF Len(taken[n - 1]) + Len(chars[n]) > limit THEN taken[n - 1]
            ELSE taken[n - 1] \o chars[n]
    IN taken[Len(chars)]

\* decodeString for UTF-8: characters as long as they fit.
DecodeUtf8(chars, limit) ==
    LET size[n \in 0..Len(chars)] ==
            IF n = 0 THEN 0 ELSE size[n - 1] + Len(chars[n])
        taken[n \in 0..Len(chars)] ==
            IF n = 0 THEN <<>>
            ELSE IF size[n] > limit THEN taken[n - 1]
            ELSE taken[n - 1] \o chars[n]
    IN taken[Len(chars)]

\* The other encodings have one size for all characters: one or two bytes; base64
\* and hex are decoded and cut.
DecodeFixed(chars, limit, width) ==
    LET count == Least(Len(chars), limit \div width)
    IN [i \in 1 .. count * width |->
           chars[((i - 1) \div width) + 1][((i - 1) % width) + 1]]

\* What hex digits are decoded to: half of one too many is a byte.
DecodeHexSize(digits) == (digits + 1) \div 2

\* Mutant: characters are counted.
ByteLengthChars(chars, encoding) == Len(chars)

\* byteLength; chars are the characters' bytes in UTF-8, or hex digits.
ByteLength(chars, encoding) ==
    LET size[n \in 0..Len(chars)] ==
            IF n = 0 THEN 0 ELSE size[n - 1] + Len(chars[n])
    IN CASE encoding = "binary" -> Len(chars)
         [] encoding = "ucs2" -> 2 * Len(chars)
         [] encoding = "hex" -> Len(chars) \div 2
         [] encoding = "utf8" -> size[Len(chars)]

\* Mutant: the sizes are not looked at.
CompareCommon(a, b) ==
    LET differ == {i \in 1 .. Least(Len(a), Len(b)) : a[i] # b[i]}
        first  == CHOOSE i \in differ : \A j \in differ : i <= j
    IN IF differ = {} THEN 0 ELSE IF a[first] > b[first] THEN 1 ELSE -1

\* compare: memcmp of what both have, then the sizes.
Compare(a, b) ==
    LET differ == {i \in 1 .. Least(Len(a), Len(b)) : a[i] # b[i]}
        first  == CHOOSE i \in differ : \A j \in differ : i <= j
    IN IF differ # {} THEN IF a[first] > b[first] THEN 1 ELSE -1
       ELSE IF Len(a) > Len(b) THEN 1 ELSE IF Len(a) < Len(b) THEN -1 ELSE 0

-----------------------------------------------------------------------------
(* Integers of 1, 2 or 4 bytes. *)

\* A power of Base.
Power(n) ==
    LET power[i \in 0..n] == IF i = 0 THEN 1 ELSE power[i - 1] * Base
    IN power[n]

\* The value is between the limits of the type.
Fits(v, width, signed) ==
    IF signed THEN - (Power(width) \div 2) <= v /\ v < Power(width) \div 2
    ELSE 0 <= v /\ v < Power(width)

\* qToLittleEndian and qToBigEndian.
Digit(v, i) == (v \div Power(i)) % Base

Encode(v, width, little) ==
    [i \in 1..width |-> Digit(v, IF little THEN i - 1 ELSE width - i)]

\* Mutant: the type of the result is the unsigned one.
AsUnsigned(u, width, signed) == u

\* The bits of a signed type, read as one.
AsType(u, width, signed) ==
    IF signed /\ u >= Power(width) \div 2 THEN u - Power(width) ELSE u

\* qFromLittleEndian and qFromBigEndian, as the type that is asked for.
Decode(bytes, signed, little) ==
    LET width == Len(bytes)
        value[n \in 0..width] ==
            IF n = 0 THEN 0
            ELSE value[n - 1] * Base + bytes[IF little THEN width - n + 1 ELSE n]
    IN AsType(value[width], width, signed)

\* A float or double is given by its bits.  Infinities are out of bounds, NaNs, for
\* which no comparison holds, are not.
FloatFits(bits) == bits \notin Infinities

EncodeFloat(bits, width, little) == Encode(bits, width, little)

DecodeFloat(bytes, little) == Decode(bytes, FALSE, little)

\* toJSON, in a build whose char is signed or not, and what the constructor makes of
\* its array.
ToJSON(bytes, charSigned) == [i \in DOMAIN bytes |-> AsType(bytes[i], 1, charSigned)]

FromJSON(numbers) == [i \in DOMAIN numbers |-> ToByte(numbers[i])]
=============================================================================
