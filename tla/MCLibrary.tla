------------------------------ MODULE MCLibrary ------------------------------
(***************************************************************************)
(* The pure functions of the library, BufferBytes, Paths, Util and Assert, *)
(* compared with what they should compute, for every small input: a state  *)
(* is an input.                                                            *)
(***************************************************************************)
EXTENDS BufferBytes, Paths, Util, Assert, FiniteSets, TLC

CONSTANTS MaxSize, MaxIndex, MaxChars, MaxNames, MaxPieces,
          MixedObjects, PlainObjects, zero, one, numeral

ASSUME LibraryAssumption ==
    /\ {MaxSize, MaxIndex, MaxChars, MaxNames, MaxPieces} \subseteq Nat
    /\ {MixedObjects, PlainObjects} \subseteq Nat \ {0, 1}
    /\ Primitive \cap Nat = {}

\* The number 1 and the string "1", and undefined and null.
Loose == {<<one, numeral>>, <<numeral, one>>, <<undefined, null>>, <<null, undefined>>}

VARIABLE input

Sizes == 0..MaxSize
Indices == -MaxIndex .. MaxIndex
Strings(n) == UNION {[1..k -> Byte] : k \in 0..n}
Chars == UNION {[1..k -> {0}] : k \in 1..3}
Digits == UNION {[1..k -> {<<0>>}] : k \in 0..2 * MaxSize}

BufferInput ==
    \/ input \in [op : {"slice", "text"}, size : Sizes, start : Indices, end : Indices]
    \/ input \in [op : {"copy"}, source : Sizes, target : Sizes, targetStart : Sizes,
                  sourceStart : Sizes, sourceEnd : 0..MaxIndex]
    \/ input \in [op : {"range"}, size : 0..MaxLength, offset : 0..MaxLength + 1,
                  length : 1..MaxLength + 1]
    \/ input \in [op : {"fill"}, value : Strings(2) \ {<<>>}, length : 0..2 * MaxSize]
    \/ input \in [op : {"utf8"}, chars : UNION {[1..k -> Chars] : k \in 0..MaxChars},
                  limit : 0..MaxIndex]
    \/ input \in [op : {"hex"}, chars : Digits]
    \/ input \in [op : {"compare"}, a : Strings(2), b : Strings(2), c : Strings(2)]
    \/ input \in [op : {"integer"}, width : {1, 2, 4}, signed : BOOLEAN,
                  v : -(Power(4) \div 2) .. Power(4), little : BOOLEAN]
    \/ input \in [op : {"float"}, width : {4}, bits : 0 .. Power(4) - 1, little : BOOLEAN]
    \/ input \in [op : {"float"}, width : {8}, bits : Infinities \cup
                  {Power(k) - 1 : k \in 0..8}, little : BOOLEAN]
    \/ input \in [op : {"json"}, bytes : Strings(2), charSigned : BOOLEAN]

SomeName == {Empty, Dot, DotDot, <<"a">>, <<"a", "x">>, <<"a", "b", "x">>}
SomePath == UNION {[1..k -> SomeName] : k \in 1..MaxNames}
Cwd == <<Empty, <<"u">>, <<"a">>>>

PathInput == input \in [op : {"path"}, p : SomePath, q : SomePath]

SomePiece == Placeholder \cup {"text"}

UtilInput ==
    input \in [op : {"format"}, argc : 1 .. MaxPieces + 1, isString : BOOLEAN,
               pieces : UNION {[1..k -> SomePiece] : k \in 0..MaxPieces}]

\* Objects with two properties, one of them "prototype", or a value; plain ones.
Own(keys, values) == UNION {[ks -> values] : ks \in SUBSET keys}

SomeObject(keys, values, classes) ==
    [class : classes, value : {0}, own : Own(keys, values)]

WithValue == [class : {"Date", "Buffer"}, value : {0, 1}, own : Own({}, {})]

AssertInput ==
    \/ input \in [op : {"deepEqual"}, a : {1}, b : {2} \cup Primitive,
                  heap : [1..MixedObjects ->
                             WithValue \cup SomeObject({"k", "prototype"},
                                 1..MixedObjects \cup Primitive, {"Object", "Arguments"})]]
    \/ input \in [op : {"deepEqual"}, a : {1}, b : {2},
                  heap : [1..PlainObjects ->
                             SomeObject({"k", "l"}, 1..PlainObjects \cup {null}, {"Object"})]]
    \/ input \in [op : {"throws"}, thrown : Primitive \cup {1}, expected : BOOLEAN,
                  matches : BOOLEAN]

Init == BufferInput \/ PathInput \/ UtilInput \/ AssertInput

Next == UNCHANGED input

Spec == Init /\ [][Next]_input

Is(op) == input.op = op

\* slice gives the bytes whose index is between start and end, a negative index
\* counting from the end; toString reads the same, but counts no index from there.
RangesExact ==
    LET size == input.size
        Begin == SliceStart(size, input.start, input.end)
        From(i) == IF i < 0 THEN size + i ELSE i
    IN /\ Is("slice") =>
             Begin .. Begin + SliceSize(size, input.start, input.end) - 1
             = {i \in 0..size - 1 : From(input.start) <= i /\ i < From(input.end)}
       /\ Is("text") =>
             TextSize(size, input.start, input.end)
             = Cardinality({i \in 0..size - 1 : input.start <= i /\ i < input.end})

\* copy copies as many bytes as there are between its bounds, in the source and in
\* the target (when it does not throw: sourceStart is in the source).
CopyExact ==
    Is("copy") /\ input.sourceStart <= input.source =>
        CopyCount(input.source, input.target, input.targetStart,
                  input.sourceStart, input.sourceEnd)
        = Cardinality({k \in 0..MaxIndex :
                          /\ input.sourceStart + k < input.sourceEnd
                          /\ input.sourceStart + k < input.source
                          /\ input.targetStart + k < input.target})

\* An integer can be read and written wherever all its bytes are in the Buffer, if
\* that is not one of the largest size.
RangeExact ==
    Is("range") /\ input.size < MaxLength =>
        (CheckRange(input.size, input.offset, input.length)
         <=> \A k \in 0..input.length - 1 : input.offset + k < input.size)

\* fill repeats its value from the start of the range to the end.
FillRepeats ==
    Is("fill") =>
        FillPattern(input.value, input.length)
        = [i \in 1..input.length |-> input.value[((i - 1) % Len(input.value)) + 1]]

\* write never writes a part of a UTF-8 character, nor leaves out one that would
\* still fit, and byteLength says how many bytes a string gives when there is room for
\* all: but for hex with an odd number of digits, where it is one less.
WholeCharacters ==
    /\ Is("utf8") =>
         LET Size(n) == Cardinality({place \in (1..n) \X (1..3) :
                                        place[2] <= Len(input.chars[place[1]])})
             written == Len(DecodeUtf8(input.chars, input.limit))
             all == Len(input.chars)
         IN /\ \E n \in 0..all : /\ written = Size(n) /\ written <= input.limit
                                 /\ n < all => Size(n + 1) > input.limit
            /\ ByteLength(input.chars, "utf8") = Size(all)
            /\ \A width \in 1..2 :
                  Len(DecodeFixed([i \in 1..all |-> <<0, 0>>], 2 * all, width))
                  = ByteLength(input.chars, IF width = 1 THEN "binary" ELSE "ucs2")
    /\ Is("hex") => LET n == Len(input.chars) IN
                    DecodeHexSize(n) = ByteLength(input.chars, "hex") + (n % 2)

\* compare is a total order, and equals is equality.
CompareIsOrder ==
    Is("compare") =>
        LET a == input.a  b == input.b  c == input.c IN
        /\ Compare(a, b) = - Compare(b, a)
        /\ Compare(a, b) = 0 <=> a = b
        /\ Compare(a, b) <= 0 /\ Compare(b, c) <= 0 => Compare(a, c) <= 0

\* A number a type can hold is read back as it was written, in both byte orders; one
\* it cannot hold is refused.  The bytes of a Buffer survive JSON, whatever the sign
\* of char.
NumbersRoundTrip ==
    /\ Is("integer") =>
         LET bytes == Encode(input.v, input.width, input.little)
             back  == Decode(bytes, input.signed, input.little)
         IN Fits(input.v, input.width, input.signed) <=> back = input.v
    /\ Is("float") =>
         LET bytes == EncodeFloat(input.bits, input.width, input.little)
         IN FloatFits(input.bits) => DecodeFloat(bytes, input.little) = input.bits
    /\ Is("json") =>
         FromJSON(ToJSON(input.bytes, input.charSigned)) = input.bytes

\* The functions of path agree with each other: what is normalised stays so; resolve
\* gives a normalised absolute path, join the same place; relative leads from one
\* place to the other (unless one is above the root); dirname and basename name the
\* path again, and so do the name and its extension.
PathsAgree ==
    Is("path") =>
        LET p == input.p  q == input.q  n == Last(p)
            Absolute(x) == Resolve(<<x>>, Cwd)
            Inside(x) == DotDot \notin Range(Absolute(x))
        IN /\ Normalize(Normalize(p)) = Normalize(p)
           /\ IsAbsolute(Absolute(p)) /\ Normalize(Absolute(p)) = Absolute(p)
           /\ p # NoString /\ ~IsAbsolute(q) =>
                Resolve(<<p, q>>, Cwd) = Absolute(Join(<<p, q>>))
           /\ IsAbsolute(q) =>
                /\ Resolve(<<p, q>>, Cwd) = Absolute(q)
                /\ Inside(p) /\ Inside(q) =>
                     Resolve(<<p, Relative(p, q, Cwd)>>, Cwd) = Absolute(q)
           /\ p # NoString /\ n \notin {Dot, DotDot} =>
                /\ Resolve(<<Dirname(p, Cwd), <<Basename(p, Empty)>>>>, Cwd) = Absolute(p)
                /\ LET ext == Extname(p) IN
                   ext # Empty => Basename(p, <<"">> \o ext) \o ext = n

\* format uses each argument once, in order, and keeps the text and the placeholders
\* it has no arguments for, all where they are.
FormatUsesAll ==
    Is("format") =>
        LET pieces == input.pieces
            out == method_format(input.argc, input.isString, pieces)
            first == IF input.isString THEN 1 ELSE 0
            used(n) == {k \in 1..n : out[k].how # "text"}
            taking(n) == {k \in 1..n : pieces[k] \in Placeholder \ {"%%"}}
            kept == {k \in DOMAIN pieces : pieces[k] \in Placeholder =>
                                              Cardinality(taking(k - 1)) + 1 >= input.argc}
        IN /\ Cardinality(used(Len(out))) = input.argc - first
           /\ \A k \in used(Len(out)) : out[k].what = Cardinality(used(k)) - 1 + first
           /\ input.isString =>
                /\ \A k \in kept : out[k] = Text(pieces[k])
                /\ \A k \in DOMAIN out \ kept : out[k].how = "text" =>
                                                  out[k] \in {Text(" "), Text("%")}

\* deepEqual holds of values that look the same, however far one looks, whichever of
\* the two comes first, and its recursion ends but for objects that contain themselves.
\* Where two objects of different classes are met (a Date and a plain object, say),
\* only the last two are claimed: the source compares the properties of such a pair,
\* not what they are (arguments objects apart).  throws and doesNotThrow
\* pass when the block throws what it should, or nothing, and never lose an exception
\* (one that is false counts as none).
AssertionsExact ==
    /\ Is("deepEqual") =>
         LET heap == input.heap
             Value == Primitive \cup DOMAIN heap
             SameOutside(a, b) ==
                 \/ a = b
                 \/ /\ {a, b} \subseteq Primitive \ {null} /\ <<a, b>> \in LooselyEqual
                 \/ /\ {a, b} \cap Primitive = {}
                    /\ heap[a].class = heap[b].class /\ heap[a].value = heap[b].value
                    /\ DOMAIN heap[a].own = DOMAIN heap[b].own
                    /\ PrototypeOf(heap, a) = PrototypeOf(heap, b)
             Inner(a, b) == IF a = b \/ {a, b} \cap Primitive # {} THEN {}
                            ELSE {<<heap[a].own[k], heap[b].own[k]>> : k \in DOMAIN heap[a].own}
             n == Cardinality((DOMAIN heap) \X (DOMAIN heap))
             seen[i \in 0..n] ==
                 IF i = 0 THEN {<<input.a, input.b>>}
                 ELSE seen[i - 1] \cup UNION {Inner(p[1], p[2]) : p \in
                          {p \in seen[i - 1] : SameOutside(p[1], p[2])}}
             pairs == seen[n]
             circular == \E S \in SUBSET DOMAIN heap :
                            S # {} /\ \A x \in S : Range(heap[x].own) \cap S # {}
             result == AssertDeepEqual(heap, <<"k", "l", "prototype">>, input.a, input.b)
             unlike == \E p \in pairs : /\ {p[1], p[2]} \cap Primitive = {}
                                        /\ heap[p[1]].class # heap[p[2]].class
         IN /\ result = "overflow" => circular
            /\ ~unlike /\ result # "overflow" =>
                 (result = "passes" <=> \A p \in pairs : SameOutside(p[1], p[2]))
            /\ result = AssertDeepEqual(heap, <<"k", "l", "prototype">>, input.b, input.a)
    /\ Is("throws") =>
         LET Try(should) == Throws(should, input.thrown, input.expected, input.matches)
         IN /\ Try(TRUE) = "passes" <=>
                  IsTrue(input.thrown) /\ (input.expected => input.matches)
            /\ Try(FALSE) = "passes" <=> ~IsTrue(input.thrown)
            /\ Try(TRUE) = "fails" <=> ~IsTrue(input.thrown)
=============================================================================
