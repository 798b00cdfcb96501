\* Bytes of two bits, Buffers of up to four bytes; floats of eight bits, of which two
\* are infinite; paths of up to three names; formats of up to three pieces;
\* deepEqual of two objects of all kinds and of three plain ones.
SPECIFICATION Spec
CONSTANTS
    Base = 4
    MaxLength = 5
    Infinities = {112, 240}
    MaxSize = 4
    MaxIndex = 6
    MaxChars = 3
    MaxNames = 3
    MaxPieces = 3
    MixedObjects = 2
    PlainObjects = 3
    undefined = undefined
    null = null
    zero = zero
    one = one
    numeral = numeral
    Primitive = {undefined, null, zero, one, numeral}
    Truthy = {one, numeral}
    LooselyEqual <- Loose
INVARIANT RangesExact
INVARIANT CopyExact
INVARIANT RangeExact
INVARIANT FillRepeats
INVARIANT WholeCharacters
INVARIANT CompareIsOrder
INVARIANT NumbersRoundTrip
INVARIANT PathsAgree
INVARIANT FormatUsesAll
 
