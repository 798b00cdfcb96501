\* Two Buffers and the slice on the stack; objects are destructed or not.
SPECIFICATION Spec
CONSTANTS
    BufferId = {b1, b2}
    Block = {k1, k2}
    Null = Null
    None = None
    Base = 2
    MaxLength = 5
    MaxInt = 6
    Infinities = {}
    FloatWidth = {4}
    Arg <- Args
    Datum <- Data
    Width = {2}
    Destructs = {TRUE, FALSE}
    MaxLeaks = 1
SYMMETRY Symmetry
CHECK_DEADLOCK FALSE
INVARIANT TypeOK
INVARIANT InBounds
INVARIANT CountsExact
PROPERTY ViewsKept
