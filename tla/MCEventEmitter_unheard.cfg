\* A listener of removeListener adds a listener while all are removed.
SPECIFICATION Spec
CONSTANTS
    Type = {"message", "newListener", "removeListener"}
    Plain = {a}
    Wrapper = {}
    None = None
    ArrayId = {1, 2, 3, 4}
    Inside <- InsideSome
    MaxCalls = 4
CHECK_DEADLOCK FALSE
INVARIANT AllHeard
