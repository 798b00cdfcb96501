\* Listeners do all but remove all listeners.
SPECIFICATION Spec
CONSTANTS
    Type = {"error", "newListener", "removeListener"}
    Plain = {a, b}
    Wrapper = {g1}
    None = None
    ArrayId = {1, 2, 3, 4}
    Inside <- InsideSome
    MaxCalls = 5
SYMMETRY Symmetry
CHECK_DEADLOCK FALSE
INVARIANT TypeOK
INVARIANT OnceFiresOnce
INVARIANT DrainFinds
PROPERTY ListsKept
