\* A script that clears its last timer in a nextTick callback.
SPECIFICATION Spec
CONSTANTS
    Callback = {c1, c2, c3}
    None = None
    ExitCode = {7}
    Api <- ApiTimeouts
    Host = "binary"
    MaxDepth = 0
CHECK_DEADLOCK FALSE
INVARIANT NoHang
