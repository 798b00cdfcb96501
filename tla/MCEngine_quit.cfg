\* nextTick called in a nextTick callback.
SPECIFICATION Spec
CONSTANTS
    Callback = {c1, c2}
    None = None
    ExitCode = {7}
    Api <- ApiTicks
    Host = "binary"
    MaxDepth = 0
INVARIANT QuitMeansNothingPending
