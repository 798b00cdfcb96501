\* Every timer function in the binary; a program that clears its timers can hang.
SPECIFICATION Spec
CONSTANTS
    Callback = {c1, c2, c3}
    None = None
    ExitCode = {7}
    Api <- ApiTimers
    Host = "binary"
    MaxDepth = 0
SYMMETRY Symmetry
CHECK_DEADLOCK FALSE
INVARIANT TypeOK
INVARIANT TimersMatchCallbacks
INVARIANT OneShotRunsOnce
INVARIANT ClearedTimeoutNeverRuns
PROPERTY PromiseKept
