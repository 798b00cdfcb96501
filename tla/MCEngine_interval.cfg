\* A script that clears its interval.
SPECIFICATION Spec
CONSTANTS
    Callback = {c1}
    None = None
    ExitCode = {7}
    Api <- ApiInterval
    Host = "binary"
    MaxDepth = 0
CHECK_DEADLOCK FALSE
PROPERTY ClearedIntervalStaysSilent
