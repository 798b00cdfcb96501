\* Scripts that clear nothing, in the binary: nothing is left waiting.
SPECIFICATION FairSpec
CONSTANTS
    Callback = {c1, c2}
    None = None
    ExitCode = {7}
    Api <- ApiNoClear
    Host = "binary"
    MaxDepth = 0
INVARIANT NoHang
PROPERTY IdleQuits
PROPERTY TimeoutsFire
PROPERTY TicksRun
PROPERTY ExitHonoured
