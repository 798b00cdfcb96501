\* Two files that require each other.
SPECIFICATION Spec
CONSTANTS
    Place <- Places
    FirstDisk <- Tree0
    FirstCwd <- App0
    Request <- MainOnly
    Requests <- Cycle
    Meanwhile <- Nobody
    Native <- NativeRequests
    Bundled = {}
    Missing = Missing
    Moves = {}
    Dirs = {}
    None = None
    Hosts = {"binary"}
    Assigning = {}
    MaxObjects = 3
    MaxExports = 1
CHECK_DEADLOCK FALSE
INVARIANT CacheAssertion
