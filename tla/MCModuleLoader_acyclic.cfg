\* Files that do not require each other in a circle, in both programs.
SPECIFICATION Spec
CONSTANTS
    Place <- Places
    FirstDisk <- Tree0
    FirstCwd <- App0
    Request <- HostRequests
    Requests <- Acyclic
    Meanwhile <- Beside
    Native <- NativeRequests
    Bundled <- BundledRequests
    Missing = Missing
    Moves <- MovesData
    Dirs <- SomeDirs
    None = None
    Hosts = {"binary", "plugin"}
    Assigning <- Indexes
    MaxObjects = 6
    MaxExports = 1
CHECK_DEADLOCK FALSE
INVARIANT TypeOK
INVARIANT CacheAssertion
INVARIANT OneObjectPerFile
INVARIANT ParentsAndChildrenAgree
INVARIANT FailedNeverGiven
PROPERTY AnswersKept
