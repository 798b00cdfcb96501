\* The plugin, with scripts that call the global require.
SPECIFICATION Spec
CONSTANTS
    Callback = {c1, c2}
    None = None
    ExitCode = {7}
    Api <- ApiRequire
    Host = "plugin"
    MaxDepth = 6
PROPERTY PromiseKept
