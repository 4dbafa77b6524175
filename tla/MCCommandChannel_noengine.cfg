\* No engine: what becomes of a call.
SPECIFICATION FairSpec
CONSTANTS
    pipe = pipe
    plugin = plugin
    Callers <- OneCaller
    MaxCalls = 1
    MaxPosts = 0
    MaxDepth = 1
    InitMayFail = TRUE
    MayQuit = FALSE
CHECK_DEADLOCK FALSE
PROPERTY
    EveryCallReturns
