\* Every end of the worker (no engine, a quit); plugins call inline three deep.
SPECIFICATION FairSpec
CONSTANTS
    pipe = pipe
    plugin = plugin
    Callers <- BothCallers
    MaxCalls = 2
    MaxPosts = 3
    MaxDepth = 3
    InitMayFail = TRUE
    MayQuit = TRUE
CHECK_DEADLOCK FALSE
INVARIANTS
    TypeOK
    PromiseAlive
    CallbacksUnlocked
PROPERTIES
    ExecutesInOrder
    ExecutesEverything
