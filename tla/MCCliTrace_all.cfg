\* Every option, recursion, two threads, launch and attach.  The trace ends.
SPECIFICATION Spec
CONSTANTS
    t1 = t1
    t2 = t2
    once = once
    again = again
    either = either
    Threads <- ThreadsMC
    NoThread = NoThread
    NoSite = NoSite
    Sites <- SitesMC
    Traced <- TracedMC
    Untraced <- UntracedMC
    MaxDepth = 3
    MaxProcs = 2
    Budgets = {0, 1, 3}
SYMMETRY SymThreads
CHECK_DEADLOCK FALSE
INVARIANTS
    TypeOK
    EveryCallRecorded
    ReturnMatchesCall
    NoChildAbandoned
