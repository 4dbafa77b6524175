\* With -stepout the loop waits without resuming the target, and takes for a return
\* of the function what another thread or another callee does at its return address.
\* Each of the statements is violated; TLC shows the first it meets.  Comment the
\* other out to see one.
SPECIFICATION Spec
CONSTANTS
    t1 = t1
    t2 = t2
    once = once
    again = again
    either = either
    Threads <- ThreadsMC
    NoThread = NoThread
    NoSite = NoSite
    Sites <- SitesMC
    Traced <- TracedMC
    Untraced <- UntracedMC
    MaxDepth = 2
    MaxProcs = 2
    Budgets = {0, 1, 3}
CHECK_DEADLOCK FALSE
INVARIANTS
    WaitsOnlyRunning
    ReturnOfTheFunction
