\* A hardware breakpoint whose parameters are refused, a deferred one that cannot be
\* set or is cleared before its module loads, a step-out breakpoint that is hit.
\* Each of the statements is violated; TLC shows the first it meets.  Comment the
\* others out to see one.
SPECIFICATION Spec
CONSTANTS
    i1 = i1
    i2 = i2
    i3 = i3
    sym = sym
    hidden = hidden
    entry = entry
    ret = ret
    Symbols <- SymbolsMC
    Exports <- ExportsMC
    Addrs <- AddrsMC
    Entry = entry
    Ids <- IdsMC
    NoId = NoId
    Verbs <- VerbsOne
    Fails = {"data", "module"}
    MaxSessions = 1
CHECK_DEADLOCK FALSE
INVARIANTS
    RowsShowUsers
    EveryNameArmed
PROPERTIES
    ArmsOnlyWanted
    StepOutIsOneShot
