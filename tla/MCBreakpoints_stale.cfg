\* A target killed on the way to its entry point, and a second session.
SPECIFICATION Spec
CONSTANTS
    i1 = i1
    i2 = i2
    i3 = i3
    sym = sym
    hidden = hidden
    entry = entry
    ret = ret
    Symbols <- OneSymbol
    Exports <- OneSymbol
    Addrs <- AddrsMC
    Entry = entry
    Ids <- IdsMC
    NoId = NoId
    Verbs <- VerbsKill
    Fails = {}
    MaxSessions = 2
CHECK_DEADLOCK FALSE
INVARIANT UserBpsKeptAlways
