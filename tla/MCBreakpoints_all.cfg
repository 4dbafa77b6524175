\* Two sessions, every verb and every event.
SPECIFICATION Spec
CONSTANTS
    i1 = i1
    i2 = i2
    i3 = i3
    sym = sym
    hidden = hidden
    entry = entry
    ret = ret
    Symbols <- SymbolsMC
    Exports <- ExportsMC
    Addrs <- OneAddr
    Entry = entry
    Ids <- IdsMC
    NoId = NoId
    Verbs <- VerbsOne
    Fails = {"code", "module"}
    MaxSessions = 2
SYMMETRY SymmetricIds
CHECK_DEADLOCK FALSE
INVARIANTS
    TypeOK
    InternalTracked
    UserBpsKept
    RowsShowUsers
    DeferredArmed
