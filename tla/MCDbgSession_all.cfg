\* Every verb and job, from users and from plugins, two processes.
SPECIFICATION Spec
CONSTANTS
    Verbs <- VerbsAll
    PluginVerbs <- PluginAll
    MaxProcs = 2
    MaxBreakins = 3
INVARIANTS
    TypeOK
    MirrorFaithful
    TraceEndsWithSession
    SymbolsAfterFirstPause
PROPERTY
    EditsAreSeamless
