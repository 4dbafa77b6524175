\* A plugin that restarts the target from Odbg_Paused.
SPECIFICATION Spec
CONSTANTS
    Verbs <- VerbsAll
    PluginVerbs <- PluginRestart
    MaxProcs = 1
    MaxBreakins = 1
INVARIANT
    SymbolsOnlyAfterPause
