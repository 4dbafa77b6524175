\* One process, no edits: what a pause leads to under fairness; 0x80000003 is
\* not ignored.
SPECIFICATION FairSpec
CONSTANTS
    Verbs <- VerbsLive
    PluginVerbs <- PluginLive
    MaxProcs = 1
    MaxBreakins = 2
PROPERTIES
    PauseTakesEffect
    EntryRunOnlyFromLoader
