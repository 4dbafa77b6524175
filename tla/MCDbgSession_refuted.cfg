\* Edits on a running target, children with childdbg switched off, 0x80000003 ignored.
\* Each of the statements is violated; TLC shows the first it meets.  Comment the
\* others out to see one.
SPECIFICATION Spec
CONSTANTS
    Verbs <- VerbsRefuted
    PluginVerbs <- NoVerbs
    MaxProcs = 2
    MaxBreakins = 1
INVARIANT
    EditInBreakState
PROPERTIES
    EditResumesOnlyItself
    NoUnaskedBreakIn
    SurvivorsKept
    EntryRunOnlyFromLoader
