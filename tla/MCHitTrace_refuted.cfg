\* Three chosen programs; a trace restarted, a fault in a run, a user breakpoint at an
\* armed address, ht off while the target runs.
\* Each of the statements is violated; TLC shows the first it meets.  Comment the
\* others out to see one.
SPECIFICATION Spec
CONSTANTS
    N = 3
    MaxHeld = 2
    MaxSweep <- LongSweep
    UserAddrs <- UserAt2
    Losses <- FaultOrReseed
    Programs <- Chosen3
INVARIANTS
    CoverageAfterRestart
    SweepSoundUnderFaults
    ScaffoldingIsOwned
PROPERTIES
    UserStopSurfaces
    ScaffoldingNeverSurfaces
