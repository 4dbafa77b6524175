\* odbg is left before the worker has caught up, or with the seeded code taken off
\* the list, or a plugin stores two lines; or it is killed after a target was opened.
\* Each of the statements is violated; TLC shows the first it meets.  Comment the
\* others out to see one.
SPECIFICATION Spec
CONSTANTS
    Options <- Codes
    Seeded <- Seeds
    Entries <- Path
    DefaultPath <- Cache
    Paths <- Given
    Targets = {t1, t2}
    Lines = {"(none)", "a", "b"}
    Values <- SeveralLines
    MaxCommands = 2
INVARIANTS
    ValuesComeBack
PROPERTIES
    SavedNotForgotten
    RemovedStaysRemoved
    TargetSurvives
