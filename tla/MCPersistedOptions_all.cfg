SPECIFICATION Spec
CONSTANTS
    Options <- Codes
    Seeded <- Seeds
    Entries <- Path
    DefaultPath <- Cache
    Paths <- Given
    Targets = {t1, t2}
    Lines = {"(none)", "a", "b"}
    Values <- SeveralLines
    MaxCommands = 2
SYMMETRY SymmetricTargets
INVARIANT
    SettingsComeBack
