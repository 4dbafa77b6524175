\* Users who follow addresses back and forth, search and patch, map, and edit
\* registers; one of the addresses they name starts with a letter.
SPECIFICATION FairSpec
CONSTANTS
    MaxAddr = 6
    Lettered = {5}
    Rsp = 5
    Window = 3
    UserMax = 6
    MaxRegions = 8
    Users <- Everyone
    MaxJumps = 2
INVARIANTS
    TypeOK
    HistoryFollows
    PanesShowMemory
    SearchShowsAll
    MapListsAll
PROPERTIES
    JumpsNotRecordedUnhurried
    JumpsArrive
