\* Keys hurry, bytes are written where a pane stands, registers edited, formats
\* chosen at an address that starts with a letter.
\* Each of the statements is violated; TLC shows the first it meets.  Comment the
\* others out to see one.
SPECIFICATION Spec
CONSTANTS
    MaxAddr = 6
    Lettered = {5}
    Rsp = 5
    Window = 3
    UserMax = 6
    MaxRegions = 8
    Users <- Everyone
    MaxJumps = 2
INVARIANTS
    PanesShowWrites
    RegsMirrored
PROPERTIES
    JumpsNotRecorded
    FormatKeepsAddress
