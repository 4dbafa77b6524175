\* Three processes, the engine's first among them, over any number of sessions.
SPECIFICATION Spec
CONSTANTS
    Ids = {0, 1, 2}
    MaxQueue = 2
INVARIANTS
    TypeOK
    ShownIsCurrent
    TabsMatchLive
PROPERTY SelectionServed
