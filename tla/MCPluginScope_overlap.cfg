\* Both threads call plugins, and plugins one another, two deep.
SPECIFICATION Spec
CONSTANTS
    Plugins <- Names
    Threads <- WorkerAndGui
    MaxDepth = 2
INVARIANTS
    TypeOK
    OnlyOverlapMisnames
