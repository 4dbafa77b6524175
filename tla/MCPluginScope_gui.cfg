\* The GUI thread runs a menu action while the worker is in a callback.
SPECIFICATION Spec
CONSTANTS
    Plugins <- Names
    Threads <- WorkerAndGui
    MaxDepth = 1
INVARIANT
    SettingsApart
