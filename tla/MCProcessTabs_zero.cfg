\* The engine's first process has the number the code takes for none.  Each of the
\* statements is violated; TLC shows the first it meets.  Comment the others out
\* to see one.
SPECIFICATION Spec
CONSTANTS
    Ids = {0, 1}
    MaxQueue = 2
INVARIANTS
    PanesAreCurrent
PROPERTIES
    FirstTabServed
