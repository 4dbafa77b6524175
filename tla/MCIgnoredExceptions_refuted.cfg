\* Two clicks on Remove before the page is drawn again; catchexc of a code that a
\* range covers; ge, which tells the engine that the exception is handled.
\* Each of the statements is violated; TLC shows the first it meets.  Comment the
\* others out to see one.
SPECIFICATION ListSpec
CONSTANTS
    MaxCode = 1
    SeededCode = 0
    MaxQueue = 2
PROPERTIES
    TakesTheRowClicked
    CatchTakesEffect
    PassPasses
