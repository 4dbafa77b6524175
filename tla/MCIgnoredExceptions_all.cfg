SPECIFICATION ListSpec
CONSTANTS
    MaxCode = 1
    SeededCode = 0
    MaxQueue = 2
INVARIANT TypeOK
PROPERTY RemovesWhatWasMeant
