\* A whole frame of one byte has exactly MaxProblem bytes.
SPECIFICATION ResponseSpec
CONSTANTS
    Base = 2
    PrefixLen = 2
    MaxFrame = 2
    MaxWire = 7
    MaxRead = 3
    MaxProblem = 3
INVARIANTS ResponseTypeOK Unchanged OnlyGoodFrames CleanEndIsComplete ErrorsAreDeserved
CHECK_DEADLOCK FALSE
