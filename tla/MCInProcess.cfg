SPECIFICATION FairSpec
CONSTANTS
    MaxBytes = 3
    MaxWrite = 2
INVARIANTS TypeOK OneAnswer
PROPERTIES CleanEndIsComplete RoundTripAnswers CancelledHandlerEnds
CHECK_DEADLOCK FALSE
