SPECIFICATION Spec
CONSTANTS
    Bytes = {"a", "b", "s", "n"}
    MaxLine = 3
    MaxRead = 2
    MaxBytes = 8
INVARIANTS TypeOK TrackerIsExact  CutIsVisible
CHECK_DEADLOCK FALSE
