\* An application that closes the client from two goroutines.
SPECIFICATION CloseSpec
CONSTANTS
    Closers = {k1, k2}
INVARIANTS CloseIsSafe
CHECK_DEADLOCK FALSE
