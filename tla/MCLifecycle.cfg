\* One process and a second one that starts from its state file.
SPECIFICATION LifecycleFairSpec
CONSTANTS
    Keys = {k1}
    Main = main
    Ticker = ticker
    Flushers = {main, ticker}
    Closers = {main}
    AttCap = 1
    ReqCap = 1
    IdSpace = 1
    MaxRecords = 2
    MaxCrashes = 1
    MaxInflight = 1
INVARIANTS LifecycleTypeOK CleanExitIsSaved ClosedMeansStopped
PROPERTIES FileGoesBackOnlyByOverlap ComesToAnEnd
CHECK_DEADLOCK FALSE
