\* Two flushers: the ticker of nexus-proxy and the Flush of its shutdown.
SPECIFICATION Spec
CONSTANTS
    Keys = {k1}
    Flushers = {f1, f2}
    AttCap = 2
    ReqCap = 1
    IdSpace = 2
    MaxRecords = 3
    MaxCrashes = 0
INVARIANTS FlushedIsOnDisk
