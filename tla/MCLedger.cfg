\* One flusher: nexus-proxy's ticker, or an application that flushes from one place.
SPECIFICATION FairSpec
CONSTANTS
    Keys = {k1}
    Flushers = {f1}
    AttCap = 2
    ReqCap = 1
    IdSpace = 2
    MaxRecords = 4
    MaxCrashes = 2
INVARIANTS TypeOK Accounted RejectedIdsDistinct ListedIsExportable FlushedIsOnDisk
PROPERTIES ImplementsHistory EverythingReachesDisk
