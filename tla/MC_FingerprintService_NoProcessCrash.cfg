CONSTANTS
    d1 = d1
    d2 = d2
    c1 = c1
    c2 = c2
    NoCallback = NoCallback
    NoThread = NoThread
    kModules <- MCModules
    DriverThreads <- MCOneThread
    Callbacks <- MCCallbacks
    RetCodes <- MCRetCodes
    BoostSupported = TRUE
    HasPowerExt = TRUE
    MaxNotify = 1
    MaxRestarts = 0
    ReadFailures = {"seek_fail"}
    MaxReadFails = 1
    HostRequests = FALSE
SPECIFICATION ServiceSpec
INVARIANT
    NoProcessCrash
