CONSTANTS
    d1 = d1
    d2 = d2
    c1 = c1
    c2 = c2
    NoCallback = NoCallback
    NoThread = NoThread
    kModules <- MCModules
    DriverThreads <- MCDriverThreads
    Callbacks <- MCCallbacks
    RetCodes <- MCRetCodes
    BoostSupported = FALSE
    HasPowerExt = TRUE
    MaxNotify = 3
    MaxRestarts = 1
SPECIFICATION Spec
INVARIANTS
    BoostCacheFaithful
PROPERTIES
    QuietOnceUnsupported
    BoostHintRefined
