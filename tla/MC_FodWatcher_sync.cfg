CONSTANTS
    ReadFailures = {"seek_fail", "read_fail"}
    MaxReadFails = 4
SPECIFICATION Spec
INVARIANT
    
    IdleWatcherInSync
