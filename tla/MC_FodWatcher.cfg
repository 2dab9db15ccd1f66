CONSTANTS
    ReadFailures = {"seek_fail"}
    MaxReadFails = 4
SPECIFICATION Spec
INVARIANT
    TypeOK
PROPERTY
    OverlayEventuallyRelayed
