CONSTANTS
    Lengths = {0, 1, 2, 3, 4}
    Modes = {"remote", "local"}
    MaxRetries = 3
    NoFrame = NoFrame
SPECIFICATION FairStreamSpec
CHECK_DEADLOCK FALSE
INVARIANTS
    StreamTypeOK
    OverlayIsOfItsFrame
    EndReleasesCapture
PROPERTIES
    StreamGoesOn
    LeavingEndsStream
