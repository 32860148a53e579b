CONSTANTS
    APIs <- MC_APIs
    DataValues <- MC_DataValues
    NoValue = NoValue
    BadValue = BadValue
    NoFile = NoFile
    Malformed = Malformed
    MaxCalls = 3

SPECIFICATION Spec

INVARIANTS
    TypeOK
    NoSilentFlagLoss
    RoundTrip
    HandlesReleased
