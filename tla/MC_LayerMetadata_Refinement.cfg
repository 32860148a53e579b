CONSTANTS
    APIs <- MC_APIs
    DataValues <- MC_DataValues
    NoValue = NoValue
    BadValue = BadValue
    NoFile = NoFile
    Malformed = Malformed
    MaxCalls = 2

SPECIFICATION NormalSpec

PROPERTY Refinement
