CONSTANTS
    Versions <- MC_Versions
    MetaValues <- MC_MetaValues
    NilMap = NilMap
    NoEntry = NoEntry
    MaxRequires = 2
    MaxOr = 2
    MaxOrRequires = 1

SPECIFICATION Spec

INVARIANT InconsistentIffTextsDiffer
