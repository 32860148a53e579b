CONSTANTS
    Names <- MC_Names
    Versions <- MC_Versions
    MetaValues <- MC_MetaValues
    NilMap = NilMap
    NoEntry = NoEntry
    MaxEntries = 3
    MaxUnmet = 2

SPECIFICATION Spec

INVARIANTS
    TypeOK
    FilterKeepsMetEntries
    BOMStatesPlanVersions
