CONSTANTS
    APIs <- MC_APIs
    ProcTypes <- MC_ProcTypes
    CmdStrings <- MC_CmdStrings
    CmdLists <- MC_CmdLists
    MaxProcs = 2
    Prior <- MC_PriorReused
    NoValue = NoValue
    NoFile = NoFile
    Malformed = Malformed

SPECIFICATION Spec

INVARIANT LaunchedProcessesMatchFile
