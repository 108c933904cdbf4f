\* Two plugin processes starting together, each once; calls do not fail.
CONSTANTS
    Instances = {p1, p2}
    Limit = 1
    MaxRuns = 1
    CallsMayFail = FALSE
    InitialSchemas <- MCSchemas
    InitialExts <- MCExts
SPECIFICATION FairSpec
PROPERTIES
    SetupTerminates
