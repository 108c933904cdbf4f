\* One plugin process that restarts, with failing and timed-out calls.
CONSTANTS
    Instances = {p1}
    Limit = 1
    MaxRuns = 3
    CallsMayFail = TRUE
    InitialSchemas <- MCSchemas
    InitialExts <- MCExts
SPECIFICATION Spec
INVARIANTS
    TypeOK
    ExtensionsUnique
    InstalledAfterSuccess
PROPERTY
    InstalledKept
