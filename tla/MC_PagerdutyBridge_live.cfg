\* Liveness of incident resolution when no call fails (no symmetry: it is
\* unsound for liveness).
CONSTANTS
    r1 = r1
    r2 = r2
    i1 = i1
    i2 = i2
    h1 = h1
    h2 = h2
    Requests <- MCRequests
    Incidents <- MCIncidents
    Hooks <- MCHooks
    NoIncident = NoIncident
    NoRequest = NoRequest
    CallsMayFail = FALSE
SPECIFICATION FairSpec
PROPERTY IncidentEventuallyResolved
