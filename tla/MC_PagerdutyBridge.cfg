\* Safety of the event bridge with failing calls and two concurrent
\* webhook deliveries.
CONSTANTS
    r1 = r1
    r2 = r2
    i1 = i1
    i2 = i2
    h1 = h1
    h2 = h2
    Requests <- MCRequests
    Incidents <- MCIncidents
    Hooks <- MCHooks
    NoIncident = NoIncident
    NoRequest = NoRequest
    CallsMayFail = TRUE
SYMMETRY MCSymmetry
SPECIFICATION Spec
INVARIANT TypeOK
INVARIANT DecisionAuthorized
INVARIANT ResolvedOnlyWhenDecided
INVARIANT EveryIncidentTracked
