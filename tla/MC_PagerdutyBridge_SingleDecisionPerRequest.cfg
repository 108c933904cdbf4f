\* Looks for a violation of SingleDecisionPerRequest with one request and two
\* concurrent webhook deliveries.
CONSTANTS
    r1 = r1
    r2 = r2
    i1 = i1
    i2 = i2
    h1 = h1
    h2 = h2
    Requests <- MCOneRequest
    Incidents <- MCOneIncident
    Hooks <- MCHooks
    NoIncident = NoIncident
    NoRequest = NoRequest
    CallsMayFail = TRUE
SPECIFICATION Spec
INVARIANT SingleDecisionPerRequest
