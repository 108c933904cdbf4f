------------------------- MODULE MC_PagerdutyBridge -------------------------
(***************************************************************************)
(* Model-checking instance of PagerdutyBridge: two requests, two incident  *)
(* IDs (one per request) and two concurrent webhook deliveries.            *)
(***************************************************************************)
EXTENDS PagerdutyBridge, TLC

CONSTANTS r1, r2, i1, i2, h1, h2

MCRequests == {r1, r2}
MCIncidents == {i1, i2}
MCHooks == {h1, h2}

\* A single request and its incident, for the runs that look for a
\* violation: the shortest counterexample needs no more.
MCOneRequest == {r1}
MCOneIncident == {i1}

\* Requests, incidents and deliveries are interchangeable in Init and Next.
MCSymmetry == Permutations(MCRequests) \cup Permutations(MCIncidents)
                \cup Permutations(MCHooks)

=============================================================================
