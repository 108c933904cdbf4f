-------------------------- MODULE IncidentLifecycle --------------------------
(***************************************************************************)
(* What the event bridge promises (spec.md, sections 2 and 3): the joint   *)
(* lifecycle of an access request and the PagerDuty incident opened for   *)
(* it, with no plugin data, queues, handlers or failed calls.              *)
(*                                                                         *)
(*  - A request is created pending, is approved or denied, and is deleted *)
(*    when its TTL ends; a denied request stays denied until then.         *)
(*  - An incident is opened for a request that exists or existed, keeps    *)
(*    that request for good, and is resolved only once the request is no  *)
(*    longer pending; a resolved incident stays resolved.                  *)
(***************************************************************************)
CONSTANTS Requests, Incidents, NoRequest

VARIABLES
    reqState,   \* the state of each access request
    incReq,     \* the request each incident was opened for
    incStatus   \* "none" (not opened), "triggered", "resolved"

lifeVars == <<reqState, incReq, incStatus>>

Decided == {"approved", "denied"}

Init ==
    /\ reqState = [r \in Requests |-> "none"]
    /\ incReq = [i \in Incidents |-> NoRequest]
    /\ incStatus = [i \in Incidents |-> "none"]

Create(r) ==
    /\ reqState[r] = "none"
    /\ reqState' = [reqState EXCEPT ![r] = "pending"]
    /\ UNCHANGED <<incReq, incStatus>>

\* A decision of a live request; a denied one can only be denied again.
Decide(r, s) ==
    /\ reqState[r] \in {"pending"} \cup Decided
    /\ reqState[r] = "denied" => s = "denied"
    /\ reqState' = [reqState EXCEPT ![r] = s]
    /\ UNCHANGED <<incReq, incStatus>>

Delete(r) ==
    /\ reqState[r] \in {"pending"} \cup Decided
    /\ reqState' = [reqState EXCEPT ![r] = "deleted"]
    /\ UNCHANGED <<incReq, incStatus>>

Open(i, r) ==
    /\ incStatus[i] = "none"
    /\ reqState[r] # "none"
    /\ incReq' = [incReq EXCEPT ![i] = r]
    /\ incStatus' = [incStatus EXCEPT ![i] = "triggered"]
    /\ UNCHANGED reqState

Resolve(i) ==
    /\ incStatus[i] # "none"
    /\ reqState[incReq[i]] # "pending"
    /\ incStatus' = [incStatus EXCEPT ![i] = "resolved"]
    /\ UNCHANGED <<reqState, incReq>>

Next ==
    \/ \E r \in Requests :
          \/ Create(r)
          \/ \E s \in Decided : Decide(r, s)
          \/ Delete(r)
    \/ \E i \in Incidents :
          \/ \E r \in Requests : Open(i, r)
          \/ Resolve(i)

Spec == Init /\ [][Next]_lifeVars

=============================================================================
