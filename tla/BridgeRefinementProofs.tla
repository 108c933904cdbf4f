----------------------- MODULE BridgeRefinementProofs -----------------------
(***************************************************************************)
(* The event bridge implements the request and incident lifecycle of       *)
(* IncidentLifecycle, for every set of requests, incidents and deliveries. *)
(* The refinement mapping is the identity on reqState, incReq and          *)
(* incStatus; every other variable of the bridge is hidden.  The steps     *)
(* that change those variables need what the inductive invariant IInv of  *)
(* PagerdutyBridgeProofs knows about queued events and webhook handlers.   *)
(***************************************************************************)
EXTENDS PagerdutyBridgeProofs

LifeStep == [Life!Next]_Life!lifeVars

\* A step that leaves requests and incidents alone is a lifecycle stutter.
LEMMA StutterStep ==
    ASSUME UNCHANGED <<reqState, incReq, incStatus>>
    PROVE  LifeStep
BY DEF LifeStep, Life!lifeVars

\* Bot.ResolveIncident of an incident that exists and whose request is not
\* pending is a lifecycle Resolve, or a stutter when the note or the
\* resolve call fails.
LEMMA ResolveRefines ==
    ASSUME NEW i \in Incidents, NEW st,
           incStatus[i] # "none",
           reqState[incReq[i]] # "pending",
           ResolveIncident(i, st),
           UNCHANGED <<reqState, incReq>>
    PROVE  LifeStep
<1>1. CASE UNCHANGED incStatus
    BY <1>1, StutterStep
<1>2. CASE incStatus' = [incStatus EXCEPT ![i] = "resolved"]
    <2>1. Life!Resolve(i)
        BY <1>2 DEF Life!Resolve
    <2>2. QED
        BY <2>1 DEF LifeStep, Life!Next
<1>3. QED
    BY <1>1, <1>2 DEF ResolveIncident

\* The auth server: its three writes are Create, Decide and Delete.
LEMMA EnvironmentRefines ==
    ASSUME Environment
    PROVE  LifeStep
<1>1. PICK r \in Requests :
          \/ NewRequest(r)
          \/ \E s \in {"approved", "denied"} : ExternalReview(r, s)
          \/ ExpireRequest(r)
    BY DEF Environment
<1>2. CASE NewRequest(r)
    BY <1>2 DEF NewRequest, pdVars, LifeStep, Life!Next, Life!Create
<1>3. CASE \E s \in {"approved", "denied"} : ExternalReview(r, s)
    <2>1. PICK s \in {"approved", "denied"} : ExternalReview(r, s)
        BY <1>3
    <2>2. Life!Decide(r, s)
        BY <2>1 DEF ExternalReview, pdVars, Life!Decide, Life!Decided
    <2>3. QED
        BY <2>1, <2>2 DEF LifeStep, Life!Next, Life!Decided
<1>4. CASE ExpireRequest(r)
    BY <1>4 DEF ExpireRequest, Live, pdVars, LifeStep, Life!Next, Life!Delete,
                Life!Decided
<1>5. QED
    BY <1>1, <1>2, <1>3, <1>4

\* A pending put event opens an incident for a request that exists: the
\* queue holds only events of requests that exist or existed (EventOk).
LEMMA OnPutEventRefines ==
    ASSUME IInv, OnPutEvent
    PROVE  LifeStep
<1> DEFINE e == Head(events)
<1>1. /\ events # <<>>
      /\ events \in Seq(Events)
    BY DEF OnPutEvent, IInv, TypeOK
<1>2. /\ e \in Events
      /\ reqState[e.req] # "none"
    BY <1>1 DEF IInv, EventOk
<1>3. CASE UNCHANGED <<watcher, incReq, incStatus>>
    BY <1>3, StutterStep DEF OnPutEvent, backendVars
<1>4. CASE \E i \in Incidents :
               /\ CreateIncident(i, e.req)
               /\ watcher' = [pc |-> "save", req |-> e.req, inc |-> i]
    <2>1. PICK i \in Incidents : CreateIncident(i, e.req)
        BY <1>4
    <2>2. Life!Open(i, e.req)
        BY <1>2, <2>1 DEF OnPutEvent, CreateIncident, backendVars, Life!Open
    <2>3. QED
        BY <1>2, <2>2 DEF LifeStep, Life!Next, Events
<1>5. QED
    BY <1>3, <1>4 DEF OnPutEvent

\* A delete event resolves the incident recorded for a request that is
\* deleted (EventOk) and whose plugin data names an incident of it (RefOk).
LEMMA OnDeletedRequestRefines ==
    ASSUME IInv, OnDeletedRequest
    PROVE  LifeStep
<1> DEFINE e == Head(events)
           i == pluginData[e.req]
<1>1. /\ events # <<>>
      /\ events \in Seq(Events)
      /\ e.op = "delete"
      /\ UNCHANGED <<reqState, incReq>>
    BY DEF OnDeletedRequest, IInv, TypeOK, backendVars
<1>2. e \in Events
    BY <1>1
<1>3. /\ e.req \in Requests
      /\ reqState[e.req] = "deleted"
    <2>1. 1 \in 1..Len(events) /\ e = events[1]
        BY <1>1
    <2>2. QED
        BY <1>1, <1>2, <2>1 DEF IInv, EventOk, Events
<1>4. CASE UNCHANGED <<notes, incStatus>>
    BY <1>1, <1>4, StutterStep
<1>5. CASE i # NoIncident /\ ResolveIncident(i, "expired")
    <2>1. pluginData \in [Requests -> Incidents \cup {NoIncident}]
        BY DEF IInv, TypeOK
    <2>2. /\ i \in Incidents
          /\ incReq[i] = e.req
          /\ incStatus[i] # "none"
        BY <1>3, <1>5, <2>1 DEF IInv, RefOk
    <2>3. QED
        BY <1>1, <1>3, <1>5, <2>2, ResolveRefines
<1>6. QED
    BY <1>4, <1>5 DEF OnDeletedRequest

\* A successful SetRequestState is a Decide: the handler holds a request and
\* a known action name (HookOk), and the auth server refuses to change a
\* denied request.
LEMMA OnActionSetStateRefines ==
    ASSUME IInv, NEW h \in Hooks, OnActionSetState(h)
    PROVE  LifeStep
<1> DEFINE a == hooks[h].act
           r == HookRequest(h)
           s == ActionState[a.name]
<1>1. /\ hooks[h].pc = "setState"
      /\ UNCHANGED <<incReq, incStatus>>
    BY DEF OnActionSetState, pdVars
<1>2. /\ r \in Requests
      /\ s \in {"approved", "denied"}
    BY <1>1 DEF IInv, HookOk, HookInv, ActionState
<1>3. CASE UNCHANGED reqState
    BY <1>1, <1>3, StutterStep
<1>4. CASE CanSetState(reqState[r], s) /\ reqState' = [reqState EXCEPT ![r] = s]
    <2>1. Life!Decide(r, s)
        BY <1>1, <1>4 DEF CanSetState, Live, Life!Decide, Life!Decided
    <2>2. QED
        BY <1>2, <2>1 DEF LifeStep, Life!Next, Life!Decided
<1>5. QED
    BY <1>3, <1>4 DEF OnActionSetState

\* The handler resolves the incident of its request, which it has seen
\* decided (HookOk).
LEMMA OnActionResolveRefines ==
    ASSUME IInv, NEW h \in Hooks, OnActionResolve(h)
    PROVE  LifeStep
<1> DEFINE i == hooks[h].act.incident
<1>1. /\ i \in Incidents
      /\ incReq[i] = HookRequest(h)
      /\ incStatus[i] # "none"
      /\ reqState[HookRequest(h)] \in {"approved", "denied", "deleted"}
    BY DEF OnActionResolve, IInv, HookOk, HookInv, Actions
<1>2. QED
    BY <1>1, ResolveRefines DEF OnActionResolve, backendVars

\* Every step of the bridge is a lifecycle step or a stutter.
LEMMA NextRefines == IInv /\ [Next]_vars => LifeStep
<1> SUFFICES ASSUME IInv, [Next]_vars PROVE LifeStep
    OBVIOUS
<1>1. CASE Environment
    BY <1>1, EnvironmentRefines
<1>2. CASE OnPutEvent
    BY <1>2, OnPutEventRefines
<1>3. CASE OnPendingRequestSave \/ Finished \/ UNCHANGED vars
    BY <1>3, StutterStep DEF OnPendingRequestSave, Finished, vars, pdVars
<1>4. CASE OnDeletedRequest
    BY <1>4, OnDeletedRequestRefines
<1>5. CASE \E h \in Hooks : Listener(h)
    <2>1. PICK h \in Hooks : Listener(h)
        BY <1>5
    <2>2. CASE \E a \in Actions : OnActionGetRequest(h, a)
        BY <2>2, StutterStep DEF OnActionGetRequest, backendVars, pdVars
    <2>3. CASE OnActionGetPluginData(h)
        BY <2>3, StutterStep DEF OnActionGetPluginData, backendVars, pdVars
    <2>4. CASE OnActionSetState(h)
        BY <2>4, OnActionSetStateRefines
    <2>5. CASE OnActionResolve(h)
        BY <2>5, OnActionResolveRefines
    <2>6. QED
        BY <2>1, <2>2, <2>3, <2>4, <2>5 DEF Listener
<1>6. QED
    BY <1>1, <1>2, <1>3, <1>4, <1>5 DEF Next, Watcher

\* The bridge starts where the lifecycle starts.
LEMMA InitRefines == Init => Life!Init
BY DEF Init, Life!Init

\* The event bridge, whatever the interleaving of the watcher, of any number
\* of concurrent webhook deliveries and of the auth server, and with any
\* call failing, implements the lifecycle of IncidentLifecycle: it opens
\* incidents only for requests that exist or existed, never binds an
\* incident to another request, never approves a denied request, and never
\* resolves the incident of a pending request.
THEOREM BridgeImplementsLifecycle == Spec => ImplementsLifecycle
<1>1. Spec => []IInv
    BY InitIInv, NextIInv, PTL DEF Spec
<1>2. QED
    BY <1>1, InitRefines, NextRefines, PTL
    DEF Spec, ImplementsLifecycle, Life!Spec, LifeStep

=============================================================================
