------------------------ MODULE PagerdutyBridgeProofs ------------------------
(***************************************************************************)
(* Proofs about the event bridge, for every set of requests, incidents and *)
(* webhook deliveries.                                                     *)
(***************************************************************************)
EXTENDS PagerdutyBridge, TLAPS

(***************************************************************************)
(* The inductive invariant behind ResolvedOnlyWhenDecided.  An incident is *)
(* resolved by onDeletedRequest or by onPagerdutyAction; for each we need  *)
(* what those handlers know when they resolve it:                          *)
(*  - the plugin data of r names an incident created for r (RefOk);        *)
(*  - a created incident's request exists or existed (IncOk), so that      *)
(*    NewRequest never makes it pending again;                             *)
(*  - a queued event is for a request that exists or existed, and a delete *)
(*    event for a deleted one (EventOk);                                   *)
(*  - a webhook handler past getPluginData holds an incident of its        *)
(*    request, and one about to resolve it has seen the request decided    *)
(*    (HookOk).                                                            *)
(***************************************************************************)
RefOk ==
    \A r \in Requests :
        pluginData[r] # NoIncident =>
            /\ incReq[pluginData[r]] = r
            /\ incStatus[pluginData[r]] # "none"

IncOk ==
    \A i \in Incidents :
        incStatus[i] # "none" =>
            /\ incReq[i] \in Requests
            /\ reqState[incReq[i]] # "none"

SaveOk ==
    watcher.pc = "save" =>
        /\ watcher.req \in Requests
        /\ watcher.inc \in Incidents
        /\ incReq[watcher.inc] = watcher.req
        /\ incStatus[watcher.inc] # "none"

EventOk ==
    \A k \in 1..Len(events) :
        /\ reqState[events[k].req] # "none"
        /\ events[k].op = "delete" => reqState[events[k].req] = "deleted"

HookInv(h) ==
    /\ hooks[h].pc \in {"getData", "setState", "resolve"} =>
           /\ hooks[h].act \in Actions
           /\ HookRequest(h) \in Requests
    /\ hooks[h].pc \in {"setState", "resolve"} =>
           /\ incReq[hooks[h].act.incident] = HookRequest(h)
           /\ incStatus[hooks[h].act.incident] # "none"
           /\ hooks[h].act.name \in DOMAIN ActionState
    /\ hooks[h].pc = "resolve" =>
           reqState[HookRequest(h)] \in {"approved", "denied", "deleted"}

HookOk == \A h \in Hooks : HookInv(h)

IInv ==
    /\ TypeOK
    /\ RefOk
    /\ IncOk
    /\ SaveOk
    /\ EventOk
    /\ HookOk
    /\ ResolvedOnlyWhenDecided

(***************************************************************************)
(* Lemmas about the operators of the model.                                *)
(***************************************************************************)

\* The parse of an incident key yields a request or NoRequest.
LEMMA KeyRequestType ==
    ASSUME NEW k \in Keys
    PROVE  KeyRequest(k) \in Requests \cup {NoRequest}
BY DEF Keys, KeyRequest, IncidentKey

\* The request a callback targets is a request or NoRequest.
LEMMA ActionRequestType ==
    ASSUME NEW a \in Actions
    PROVE  ActionRequest(a) \in Requests \cup {NoRequest}
BY KeyRequestType DEF Actions, ActionRequest

(***************************************************************************)
(* The initial state.                                                      *)
(***************************************************************************)
LEMMA TypeInit == Init => TypeOK
<1> SUFFICES ASSUME Init PROVE TypeOK
    OBVIOUS
<1>1. reqState \in [Requests -> States]
    BY DEF Init, States
<1>2. pluginData \in [Requests -> Incidents \cup {NoIncident}]
    BY DEF Init
<1>3. events \in Seq(Events)
    BY DEF Init
<1>4. watcher \in [pc : {"idle", "save"}, req : Requests \cup {NoRequest},
                   inc : Incidents \cup {NoIncident}]
    BY DEF Init, WatcherIdle
<1>5. /\ incReq \in [Incidents -> Requests \cup {NoRequest}]
      /\ incStatus \in [Incidents -> {"none", "triggered", "resolved"}]
      /\ notes \in [Incidents -> Seq({"approved", "denied", "expired"})]
    BY DEF Init
<1>6. hooks \in [Hooks -> [pc : {"idle", "getData", "setState", "resolve",
                                 "done"},
                           act : Actions \cup {NoAction}]]
    BY DEF Init, NoAction
<1>7. decisions \in Seq([req : Requests, inc : Incidents,
                         state : {"approved", "denied"}])
    BY DEF Init
<1>8. orphans \subseteq Incidents
    BY DEF Init
<1>9. QED
    BY <1>1, <1>2, <1>3, <1>4, <1>5, <1>6, <1>7, <1>8 DEF TypeOK

LEMMA InitIInv == Init => IInv
<1> SUFFICES ASSUME Init PROVE IInv
    OBVIOUS
<1>1. TypeOK
    BY TypeInit
<1>2. RefOk /\ IncOk /\ EventOk /\ ResolvedOnlyWhenDecided
    BY BridgeAssumption DEF Init, RefOk, IncOk, EventOk,
            ResolvedOnlyWhenDecided
<1>3. SaveOk
    BY DEF Init, SaveOk, WatcherIdle
<1>4. HookOk
    BY DEF Init, HookOk, HookInv
<1>5. QED
    BY <1>1, <1>2, <1>3, <1>4 DEF IInv

(***************************************************************************)
(* The auth server's writes.  NewRequest, ExternalReview and ExpireRequest *)
(* all write a new state s to request r and publish it as an event; they   *)
(* differ only in which states they go from and to.                        *)
(***************************************************************************)
RequestWrite(r, s, op) ==
    /\ reqState' = [reqState EXCEPT ![r] = s]
    /\ events' = Append(events, [op |-> op, req |-> r, state |-> s])
    /\ UNCHANGED <<pluginData, watcher, pdVars, hooks, decisions, orphans>>

\* A write preserves IInv when it never revives a deleted request, a
\* deletion is published as one, and only a new request becomes pending.
LEMMA RequestWriteStep ==
    ASSUME IInv, NEW r \in Requests, NEW s \in States \ {"none"},
           NEW op \in {"put", "delete"},
           reqState[r] # "deleted",
           op = "delete" => s = "deleted",
           s = "pending" => reqState[r] = "none",
           RequestWrite(r, s, op)
    PROVE  IInv'
<1>0. TypeOK
    BY DEF IInv
<1>t. reqState \in [Requests -> States] /\ events \in Seq(Events)
    BY <1>0 DEF TypeOK
<1>u. UNCHANGED <<pluginData, watcher, incReq, incStatus, notes, hooks,
                  decisions, orphans>>
    BY DEF RequestWrite, pdVars
<1>1. TypeOK'
    <2>1. reqState' \in [Requests -> States]
        BY <1>0 DEF RequestWrite, TypeOK
    <2>2. events' \in Seq(Events)
        BY <1>0 DEF RequestWrite, TypeOK, Events
    <2>3. QED
        BY <1>0, <1>u, <2>1, <2>2 DEF TypeOK
<1>2. RefOk' /\ SaveOk'
    BY <1>u DEF IInv, RefOk, SaveOk
<1>3. IncOk'
    BY <1>t, <1>u DEF IInv, IncOk, RequestWrite
<1>4. EventOk'
    BY <1>t DEF IInv, EventOk, RequestWrite, Events
<1>5. HookOk'
    BY <1>t, <1>u DEF IInv, HookOk, HookInv, HookRequest, RequestWrite, States
<1>6. ResolvedOnlyWhenDecided'
    <2>1. SUFFICES ASSUME NEW i \in Incidents, incStatus[i] = "resolved"
                   PROVE  reqState'[incReq[i]] # "pending"
        BY <1>u DEF ResolvedOnlyWhenDecided
    <2>2. incReq[i] \in Requests /\ reqState[incReq[i]] # "none"
        BY <2>1 DEF IInv, IncOk
    <2>3. reqState[incReq[i]] # "pending"
        BY <2>1 DEF IInv, ResolvedOnlyWhenDecided
    <2>4. QED
        BY <1>t, <2>2, <2>3 DEF RequestWrite
<1>7. QED
    BY <1>1, <1>2, <1>3, <1>4, <1>5, <1>6 DEF IInv

LEMMA EnvironmentStep == IInv /\ Environment => IInv'
<1> SUFFICES ASSUME IInv, NEW r \in Requests,
                    \/ NewRequest(r)
                    \/ \E s \in {"approved", "denied"} : ExternalReview(r, s)
                    \/ ExpireRequest(r)
             PROVE  IInv'
    BY DEF Environment
<1>1. CASE NewRequest(r)
    BY <1>1, RequestWriteStep DEF NewRequest, RequestWrite, States
<1>2. CASE \E s \in {"approved", "denied"} : ExternalReview(r, s)
    BY <1>2, RequestWriteStep DEF ExternalReview, RequestWrite, States
<1>3. CASE ExpireRequest(r)
    BY <1>3, RequestWriteStep DEF ExpireRequest, RequestWrite, States, Live
<1>4. QED
    BY <1>1, <1>2, <1>3

(***************************************************************************)
(* Bot.ResolveIncident changes only the notes and status of incident i,    *)
(* and only to "resolved".                                                 *)
(***************************************************************************)
IncStatuses == {"none", "triggered", "resolved"}
Notes == {"approved", "denied", "expired"}

LEMMA ResolveIncidentEffect ==
    ASSUME NEW i \in Incidents, NEW st \in Notes,
           notes \in [Incidents -> Seq(Notes)],
           incStatus \in [Incidents -> IncStatuses],
           ResolveIncident(i, st)
    PROVE  /\ notes' \in [Incidents -> Seq(Notes)]
           /\ incStatus' \in [Incidents -> IncStatuses]
           /\ \A j \in Incidents :
                 \/ incStatus'[j] = incStatus[j]
                 \/ j = i /\ incStatus'[j] = "resolved"
<1>1. CASE UNCHANGED <<notes, incStatus>>
    BY <1>1
<1>2. CASE notes' = [notes EXCEPT ![i] = Append(@, st)] /\ UNCHANGED incStatus
    BY <1>2
<1>3. CASE /\ notes' = [notes EXCEPT ![i] = Append(@, st)]
           /\ incStatus' = [incStatus EXCEPT ![i] = "resolved"]
    BY <1>3 DEF IncStatuses
<1>4. QED
    BY <1>1, <1>2, <1>3 DEF ResolveIncident

(***************************************************************************)
(* The watcher.                                                            *)
(***************************************************************************)

\* A put event is taken off the queue; a pending one opens incident i,
\* which no plugin data, handler or save refers to yet: it is unused.
LEMMA OnPutEventStep ==
    ASSUME IInv, OnPutEvent
    PROVE  IInv'
<1>0. TypeOK
    BY DEF IInv
<1> DEFINE e == Head(events)
<1>1. /\ events # <<>>
      /\ events' = Tail(events)
      /\ watcher.pc = "idle"
      /\ UNCHANGED <<reqState, pluginData, notes, hooks, decisions, orphans>>
    BY DEF OnPutEvent, backendVars
<1>t. events \in Seq(Events)
    BY <1>0 DEF TypeOK
<1>2. /\ events \in Seq(Events)
      /\ events' \in Seq(Events)
      /\ e \in Events
      /\ reqState[e.req] # "none"
    BY <1>t, <1>1 DEF IInv, EventOk
<1>3. EventOk'
    BY <1>1, <1>2 DEF IInv, EventOk
<1>4. CASE UNCHANGED <<watcher, incReq, incStatus>>
    <2>1. TypeOK'
        BY <1>0, <1>1, <1>2, <1>4 DEF TypeOK
    <2>2. RefOk' /\ IncOk' /\ SaveOk' /\ HookOk' /\ ResolvedOnlyWhenDecided'
        BY <1>1, <1>4 DEF IInv, RefOk, IncOk, SaveOk, HookOk, HookInv,
                HookRequest,
                          ResolvedOnlyWhenDecided
    <2>3. QED
        BY <1>3, <2>1, <2>2 DEF IInv
<1>5. CASE \E i \in Incidents :
             /\ CreateIncident(i, e.req)
             /\ watcher' = [pc |-> "save", req |-> e.req, inc |-> i]
    <2>1. PICK i \in Incidents :
             /\ CreateIncident(i, e.req)
             /\ watcher' = [pc |-> "save", req |-> e.req, inc |-> i]
        BY <1>5
    <2>2. /\ incStatus[i] = "none"
          /\ incReq' = [incReq EXCEPT ![i] = e.req]
          /\ incStatus' = [incStatus EXCEPT ![i] = "triggered"]
          /\ e.req \in Requests
        BY <1>2, <2>1 DEF CreateIncident, Events
    <2>3. /\ pluginData \in [Requests -> Incidents \cup {NoIncident}]
          /\ incReq \in [Incidents -> Requests \cup {NoRequest}]
          /\ incStatus \in [Incidents -> {"none", "triggered", "resolved"}]
          /\ hooks \in [Hooks -> [pc : {"idle", "getData", "setState",
                                        "resolve", "done"},
                                  act : Actions \cup {NoAction}]]
        BY <1>0 DEF TypeOK
    <2>4. TypeOK'
        <3>1. watcher' \in [pc : {"idle", "save"},
                            req : Requests \cup {NoRequest},
                            inc : Incidents \cup {NoIncident}]
            BY <2>1, <2>2
        <3>2. /\ incReq' \in [Incidents -> Requests \cup {NoRequest}]
              /\ incStatus' \in [Incidents -> {"none", "triggered",
                                               "resolved"}]
            BY <2>2, <2>3
        <3>3. QED
            BY <1>0, <1>1, <1>2, <3>1, <3>2 DEF TypeOK
    <2>5. RefOk'
        BY <1>1, <2>2, <2>3 DEF IInv, RefOk
    <2>6. IncOk'
        BY <1>1, <1>2, <2>2, <2>3 DEF IInv, IncOk
    <2>7. SaveOk'
        BY <2>1, <2>2, <2>3 DEF SaveOk
    <2>8. HookOk'
        BY <1>1, <2>2, <2>3 DEF IInv, HookOk, HookInv, HookRequest, Actions
    <2>9. ResolvedOnlyWhenDecided'
        BY <1>1, <2>2, <2>3 DEF IInv, ResolvedOnlyWhenDecided
    <2>10. QED
        BY <1>3, <2>4, <2>5, <2>6, <2>7, <2>8, <2>9 DEF IInv
<1>6. QED
    BY <1>4, <1>5 DEF OnPutEvent

\* setPluginData records the incident the watcher just opened, or, when it
\* fails, the incident is left an orphan.
LEMMA OnPendingRequestSaveStep ==
    ASSUME IInv, OnPendingRequestSave
    PROVE  IInv'
<1>0. TypeOK
    BY DEF IInv
<1>1. /\ watcher.pc = "save"
      /\ watcher' = WatcherIdle
      /\ UNCHANGED <<reqState, events, incReq, incStatus, notes, hooks,
                     decisions>>
    BY DEF OnPendingRequestSave, pdVars
<1>2. /\ watcher.req \in Requests
      /\ watcher.inc \in Incidents
      /\ incReq[watcher.inc] = watcher.req
      /\ incStatus[watcher.inc] # "none"
    BY <1>1 DEF IInv, SaveOk
<1>3. /\ pluginData \in [Requests -> Incidents \cup {NoIncident}]
      /\ orphans \subseteq Incidents
    BY <1>0 DEF TypeOK
<1>4. /\ pluginData' \in [Requests -> Incidents \cup {NoIncident}]
      /\ orphans' \subseteq Incidents
      /\ \A r \in Requests :
            \/ pluginData'[r] = pluginData[r]
            \/ r = watcher.req /\ pluginData'[r] = watcher.inc
    BY <1>2, <1>3 DEF OnPendingRequestSave
<1>5. TypeOK'
    <2>1. watcher' \in [pc : {"idle", "save"}, req : Requests \cup {NoRequest},
                        inc : Incidents \cup {NoIncident}]
        BY <1>1 DEF WatcherIdle
    <2>2. QED
        BY <1>0, <1>1, <1>4, <2>1 DEF TypeOK
<1>6. RefOk'
    BY <1>1, <1>2, <1>4 DEF IInv, RefOk
<1>7. SaveOk'
    BY <1>1 DEF SaveOk, WatcherIdle
<1>8. IncOk' /\ EventOk' /\ HookOk' /\ ResolvedOnlyWhenDecided'
    BY <1>1 DEF IInv, IncOk, EventOk, HookOk, HookInv, HookRequest,
                ResolvedOnlyWhenDecided
<1>9. QED
    BY <1>5, <1>6, <1>7, <1>8 DEF IInv

\* A delete event resolves the incident in its request's plugin data, which
\* was opened for that request, now deleted.
LEMMA OnDeletedRequestStep ==
    ASSUME IInv, OnDeletedRequest
    PROVE  IInv'
<1>0. TypeOK
    BY DEF IInv
<1> DEFINE e == Head(events)
           i == pluginData[e.req]
<1>1. /\ events # <<>>
      /\ e.op = "delete"
      /\ events' = Tail(events)
      /\ UNCHANGED <<reqState, pluginData, watcher, incReq, hooks, decisions,
                     orphans>>
    BY DEF OnDeletedRequest, backendVars
<1>t. events \in Seq(Events)
    BY <1>0 DEF TypeOK
<1>2. /\ events \in Seq(Events)
      /\ events' \in Seq(Events)
      /\ e \in Events
      /\ reqState[e.req] = "deleted"
    BY <1>t, <1>1 DEF IInv, EventOk
<1>3. /\ pluginData \in [Requests -> Incidents \cup {NoIncident}]
      /\ notes \in [Incidents -> Seq(Notes)]
      /\ incStatus \in [Incidents -> IncStatuses]
    BY <1>0 DEF TypeOK, Notes, IncStatuses
<1>4. EventOk'
    BY <1>1, <1>2 DEF IInv, EventOk
<1>5. CASE UNCHANGED <<notes, incStatus>>
    <2>1. TypeOK'
        BY <1>0, <1>1, <1>2, <1>5 DEF TypeOK
    <2>2. RefOk' /\ IncOk' /\ SaveOk' /\ HookOk' /\ ResolvedOnlyWhenDecided'
        BY <1>1, <1>5 DEF IInv, RefOk, IncOk, SaveOk, HookOk, HookInv,
                HookRequest,
                          ResolvedOnlyWhenDecided
    <2>3. QED
        BY <1>4, <2>1, <2>2 DEF IInv
<1>6. CASE i # NoIncident /\ ResolveIncident(i, "expired")
    <2>1. /\ e.req \in Requests
          /\ i \in Incidents
          /\ incReq[i] = e.req
          /\ incStatus[i] # "none"
        BY <1>2, <1>3, <1>6 DEF IInv, RefOk, Events
    <2>2. /\ notes' \in [Incidents -> Seq(Notes)]
          /\ incStatus' \in [Incidents -> IncStatuses]
          /\ \A j \in Incidents :
                \/ incStatus'[j] = incStatus[j]
                \/ j = i /\ incStatus'[j] = "resolved"
        BY <1>3, <1>6, <2>1, ResolveIncidentEffect DEF Notes
    <2>3. TypeOK'
        BY <1>0, <1>1, <1>2, <2>2 DEF TypeOK, Notes, IncStatuses
    <2>4. \A j \in Incidents : incStatus'[j] # "none" <=> incStatus[j] # "none"
        BY <2>1, <2>2
    <2>5. RefOk'
        BY <1>1, <1>3, <2>4 DEF IInv, RefOk
    <2>6. IncOk' /\ SaveOk'
        BY <1>1, <2>4 DEF IInv, IncOk, SaveOk
    <2>7. HookOk'
        BY <1>1, <2>4 DEF IInv, HookOk, HookInv, HookRequest, Actions
    <2>8. ResolvedOnlyWhenDecided'
        <3>1. SUFFICES ASSUME NEW j \in Incidents, incStatus'[j] = "resolved"
                       PROVE  reqState[incReq[j]] # "pending"
            BY <1>1 DEF ResolvedOnlyWhenDecided
        <3>2. CASE incStatus'[j] = incStatus[j]
            BY <3>1, <3>2 DEF IInv, ResolvedOnlyWhenDecided
        <3>3. CASE j = i
            BY <1>2, <2>1, <3>3
        <3>4. QED
            BY <2>2, <3>2, <3>3
    <2>9. QED
        BY <1>4, <2>3, <2>5, <2>6, <2>7, <2>8 DEF IInv
<1>7. QED
    BY <1>5, <1>6 DEF OnDeletedRequest

(***************************************************************************)
(* The webhook handler.  Each step changes the handler's own record, and   *)
(* the other handlers' records stay as they were.                          *)
(***************************************************************************)
HookType == [pc : {"idle", "getData", "setState", "resolve", "done"},
             act : Actions \cup {NoAction}]

\* A delivery for a pending request of the plugin's moves on to
\* getPluginData; any other ends the handler.
LEMMA OnActionGetRequestStep ==
    ASSUME IInv, NEW h \in Hooks, NEW a \in Actions, OnActionGetRequest(h, a)
    PROVE  IInv'
<1>0. TypeOK
    BY DEF IInv
<1>1. UNCHANGED <<reqState, pluginData, events, watcher, incReq, incStatus,
                  notes, decisions, orphans>>
    BY DEF OnActionGetRequest, backendVars, pdVars
<1>2. hooks \in [Hooks -> HookType]
    BY <1>0 DEF TypeOK, HookType
<1>3. \/ hooks' = [hooks EXCEPT ![h] = HookDone]
      \/ /\ ActionRequest(a) \in Requests
         /\ hooks' = [hooks EXCEPT ![h] = [pc |-> "getData", act |-> a]]
    BY ActionRequestType DEF OnActionGetRequest, SetHook
<1>4. hooks' \in [Hooks -> HookType]
    BY <1>2, <1>3 DEF HookDone, HookType
<1>5. TypeOK'
    BY <1>0, <1>1, <1>4 DEF TypeOK, HookType
<1>6. HookOk'
    <2>1. SUFFICES ASSUME NEW g \in Hooks PROVE HookInv(g)'
        BY DEF HookOk
    <2>2. CASE g # h
        BY <1>1, <1>2, <1>3, <2>2 DEF IInv, HookOk, HookInv, HookRequest
    <2>3. CASE g = h /\ hooks' = [hooks EXCEPT ![h] = HookDone]
        BY <1>2, <2>3 DEF HookInv, HookDone
    <2>4. CASE g = h /\ ActionRequest(a) \in Requests
                     /\ hooks' = [hooks EXCEPT ![h] =
                                    [pc |-> "getData", act |-> a]]
        <3>1. a.event = CustomEvent /\ ActionRequest(a) = KeyRequest(a.key)
            BY <2>4, BridgeAssumption DEF ActionRequest
        <3>2. QED
            BY <1>2, <2>4, <3>1 DEF HookInv, HookRequest
    <2>5. QED
        BY <1>3, <2>2, <2>3, <2>4
<1>7. RefOk' /\ IncOk' /\ SaveOk' /\ EventOk' /\ ResolvedOnlyWhenDecided'
    BY <1>1 DEF IInv, RefOk, IncOk, SaveOk, EventOk, ResolvedOnlyWhenDecided
<1>8. QED
    BY <1>5, <1>6, <1>7 DEF IInv

\* getPluginData: the handler goes on only with the incident recorded for
\* its request, which RefOk says was opened for that request.
LEMMA OnActionGetPluginDataStep ==
    ASSUME IInv, NEW h \in Hooks, OnActionGetPluginData(h)
    PROVE  IInv'
<1>0. TypeOK
    BY DEF IInv
<1> DEFINE a == hooks[h].act
<1>1. UNCHANGED <<reqState, pluginData, events, watcher, incReq, incStatus,
                  notes, decisions, orphans>>
    BY DEF OnActionGetPluginData, backendVars, pdVars
<1>2. /\ hooks \in [Hooks -> HookType]
      /\ pluginData \in [Requests -> Incidents \cup {NoIncident}]
    BY <1>0 DEF TypeOK, HookType
<1>3. /\ hooks[h].pc = "getData"
      /\ a \in Actions
      /\ HookRequest(h) \in Requests
    BY DEF OnActionGetPluginData, IInv, HookOk, HookInv
<1>4. \/ hooks' = [hooks EXCEPT ![h] = HookDone]
      \/ /\ pluginData[HookRequest(h)] = a.incident
         /\ a.name \in DOMAIN ActionState
         /\ hooks' = [hooks EXCEPT ![h] = [pc |-> "setState", act |-> a]]
    BY DEF OnActionGetPluginData, SetHook
<1>5. hooks' \in [Hooks -> HookType]
    BY <1>2, <1>3, <1>4 DEF HookDone, HookType
<1>6. TypeOK'
    BY <1>0, <1>1, <1>5 DEF TypeOK, HookType
<1>7. HookOk'
    <2>1. SUFFICES ASSUME NEW g \in Hooks PROVE HookInv(g)'
        BY DEF HookOk
    <2>2. CASE g # h
        BY <1>1, <1>2, <1>4, <2>2 DEF IInv, HookOk, HookInv, HookRequest
    <2>3. CASE g = h /\ hooks' = [hooks EXCEPT ![h] = HookDone]
        BY <1>2, <2>3 DEF HookInv, HookDone
    <2>4. CASE /\ g = h
               /\ pluginData[HookRequest(h)] = a.incident
               /\ a.name \in DOMAIN ActionState
               /\ hooks' = [hooks EXCEPT ![h] = [pc |-> "setState", act |-> a]]
        <3>1. /\ a.incident \in Incidents
              /\ incReq[a.incident] = HookRequest(h)
              /\ incStatus[a.incident] # "none"
            BY <1>3, <2>4, BridgeAssumption DEF IInv, RefOk, Actions
        <3>2. QED
            BY <1>1, <1>2, <1>3, <2>4, <3>1 DEF HookInv, HookRequest
    <2>5. QED
        BY <1>4, <2>2, <2>3, <2>4
<1>8. RefOk' /\ IncOk' /\ SaveOk' /\ EventOk' /\ ResolvedOnlyWhenDecided'
    BY <1>1 DEF IInv, RefOk, IncOk, SaveOk, EventOk, ResolvedOnlyWhenDecided
<1>9. QED
    BY <1>6, <1>7, <1>8 DEF IInv

\* SetRequestState succeeds only on a live request, which no delete event
\* refers to, and writes a decided state; the handler goes on to resolve.
LEMMA OnActionSetStateStep ==
    ASSUME IInv, NEW h \in Hooks, OnActionSetState(h)
    PROVE  IInv'
<1>0. TypeOK
    BY DEF IInv
<1> DEFINE a == hooks[h].act
           r == HookRequest(h)
           st == ActionState[a.name]
<1>1. UNCHANGED <<pluginData, watcher, incReq, incStatus, notes, orphans>>
    BY DEF OnActionSetState, pdVars
<1>2. /\ hooks \in [Hooks -> HookType]
      /\ reqState \in [Requests -> States]
      /\ events \in Seq(Events)
      /\ decisions \in Seq([req : Requests, inc : Incidents,
                            state : {"approved", "denied"}])
    BY <1>0 DEF TypeOK, HookType
<1>3. /\ hooks[h].pc = "setState"
      /\ a \in Actions
      /\ r \in Requests
      /\ st \in {"approved", "denied"}
    BY DEF OnActionSetState, IInv, HookOk, HookInv, ActionState
<1>4. RefOk' /\ SaveOk'
    BY <1>1 DEF IInv, RefOk, SaveOk
<1>5. CASE /\ hooks' = [hooks EXCEPT ![h] = HookDone]
           /\ UNCHANGED <<reqState, events, decisions>>
    <2>1. hooks' \in [Hooks -> HookType]
        BY <1>2, <1>5 DEF HookDone, HookType
    <2>2. TypeOK'
        BY <1>0, <1>1, <1>5, <2>1 DEF TypeOK, HookType
    <2>3. HookOk'
        BY <1>1, <1>2, <1>5 DEF IInv, HookOk, HookInv, HookRequest, HookDone
    <2>4. IncOk' /\ EventOk' /\ ResolvedOnlyWhenDecided'
        BY <1>1, <1>5 DEF IInv, IncOk, EventOk, ResolvedOnlyWhenDecided
    <2>5. QED
        BY <1>4, <2>2, <2>3, <2>4 DEF IInv
<1>6. CASE /\ CanSetState(reqState[r], st)
           /\ reqState' = [reqState EXCEPT ![r] = st]
           /\ events' = Append(events, [op |-> "put", req |-> r, state |-> st])
           /\ decisions' = Append(decisions, [req |-> r, inc |-> a.incident,
                                              state |-> st])
           /\ hooks' = [hooks EXCEPT ![h] = [pc |-> "resolve", act |-> a]]
    <2>1. reqState[r] \in Live
        BY <1>6 DEF CanSetState
    <2>2. TypeOK'
        <3>1. hooks' \in [Hooks -> HookType]
            BY <1>2, <1>3, <1>6 DEF HookType
        <3>2. /\ reqState' \in [Requests -> States]
              /\ events' \in Seq(Events)
              /\ decisions' \in Seq([req : Requests, inc : Incidents,
                                     state : {"approved", "denied"}])
            BY <1>2, <1>3, <1>6 DEF States, Events, Actions
        <3>3. QED
            BY <1>0, <1>1, <3>1, <3>2 DEF TypeOK, HookType
    <2>3. HookOk'
        <3>1. SUFFICES ASSUME NEW g \in Hooks PROVE HookInv(g)'
            BY DEF HookOk
        <3>2. CASE g # h
            BY <1>1, <1>2, <1>3, <1>6, <3>2 DEF IInv, HookOk, HookInv,
                                                HookRequest
        <3>3. CASE g = h
            BY <1>1, <1>2, <1>3, <1>6, <3>3 DEF IInv, HookOk, HookInv,
                                                HookRequest
        <3>4. QED
            BY <3>2, <3>3
    <2>4. IncOk'
        BY <1>1, <1>2, <1>3, <1>6 DEF IInv, IncOk
    <2>5. EventOk'
        BY <1>2, <1>3, <1>6, <2>1 DEF IInv, EventOk, Events, Live
    <2>6. ResolvedOnlyWhenDecided'
        BY <1>1, <1>2, <1>3, <1>6 DEF IInv, IncOk, ResolvedOnlyWhenDecided
    <2>7. QED
        BY <1>4, <2>2, <2>3, <2>4, <2>5, <2>6 DEF IInv
<1>7. QED
    BY <1>5, <1>6 DEF OnActionSetState, SetHook

\* The handler resolves the incident of a request it has seen decided.
LEMMA OnActionResolveStep ==
    ASSUME IInv, NEW h \in Hooks, OnActionResolve(h)
    PROVE  IInv'
<1>0. TypeOK
    BY DEF IInv
<1> DEFINE a == hooks[h].act
           i == a.incident
<1>1. /\ hooks' = [hooks EXCEPT ![h] = HookDone]
      /\ ResolveIncident(i, ActionState[a.name])
      /\ UNCHANGED <<reqState, pluginData, events, watcher, incReq, decisions,
                     orphans>>
    BY DEF OnActionResolve, backendVars
<1>2. /\ hooks \in [Hooks -> HookType]
      /\ notes \in [Incidents -> Seq(Notes)]
      /\ incStatus \in [Incidents -> IncStatuses]
    BY <1>0 DEF TypeOK, HookType, Notes, IncStatuses
<1>3. /\ hooks[h].pc = "resolve"
      /\ i \in Incidents
      /\ ActionState[a.name] \in Notes
      /\ incReq[i] = HookRequest(h)
      /\ incStatus[i] # "none"
      /\ reqState[HookRequest(h)] \in {"approved", "denied", "deleted"}
    BY DEF OnActionResolve, IInv, HookOk, HookInv, ActionState, Actions, Notes
<1>4. /\ notes' \in [Incidents -> Seq(Notes)]
      /\ incStatus' \in [Incidents -> IncStatuses]
      /\ \A j \in Incidents :
            \/ incStatus'[j] = incStatus[j]
            \/ j = i /\ incStatus'[j] = "resolved"
    BY <1>1, <1>2, <1>3, ResolveIncidentEffect
<1>5. \A j \in Incidents : incStatus'[j] # "none" <=> incStatus[j] # "none"
    BY <1>3, <1>4
<1>6. TypeOK'
    <2>1. hooks' \in [Hooks -> HookType]
        BY <1>1, <1>2 DEF HookDone, HookType
    <2>2. QED
        BY <1>0, <1>1, <1>4, <2>1 DEF TypeOK, HookType, Notes, IncStatuses
<1>7. RefOk'
    BY <1>1, <1>2, <1>5 DEF IInv, RefOk, TypeOK
<1>8. IncOk' /\ SaveOk' /\ EventOk'
    BY <1>1, <1>5 DEF IInv, IncOk, SaveOk, EventOk
<1>9. HookOk'
    BY <1>1, <1>2, <1>5 DEF IInv, HookOk, HookInv, HookRequest, HookDone,
                            Actions
<1>10. ResolvedOnlyWhenDecided'
    <2>1. SUFFICES ASSUME NEW j \in Incidents, incStatus'[j] = "resolved"
                   PROVE  reqState[incReq[j]] # "pending"
        BY <1>1 DEF ResolvedOnlyWhenDecided
    <2>2. CASE incStatus'[j] = incStatus[j]
        BY <2>1, <2>2 DEF IInv, ResolvedOnlyWhenDecided
    <2>3. CASE j = i
        BY <1>3, <2>3
    <2>4. QED
        BY <1>4, <2>2, <2>3
<1>11. QED
    BY <1>6, <1>7, <1>8, <1>9, <1>10 DEF IInv

(***************************************************************************)
(* IInv is inductive, and so every state of the bridge satisfies it.       *)
(***************************************************************************)
LEMMA NextIInv == IInv /\ [Next]_vars => IInv'
<1> SUFFICES ASSUME IInv, [Next]_vars PROVE IInv'
    OBVIOUS
<1>1. CASE Environment
    BY <1>1, EnvironmentStep
<1>2. CASE Watcher
    BY <1>2, OnPutEventStep, OnPendingRequestSaveStep, OnDeletedRequestStep
    DEF Watcher
<1>3. CASE \E h \in Hooks : Listener(h)
    BY <1>3, OnActionGetRequestStep, OnActionGetPluginDataStep,
       OnActionSetStateStep, OnActionResolveStep
    DEF Listener
<1>4. CASE Finished \/ UNCHANGED vars
    BY <1>4 DEF Finished, vars, IInv, TypeOK, RefOk, IncOk, SaveOk, EventOk,
                HookOk, HookInv, HookRequest, ResolvedOnlyWhenDecided
<1>5. QED
    BY <1>1, <1>2, <1>3, <1>4 DEF Next

\* Every state the bridge reaches, through any interleaving of the watcher,
\* the webhook handlers and the auth server, with any calls failing, is
\* well typed.
THEOREM TypeCorrect == Spec => []TypeOK
<1>1. IInv => TypeOK
    BY DEF IInv
<1>2. QED
    BY InitIInv, NextIInv, <1>1, PTL DEF Spec

\* No incident is ever resolved while its access request is still pending:
\* onDeletedRequest resolves only after the deletion, onPagerdutyAction only
\* after its SetRequestState succeeded, whatever the interleaving of the
\* watcher and any number of concurrent webhook deliveries.
THEOREM ResolvedOnlyWhenDecidedHolds == Spec => []ResolvedOnlyWhenDecided
<1>1. IInv => ResolvedOnlyWhenDecided
    BY DEF IInv
<1>2. QED
    BY InitIInv, NextIInv, <1>1, PTL DEF Spec

=============================================================================
