------------------------- MODULE BridgeSafetyProofs -------------------------
(***************************************************************************)
(* Proofs of DecisionAuthorized and EveryIncidentTracked, for every set of *)
(* requests, incidents and webhook deliveries.                             *)
(***************************************************************************)
EXTENDS PagerdutyBridgeProofs

(***************************************************************************)
(* Both properties rest on the plugin data of a request being written at   *)
(* most once: onPendingRequest runs once per request, because only         *)
(* NewRequest publishes a pending put event, the watcher takes the events  *)
(* in order, and it writes the plugin data only for the request of the     *)
(* event it took (OnceOk).  A webhook handler past the incident check      *)
(* holds the incident of its request's plugin data (HookDataOk), so the    *)
(* decision it records is authorized, and stays so.                        *)
(***************************************************************************)
PendingPut(k) == events[k].op = "put" /\ events[k].state = "pending"

SavingFor(r) == watcher.pc = "save" /\ watcher.req = r

OnceOk ==
    /\ \A k, j \in 1..Len(events) :
           PendingPut(k) /\ PendingPut(j) /\ events[k].req = events[j].req =>
               k = j
    /\ \A k \in 1..Len(events) :
           PendingPut(k) =>
               /\ pluginData[events[k].req] = NoIncident
               /\ ~SavingFor(events[k].req)
    /\ watcher.pc = "save" => pluginData[watcher.req] = NoIncident

HookDataOk ==
    \A h \in Hooks :
        hooks[h].pc \in {"setState", "resolve"} =>
            pluginData[HookRequest(h)] = hooks[h].act.incident

JInv ==
    /\ IInv
    /\ OnceOk
    /\ HookDataOk
    /\ DecisionAuthorized
    /\ EveryIncidentTracked


\* The four properties the inductive invariant adds to IInv.
Safe == OnceOk /\ HookDataOk /\ DecisionAuthorized /\ EveryIncidentTracked

(***************************************************************************)
(* Lemmas about the model's data.                                          *)
(***************************************************************************)

\* An element of a sequence is in the sequence's set.
LEMMA SeqElement ==
    ASSUME NEW S, NEW q \in Seq(S), NEW k \in 1..Len(q)
    PROVE  q[k] \in S
OBVIOUS

\* A recorded decision names a request and an incident.
LEMMA DecisionType ==
    ASSUME TypeOK, NEW k \in 1..Len(decisions)
    PROVE  decisions[k].req \in Requests /\ decisions[k].inc \in Incidents
<1>1. decisions \in Seq([req : Requests, inc : Incidents,
                         state : {"approved", "denied"}])
    BY DEF TypeOK
<1>2. decisions[k] \in [req : Requests, inc : Incidents,
                        state : {"approved", "denied"}]
    BY <1>1, SeqElement
<1>3. QED
    BY <1>2

\* Tail shifts the watcher's queue by one.
LEMMA TailEvents ==
    ASSUME NEW q \in Seq(Events), q # <<>>
    PROVE  /\ Tail(q) \in Seq(Events)
           /\ Len(Tail(q)) = Len(q) - 1
           /\ \A k \in 1..Len(q) - 1 : Tail(q)[k] = q[k + 1]
OBVIOUS

\* A request the auth server has never had leaves no trace in the bridge:
\* no plugin data (RefOk, IncOk), no save in progress (SaveOk, IncOk), no
\* queued event (EventOk).
LEMMA FreshRequest ==
    ASSUME IInv, NEW r \in Requests, reqState[r] = "none"
    PROVE  /\ pluginData[r] = NoIncident
           /\ ~SavingFor(r)
           /\ \A k \in 1..Len(events) : events[k].req # r
<1>1. pluginData[r] = NoIncident
    BY DEF IInv, RefOk, IncOk, TypeOK
<1>2. ~SavingFor(r)
    BY DEF IInv, SaveOk, IncOk, SavingFor
<1>3. \A k \in 1..Len(events) : events[k].req # r
    BY DEF IInv, EventOk
<1>4. QED
    BY <1>1, <1>2, <1>3

(***************************************************************************)
(* OnceOk survives taking the head off the queue when the plugin data and  *)
(* the watcher stay as they are.                                           *)
(***************************************************************************)
LEMMA OnceOkTail ==
    ASSUME TypeOK, OnceOk, events # <<>>, events' = Tail(events),
           UNCHANGED <<pluginData, watcher>>
    PROVE  OnceOk'
<1>1. /\ Len(events') = Len(events) - 1
      /\ \A k \in 1..Len(events') : events'[k] = events[k + 1]
    BY TailEvents DEF TypeOK
<1>2. \A k \in 1..Len(events') : k + 1 \in 1..Len(events)
    BY <1>1
<1>3. QED
    BY <1>1, <1>2 DEF OnceOk, PendingPut, SavingFor

(***************************************************************************)
(* The auth server's writes: only NewRequest publishes a pending put, and  *)
(* for a request that no event, save or plugin data mentions yet.          *)
(***************************************************************************)
LEMMA RequestWriteSafe ==
    ASSUME JInv, NEW r \in Requests, NEW s \in States \ {"none"},
           NEW op \in {"put", "delete"},
           s = "pending" => reqState[r] = "none",
           RequestWrite(r, s, op)
    PROVE  Safe'
<1>0. /\ IInv /\ TypeOK /\ OnceOk
      /\ HookDataOk /\ DecisionAuthorized /\ EveryIncidentTracked
    BY DEF JInv, IInv
<1>1. /\ events' = Append(events, [op |-> op, req |-> r, state |-> s])
      /\ UNCHANGED <<pluginData, watcher, incReq, incStatus, hooks,
                     decisions, orphans>>
    BY DEF RequestWrite, pdVars
<1>2. HookDataOk' /\ DecisionAuthorized' /\ EveryIncidentTracked'
    BY <1>0, <1>1 DEF HookDataOk, HookRequest, DecisionAuthorized,
                      EveryIncidentTracked
<1>3. OnceOk'
    <2> DEFINE n == Len(events) + 1
    <2>1. /\ events \in Seq(Events)
          /\ Len(events') = n
          /\ \A k \in 1..Len(events) : events'[k] = events[k]
          /\ events'[n] = [op |-> op, req |-> r, state |-> s]
        BY <1>0, <1>1 DEF TypeOK
    <2>2. \A k \in 1..n : k \in 1..Len(events) \/ k = n
        BY <2>1
    <2>3. CASE s = "pending"
        <3>1. /\ pluginData[r] = NoIncident
              /\ ~SavingFor(r)
              /\ \A k \in 1..Len(events) : events[k].req # r
            BY <1>0, <2>3, FreshRequest
        <3>2. QED
            BY <1>0, <1>1, <2>1, <2>2, <3>1 DEF OnceOk, PendingPut, SavingFor
    <2>4. CASE s # "pending"
        BY <1>0, <1>1, <2>1, <2>2, <2>4 DEF OnceOk, PendingPut, SavingFor
    <2>5. QED
        BY <2>3, <2>4
<1>4. QED
    BY <1>2, <1>3 DEF Safe

LEMMA EnvironmentSafe == JInv /\ Environment => Safe'
<1> SUFFICES ASSUME JInv, NEW r \in Requests,
                    \/ NewRequest(r)
                    \/ \E s \in {"approved", "denied"} : ExternalReview(r, s)
                    \/ ExpireRequest(r)
             PROVE  Safe'
    BY DEF Environment
<1>1. CASE NewRequest(r)
    BY <1>1, RequestWriteSafe DEF NewRequest, RequestWrite, States
<1>2. CASE \E s \in {"approved", "denied"} : ExternalReview(r, s)
    BY <1>2, RequestWriteSafe DEF ExternalReview, RequestWrite, States
<1>3. CASE ExpireRequest(r)
    BY <1>3, RequestWriteSafe DEF ExpireRequest, RequestWrite, States
<1>4. QED
    BY <1>1, <1>2, <1>3


(***************************************************************************)
(* Facts about a state of JInv that the steps below keep citing: a decided *)
(* incident and an incident in a handler past the check are created, and   *)
(* the plugin data of the request being saved is still empty.              *)
(***************************************************************************)
LEMMA RecordedCreated ==
    ASSUME JInv
    PROVE  /\ \A k \in 1..Len(decisions) :
                  /\ decisions[k].inc \in Incidents
                  /\ decisions[k].inc # NoIncident
                  /\ incStatus[decisions[k].inc] # "none"
           /\ \A r \in Requests :
                  pluginData[r] \in Incidents \cup {NoIncident}
<1>1. IInv /\ TypeOK /\ DecisionAuthorized
    BY DEF JInv, IInv
<1>2. ASSUME NEW k \in 1..Len(decisions)
      PROVE  /\ decisions[k].inc \in Incidents
             /\ decisions[k].inc # NoIncident
             /\ incStatus[decisions[k].inc] # "none"
    <2>1. decisions[k].req \in Requests /\ decisions[k].inc \in Incidents
        BY <1>1, DecisionType
    <2>2. pluginData[decisions[k].req] = decisions[k].inc
        BY <1>1 DEF DecisionAuthorized
    <2>3. QED
        BY <1>1, <2>1, <2>2, BridgeAssumption DEF IInv, RefOk
<1>3. QED
    BY <1>1, <1>2 DEF TypeOK

(***************************************************************************)
(* The watcher takes a put event.  A pending one opens incident i, whose   *)
(* status was "none": no decision names it, and the watcher now saves it,  *)
(* for a request whose plugin data is empty and has no other pending put.  *)
(***************************************************************************)
LEMMA OnPutEventSafe ==
    ASSUME JInv, OnPutEvent
    PROVE  Safe'
<1>0. /\ IInv /\ TypeOK /\ OnceOk
      /\ HookDataOk /\ DecisionAuthorized /\ EveryIncidentTracked
    BY DEF JInv, IInv
<1> DEFINE e == Head(events)
<1>1. /\ events # <<>>
      /\ events' = Tail(events)
      /\ watcher.pc = "idle"
      /\ UNCHANGED <<pluginData, hooks, decisions, orphans>>
    BY DEF OnPutEvent, backendVars
<1>2. HookDataOk'
    BY <1>0, <1>1 DEF HookDataOk, HookRequest
<1>3. CASE UNCHANGED <<watcher, incReq, incStatus>>
    <2>1. OnceOk'
        BY <1>0, <1>1, <1>3, OnceOkTail
    <2>2. DecisionAuthorized' /\ EveryIncidentTracked'
        BY <1>0, <1>1, <1>3 DEF DecisionAuthorized, EveryIncidentTracked
    <2>3. QED
        BY <1>2, <2>1, <2>2 DEF Safe
<1>4. CASE /\ e.state = "pending"
           /\ \E i \in Incidents :
                /\ CreateIncident(i, e.req)
                /\ watcher' = [pc |-> "save", req |-> e.req, inc |-> i]
    <2>1. PICK i \in Incidents :
                /\ CreateIncident(i, e.req)
                /\ watcher' = [pc |-> "save", req |-> e.req, inc |-> i]
        BY <1>4
    <2>2. /\ events \in Seq(Events)
          /\ 1 \in 1..Len(events)
          /\ e = events[1]
          /\ PendingPut(1)
        BY <1>0, <1>1, <1>4 DEF TypeOK, OnPutEvent, PendingPut
    <2>3. /\ pluginData[e.req] = NoIncident
          /\ \A j \in 1..Len(events) :
                 PendingPut(j) /\ events[j].req = e.req => j = 1
        BY <1>0, <2>2 DEF OnceOk
    <2>4. /\ incStatus[i] = "none"
          /\ incReq' = [incReq EXCEPT ![i] = e.req]
          /\ incStatus' = [incStatus EXCEPT ![i] = "triggered"]
        BY <2>1 DEF CreateIncident
    <2>5. OnceOk'
        <3>1. /\ Len(events') = Len(events) - 1
              /\ \A k \in 1..Len(events') : events'[k] = events[k + 1]
              /\ \A k \in 1..Len(events') : k + 1 \in 1..Len(events)
            BY <1>1, <2>2, TailEvents
        <3>2. \A k \in 1..Len(events') :
                  PendingPut(k)' => events'[k].req # e.req
            BY <2>3, <3>1 DEF PendingPut
        <3>3. QED
            BY <1>0, <1>1, <2>1, <2>3, <3>1, <3>2 DEF OnceOk, PendingPut, SavingFor
    <2>6. DecisionAuthorized'
        <3>1. \A k \in 1..Len(decisions) : decisions[k].inc # i
            BY <1>0, <2>4, RecordedCreated
        <3>2. QED
            BY <1>0, <1>1, <2>4, <3>1, RecordedCreated
            DEF DecisionAuthorized, TypeOK
    <2>7. EveryIncidentTracked'
        <3> SUFFICES ASSUME NEW j \in Incidents, incStatus'[j] # "none"
                     PROVE  \/ pluginData'[incReq'[j]] = j
                            \/ j \in orphans'
                            \/ watcher'.pc = "save" /\ watcher'.inc = j
            BY DEF EveryIncidentTracked
        <3>1. CASE j = i
            BY <2>1, <3>1
        <3>2. CASE j # i
            <4>1. incStatus[j] # "none" /\ incReq'[j] = incReq[j]
                BY <1>0, <2>4, <3>2 DEF TypeOK
            <4>2. pluginData[incReq[j]] = j \/ j \in orphans
                BY <1>0, <1>1, <4>1 DEF EveryIncidentTracked
            <4>3. QED
                BY <1>1, <4>1, <4>2
        <3>3. QED
            BY <3>1, <3>2
    <2>8. QED
        BY <1>2, <2>5, <2>6, <2>7 DEF Safe
<1>5. QED
    BY <1>3, <1>4 DEF OnPutEvent


(***************************************************************************)
(* setPluginData writes the incident of the save, or fails and leaves it   *)
(* an orphan.  The request's plugin data was empty, so no decision, no     *)
(* handler and no other incident was relying on it.                       *)
(***************************************************************************)
LEMMA OnPendingRequestSaveSafe ==
    ASSUME JInv, OnPendingRequestSave
    PROVE  Safe'
<1>0. /\ IInv /\ TypeOK /\ OnceOk
      /\ HookDataOk /\ DecisionAuthorized /\ EveryIncidentTracked
    BY DEF JInv, IInv
<1> DEFINE w == watcher
<1>1. /\ w.pc = "save"
      /\ watcher' = WatcherIdle
      /\ UNCHANGED <<events, incReq, incStatus, hooks, decisions>>
      /\ \/ /\ pluginData' = [pluginData EXCEPT ![w.req] = w.inc]
            /\ UNCHANGED orphans
         \/ /\ orphans' = orphans \cup {w.inc}
            /\ UNCHANGED pluginData
    BY DEF OnPendingRequestSave, pdVars
<1>2. /\ w.req \in Requests
      /\ w.inc \in Incidents
      /\ incReq[w.inc] = w.req
      /\ pluginData[w.req] = NoIncident
      /\ pluginData \in [Requests -> Incidents \cup {NoIncident}]
    BY <1>0, <1>1 DEF IInv, SaveOk, OnceOk, TypeOK
\* Every entry of the plugin data other than w.req's is kept.
<1>3. \A r \in Requests : pluginData[r] # NoIncident =>
          pluginData'[r] = pluginData[r]
    BY <1>1, <1>2
<1>4. OnceOk'
    <2>1. \A k \in 1..Len(events) : PendingPut(k) => events[k].req # w.req
        BY <1>0, <1>1 DEF OnceOk, SavingFor
    <2>2. \A k \in 1..Len(events) :
              PendingPut(k) => pluginData'[events[k].req] = pluginData[events[k].req]
        <3> SUFFICES ASSUME NEW k \in 1..Len(events), PendingPut(k)
                     PROVE  pluginData'[events[k].req] = pluginData[events[k].req]
            OBVIOUS
        <3>1. events \in Seq(Events)
            BY <1>0 DEF TypeOK
        <3>2. events[k] \in Events
            BY <3>1, SeqElement
        <3>3. events[k].req \in Requests /\ events[k].req # w.req
            BY <2>1, <3>2 DEF Events
        <3>4. QED
            BY <1>1, <1>2, <3>3
    <2>3. QED
        BY <1>0, <1>1, <2>2 DEF OnceOk, PendingPut, SavingFor, WatcherIdle
<1>5. HookDataOk'
    <2> SUFFICES ASSUME NEW h \in Hooks, hooks[h].pc \in {"setState", "resolve"}
                 PROVE  pluginData'[HookRequest(h)] = hooks[h].act.incident
        BY <1>1 DEF HookDataOk, HookRequest
    <2>1. /\ hooks[h].act \in Actions
          /\ HookRequest(h) \in Requests
        BY <1>0 DEF IInv, HookOk, HookInv
    <2>2. pluginData[HookRequest(h)] = hooks[h].act.incident
        BY <1>0 DEF HookDataOk
    <2>3. hooks[h].act.incident \in Incidents
        BY <2>1 DEF Actions
    <2>4. QED
        BY <1>3, <2>1, <2>2, <2>3, BridgeAssumption
<1>6. DecisionAuthorized'
    <2> SUFFICES ASSUME NEW k \in 1..Len(decisions)
                 PROVE  /\ pluginData'[decisions[k].req] = decisions[k].inc
                        /\ incReq[decisions[k].inc] = decisions[k].req
        BY <1>1 DEF DecisionAuthorized
    <2>1. /\ decisions[k].req \in Requests
          /\ pluginData[decisions[k].req] = decisions[k].inc
          /\ decisions[k].inc # NoIncident
          /\ incReq[decisions[k].inc] = decisions[k].req
        BY <1>0, RecordedCreated, DecisionType DEF DecisionAuthorized
    <2>2. QED
        BY <1>3, <2>1
<1>7. EveryIncidentTracked'
    <2> SUFFICES ASSUME NEW j \in Incidents, incStatus[j] # "none"
                 PROVE  \/ pluginData'[incReq[j]] = j
                        \/ j \in orphans'
        BY <1>1 DEF EveryIncidentTracked
    <2>1. CASE j = w.inc
        BY <1>1, <1>2, <2>1
    <2>2. CASE j # w.inc
        <3>1. pluginData[incReq[j]] = j \/ j \in orphans
            BY <1>0, <2>2 DEF EveryIncidentTracked
        <3>2. incReq[j] \in Requests
            BY <1>0 DEF IInv, IncOk
        <3>3. orphans \subseteq orphans'
            BY <1>1
        <3>4. QED
            BY <1>3, <3>1, <3>2, <3>3, BridgeAssumption
    <2>3. QED
        BY <2>1, <2>2
<1>8. QED
    BY <1>4, <1>5, <1>6, <1>7 DEF Safe

(***************************************************************************)
(* onDeletedRequest resolves the incident of the plugin data, which exists *)
(* already: the set of created incidents is the same after it.             *)
(***************************************************************************)
LEMMA OnDeletedRequestSafe ==
    ASSUME JInv, OnDeletedRequest
    PROVE  Safe'
<1>0. /\ IInv /\ TypeOK /\ OnceOk
      /\ HookDataOk /\ DecisionAuthorized /\ EveryIncidentTracked
    BY DEF JInv, IInv
<1> DEFINE e == Head(events)
           i == pluginData[e.req]
<1>1. /\ events # <<>>
      /\ events' = Tail(events)
      /\ UNCHANGED <<pluginData, watcher, incReq, hooks, decisions, orphans>>
    BY DEF OnDeletedRequest, backendVars
<1>2. OnceOk'
    BY <1>0, <1>1, OnceOkTail
<1>3. HookDataOk' /\ DecisionAuthorized'
    BY <1>0, <1>1 DEF HookDataOk, HookRequest, DecisionAuthorized
<1>4. \A j \in Incidents : incStatus'[j] # "none" => incStatus[j] # "none"
    <2>1. CASE UNCHANGED incStatus
        BY <2>1
    <2>2. CASE i # NoIncident /\ ResolveIncident(i, "expired")
        <3>1. /\ events \in Seq(Events)
              /\ 1 \in 1..Len(events)
              /\ e = events[1]
            BY <1>0, <1>1 DEF TypeOK
        <3>2. e \in Events
            BY <3>1, SeqElement
        <3>3. i \in Incidents /\ incStatus[i] # "none"
            BY <1>0, <2>2, <3>2 DEF IInv, RefOk, TypeOK, Events
        <3>4. notes \in [Incidents -> Seq(Notes)]
              /\ incStatus \in [Incidents -> IncStatuses]
            BY <1>0 DEF TypeOK, Notes, IncStatuses
        <3>5. QED
            BY <2>2, <3>3, <3>4, ResolveIncidentEffect DEF Notes
    <2>3. QED
        BY <2>1, <2>2 DEF OnDeletedRequest
<1>5. EveryIncidentTracked'
    BY <1>0, <1>1, <1>4 DEF EveryIncidentTracked
<1>6. QED
    BY <1>2, <1>3, <1>5 DEF Safe


(***************************************************************************)
(* The webhook handler.  GetRequest and getPluginData change only the     *)
(* handler's own progress; getPluginData lets it on only with the incident *)
(* of the plugin data.                                                     *)
(***************************************************************************)
LEMMA OnActionGetRequestSafe ==
    ASSUME JInv, NEW h \in Hooks, NEW a \in Actions, OnActionGetRequest(h, a)
    PROVE  Safe'
<1>0. /\ IInv /\ TypeOK /\ OnceOk
      /\ HookDataOk /\ DecisionAuthorized /\ EveryIncidentTracked
    BY DEF JInv, IInv
<1>1. /\ hooks[h].pc = "idle"
      /\ UNCHANGED <<pluginData, events, watcher, incReq, incStatus,
                     decisions, orphans>>
      /\ \/ hooks' = [hooks EXCEPT ![h] = HookDone]
         \/ SetHook(h, "getData", a)
    BY DEF OnActionGetRequest, backendVars, pdVars
<1>2. \A g \in Hooks : hooks'[g].pc \in {"setState", "resolve"} =>
          g # h /\ hooks'[g] = hooks[g]
    BY <1>0, <1>1 DEF TypeOK, HookDone, SetHook
<1>3. HookDataOk'
    BY <1>0, <1>1, <1>2 DEF HookDataOk, HookRequest
<1>4. QED
    BY <1>0, <1>1, <1>3
    DEF Safe, OnceOk, PendingPut, SavingFor, DecisionAuthorized,
        EveryIncidentTracked

LEMMA OnActionGetPluginDataSafe ==
    ASSUME JInv, NEW h \in Hooks, OnActionGetPluginData(h)
    PROVE  Safe'
<1>0. /\ IInv /\ TypeOK /\ OnceOk
      /\ HookDataOk /\ DecisionAuthorized /\ EveryIncidentTracked
    BY DEF JInv, IInv
<1> DEFINE a == hooks[h].act
<1>1. /\ hooks[h].pc = "getData"
      /\ UNCHANGED <<pluginData, events, watcher, incReq, incStatus,
                     decisions, orphans>>
      /\ \/ hooks' = [hooks EXCEPT ![h] = HookDone]
         \/ /\ pluginData[HookRequest(h)] = a.incident
            /\ SetHook(h, "setState", a)
    BY DEF OnActionGetPluginData, backendVars, pdVars
<1>2. HookDataOk'
    <2> SUFFICES ASSUME NEW g \in Hooks, hooks'[g].pc \in {"setState", "resolve"}
                 PROVE  pluginData[KeyRequest(hooks'[g].act.key)]
                            = hooks'[g].act.incident
        BY <1>1 DEF HookDataOk, HookRequest
    <2>1. CASE g = h
        BY <1>0, <1>1, <2>1 DEF TypeOK, HookDone, SetHook, HookRequest
    <2>2. CASE g # h
        BY <1>0, <1>1, <2>2 DEF TypeOK, SetHook, HookDataOk, HookRequest
    <2>3. QED
        BY <2>1, <2>2
<1>3. QED
    BY <1>0, <1>1, <1>2
    DEF Safe, OnceOk, PendingPut, SavingFor, DecisionAuthorized,
        EveryIncidentTracked

(***************************************************************************)
(* SetRequestState: the decision it records is through the incident of the *)
(* plugin data (HookDataOk) whose key names the request (HookInv), and the *)
(* put event it publishes is not a pending one.                            *)
(***************************************************************************)
LEMMA OnActionSetStateSafe ==
    ASSUME JInv, NEW h \in Hooks, OnActionSetState(h)
    PROVE  Safe'
<1>0. /\ IInv /\ TypeOK /\ OnceOk
      /\ HookDataOk /\ DecisionAuthorized /\ EveryIncidentTracked
    BY DEF JInv, IInv
<1> DEFINE a == hooks[h].act
           r == HookRequest(h)
           st == ActionState[a.name]
<1>1. /\ hooks[h].pc = "setState"
      /\ UNCHANGED <<pluginData, watcher, incReq, incStatus, orphans>>
    BY DEF OnActionSetState, pdVars
<1>2. /\ a \in Actions
      /\ r \in Requests
      /\ incReq[a.incident] = r
      /\ a.name \in DOMAIN ActionState
      /\ pluginData[r] = a.incident
    BY <1>0, <1>1 DEF IInv, HookOk, HookInv, HookDataOk
<1>3. st \in {"approved", "denied"}
    BY <1>2 DEF ActionState
<1>t. /\ hooks \in [Hooks -> HookType]
      /\ events \in Seq(Events)
      /\ decisions \in Seq([req : Requests, inc : Incidents,
                             state : {"approved", "denied"}])
    BY <1>0 DEF TypeOK, HookType
<1>4. HookDataOk'
    <2>1. \/ hooks' = [hooks EXCEPT ![h] = HookDone]
          \/ hooks' = [hooks EXCEPT ![h] = [pc |-> "resolve", act |-> a]]
        BY DEF OnActionSetState, SetHook
    <2>2. \A g \in Hooks : hooks'[g].pc \in {"setState", "resolve"} =>
              /\ hooks'[g].act = hooks[g].act
              /\ hooks[g].pc \in {"setState", "resolve"}
        BY <1>1, <1>t, <2>1 DEF HookDone
    <2>3. QED
        BY <1>0, <1>1, <2>2 DEF HookDataOk, HookRequest
<1>5. CASE /\ CallsMayFail \/ ~CanSetState(reqState[r], st)
           /\ UNCHANGED <<events, decisions>>
    BY <1>0, <1>1, <1>4, <1>5
    DEF Safe, OnceOk, PendingPut, SavingFor, DecisionAuthorized,
        EveryIncidentTracked
<1>6. CASE /\ events' = Append(events, [op |-> "put", req |-> r, state |-> st])
           /\ decisions' = Append(decisions, [req |-> r, inc |-> a.incident,
                                              state |-> st])
    <2>1. OnceOk'
        <3>1. /\ Len(events') = Len(events) + 1
              /\ \A k \in 1..Len(events) : events'[k] = events[k]
              /\ events'[Len(events) + 1].state # "pending"
            BY <1>t, <1>3, <1>6
        <3>2. \A k \in 1..Len(events') :
                  k \in 1..Len(events) \/ k = Len(events) + 1
            BY <3>1
        <3>3. QED
            BY <1>0, <1>1, <3>1, <3>2 DEF OnceOk, PendingPut, SavingFor
    <2>2. DecisionAuthorized'
        <3>1. /\ Len(decisions') = Len(decisions) + 1
              /\ \A k \in 1..Len(decisions) : decisions'[k] = decisions[k]
              /\ decisions'[Len(decisions) + 1] =
                     [req |-> r, inc |-> a.incident, state |-> st]
            BY <1>t, <1>6
        <3>2. \A k \in 1..Len(decisions') :
                  k \in 1..Len(decisions) \/ k = Len(decisions) + 1
            BY <3>1
        <3>3. QED
            BY <1>0, <1>1, <1>2, <3>1, <3>2 DEF DecisionAuthorized
    <2>3. EveryIncidentTracked'
        BY <1>0, <1>1 DEF EveryIncidentTracked
    <2>4. QED
        BY <1>4, <2>1, <2>2, <2>3 DEF Safe
<1>7. QED
    BY <1>5, <1>6 DEF OnActionSetState

(***************************************************************************)
(* ResolveIncident of the handler's incident, which exists already.        *)
(***************************************************************************)
LEMMA OnActionResolveSafe ==
    ASSUME JInv, NEW h \in Hooks, OnActionResolve(h)
    PROVE  Safe'
<1>0. /\ IInv /\ TypeOK /\ OnceOk
      /\ HookDataOk /\ DecisionAuthorized /\ EveryIncidentTracked
    BY DEF JInv, IInv
<1> DEFINE a == hooks[h].act
<1>1. /\ hooks[h].pc = "resolve"
      /\ hooks' = [hooks EXCEPT ![h] = HookDone]
      /\ ResolveIncident(a.incident, ActionState[a.name])
      /\ UNCHANGED <<pluginData, events, watcher, incReq, decisions, orphans>>
    BY DEF OnActionResolve, backendVars
<1>2. /\ a \in Actions
      /\ incStatus[a.incident] # "none"
      /\ a.name \in DOMAIN ActionState
    BY <1>0, <1>1 DEF IInv, HookOk, HookInv
<1>3. \A j \in Incidents : incStatus'[j] # "none" => incStatus[j] # "none"
    <2>1. /\ a.incident \in Incidents
          /\ ActionState[a.name] \in Notes
          /\ notes \in [Incidents -> Seq(Notes)]
          /\ incStatus \in [Incidents -> IncStatuses]
        BY <1>0, <1>2 DEF Actions, ActionState, Notes, TypeOK, IncStatuses
    <2>2. QED
        BY <1>1, <1>2, <2>1, ResolveIncidentEffect
<1>4. HookDataOk'
    BY <1>0, <1>1 DEF HookDataOk, HookRequest, TypeOK, HookDone
<1>5. QED
    BY <1>0, <1>1, <1>3, <1>4
    DEF Safe, OnceOk, PendingPut, SavingFor, DecisionAuthorized,
        EveryIncidentTracked

(***************************************************************************)
(* Every step keeps JInv.                                                  *)
(***************************************************************************)
LEMMA NextSafe == JInv /\ [Next]_vars => Safe'
<1> SUFFICES ASSUME JInv, [Next]_vars PROVE Safe'
    OBVIOUS
<1>1. CASE Environment
    BY <1>1, EnvironmentSafe
<1>2. CASE Watcher
    BY <1>2, OnPutEventSafe, OnPendingRequestSaveSafe, OnDeletedRequestSafe
    DEF Watcher
<1>3. CASE \E h \in Hooks : Listener(h)
    BY <1>3, OnActionGetRequestSafe, OnActionGetPluginDataSafe,
       OnActionSetStateSafe, OnActionResolveSafe DEF Listener
<1>4. CASE Finished \/ UNCHANGED vars
    BY <1>4 DEF Finished, vars, JInv, Safe, OnceOk, PendingPut, SavingFor,
       HookDataOk, HookRequest, DecisionAuthorized, EveryIncidentTracked
<1>5. QED
    BY <1>1, <1>2, <1>3, <1>4 DEF Next

LEMMA InitJInv == Init => JInv
<1> SUFFICES ASSUME Init PROVE JInv
    OBVIOUS
<1>1. IInv
    BY InitIInv
<1>2. OnceOk /\ HookDataOk /\ DecisionAuthorized /\ EveryIncidentTracked
    BY DEF Init, OnceOk, WatcherIdle, HookDataOk, DecisionAuthorized,
           EveryIncidentTracked
<1>3. QED
    BY <1>1, <1>2 DEF JInv

LEMMA NextJInv == JInv /\ [Next]_vars => JInv'
BY NextSafe, NextIInv DEF JInv, Safe

\* JInv holds in every reachable state.
LEMMA AlwaysJInv == Spec => []JInv
BY InitJInv, NextJInv, PTL DEF Spec

(***************************************************************************)
(* DecisionAuthorized for every number of requests, incidents and          *)
(* concurrent webhook deliveries: onPagerdutyAction decides a request only *)
(* through the incident of its plugin data, whose key names that request, *)
(* and the plugin data is never rewritten afterwards.                      *)
(***************************************************************************)
THEOREM DecisionsAuthorized == Spec => []DecisionAuthorized
BY AlwaysJInv, PTL DEF JInv

(***************************************************************************)
(* EveryIncidentTracked for every number of requests and incidents:        *)
(* onPendingRequest never overwrites the plugin data of a request, so an   *)
(* incident is recorded, orphaned by a failed write, or about to be saved. *)
(***************************************************************************)
THEOREM IncidentsTracked == Spec => []EveryIncidentTracked
BY AlwaysJInv, PTL DEF JInv

=============================================================================
