--------------------------- MODULE PagerdutyBridge ---------------------------
(***************************************************************************)
(* The event bridge of the Teleport PagerDuty access plugin                *)
(* (src/access/pagerduty/app.go: App.onWatcherEvent, onPendingRequest,     *)
(* onDeletedRequest, onPagerdutyAction; bot.go: Bot.CreateIncident and     *)
(* Bot.ResolveIncident).                                                   *)
(*                                                                         *)
(* Two sources drive it concurrently:                                      *)
(*  - the access-request watcher, one event at a time, in order;           *)
(*  - the webhook listener, one goroutine per HTTP request, any number of  *)
(*    them at once.                                                        *)
(* Every call to the Teleport auth server or to PagerDuty is one atomic    *)
(* step; a handler is a sequence of such steps, and state read in one step *)
(* may be stale by the next.  The auth server and the operators are the    *)
(* environment: they create, review and expire requests and send webhook   *)
(* callbacks.                                                              *)
(***************************************************************************)
EXTENDS Naturals, Sequences, FiniteSets

CONSTANTS
    Requests,      \* access request IDs
    Incidents,     \* incident IDs PagerDuty can hand out
    Hooks,         \* webhook deliveries (HTTP requests to the action URL)
    NoIncident,    \* "no plugin data recorded for this request"
    NoRequest,     \* "incident key does not name a request"
    CallsMayFail   \* whether a call to Teleport or PagerDuty may fail

ASSUME BridgeAssumption ==
    /\ NoIncident \notin Incidents
    /\ NoRequest \notin Requests
    /\ CallsMayFail \in BOOLEAN

(***************************************************************************)
(* Constants of bot.go and the access package.                             *)
(***************************************************************************)
pdIncidentKeyPrefix == "teleport-access-request"
CustomEvent == "incident.custom"

\* The request states of the auth server; "none" and "deleted" are the
\* states in which GetRequest answers NotFound.
States == {"none", "pending", "approved", "denied", "deleted"}
Live == {"pending", "approved", "denied"}

\* The incident key "<prefix>/<request-id>" as strings.Split sees it: the
\* sequence of its "/"-separated parts (CreateIncident, bot.go).
IncidentKey(r) == <<pdIncidentKeyPrefix, r>>

\* onPagerdutyAction's parse of the key: two parts and the right prefix.
KeyRequest(k) ==
    IF Len(k) = 2 /\ k[1] = pdIncidentKeyPrefix THEN k[2] ELSE NoRequest

\* Keys a callback may carry: the plugin's own and a key of an incident
\* made by something else (a PagerDuty dedup key has a single part).
Keys == {IncidentKey(r) : r \in Requests} \cup {<<"dedup-key">>}

\* Mutant of ActionState: the default case does not return, so any other
\* action name goes on with reqState's zero value.
ActionStateNoDefault ==
    [approve |-> "approved", deny |-> "denied", acknowledge |-> "none"]

\* The switch on action.Name.
ActionState == [approve |-> "approved", deny |-> "denied"]
ActionNames == {"approve", "deny", "acknowledge"}

\* A webhook callback as WebhookAction carries it.
Actions == [event : {CustomEvent, "incident.annotate"}, key : Keys,
            incident : Incidents, name : ActionNames]
\* The action of a handler that has not received a callback yet.
NoAction == [event |-> "none", key |-> <<>>, incident |-> NoIncident,
             name |-> "none"]

\* An access.Event as the watcher delivers it.
Events == [op : {"put", "delete"}, req : Requests, state : States]

VARIABLES
    reqState,    \* auth server: the state of each access request
    pluginData,  \* auth server: the incident ID in each request's plugin data
    events,      \* watcher: events not yet handled, in order
    watcher,     \* watcher: onPendingRequest between its two calls
    incReq,      \* PagerDuty: the request whose key each incident carries
    incStatus,   \* PagerDuty: "none" (not created), "triggered", "resolved"
    notes,       \* PagerDuty: the resolution notes added to each incident
    hooks,       \* listener: the progress of each webhook delivery
    decisions,   \* history: the SetRequestState calls that succeeded
    orphans      \* history: incidents whose plugin data write failed

backendVars == <<reqState, pluginData>>
pdVars == <<incReq, incStatus, notes>>
vars == <<reqState, pluginData, events, watcher, incReq, incStatus, notes,
          hooks, decisions, orphans>>

WatcherIdle == [pc |-> "idle", req |-> NoRequest, inc |-> NoIncident]
HookDone == [pc |-> "done", act |-> NoAction]

TypeOK ==
    /\ reqState \in [Requests -> States]
    /\ pluginData \in [Requests -> Incidents \cup {NoIncident}]
    /\ events \in Seq(Events)
    /\ watcher \in [pc : {"idle", "save"}, req : Requests \cup {NoRequest},
                    inc : Incidents \cup {NoIncident}]
    /\ incReq \in [Incidents -> Requests \cup {NoRequest}]
    /\ incStatus \in [Incidents -> {"none", "triggered", "resolved"}]
    /\ notes \in [Incidents -> Seq({"approved", "denied", "expired"})]
    /\ hooks \in [Hooks -> [pc : {"idle", "getData", "setState", "resolve",
                                  "done"},
                            act : Actions \cup {NoAction}]]
    /\ decisions \in Seq([req : Requests, inc : Incidents,
                          state : {"approved", "denied"}])
    /\ orphans \subseteq Incidents

Init ==
    /\ reqState = [r \in Requests |-> "none"]
    /\ pluginData = [r \in Requests |-> NoIncident]
    /\ events = <<>>
    /\ watcher = WatcherIdle
    /\ incReq = [i \in Incidents |-> NoRequest]
    /\ incStatus = [i \in Incidents |-> "none"]
    /\ notes = [i \in Incidents |-> <<>>]
    /\ hooks = [h \in Hooks |-> [pc |-> "idle", act |-> NoAction]]
    /\ decisions = <<>>
    /\ orphans = {}

(***************************************************************************)
(* Environment: the auth server and its other reviewers.  Every write to a *)
(* request is delivered to the watcher as an event; a deletion carries     *)
(* only the request ID.                                                    *)
(***************************************************************************)
NewRequest(r) ==
    /\ reqState[r] = "none"
    /\ reqState' = [reqState EXCEPT ![r] = "pending"]
    /\ events' = Append(events, [op |-> "put", req |-> r, state |-> "pending"])
    /\ UNCHANGED <<pluginData, watcher, pdVars, hooks, decisions, orphans>>

\* A reviewer other than this plugin (tctl, another plugin) decides.
ExternalReview(r, s) ==
    /\ reqState[r] = "pending"
    /\ reqState' = [reqState EXCEPT ![r] = s]
    /\ events' = Append(events, [op |-> "put", req |-> r, state |-> s])
    /\ UNCHANGED <<pluginData, watcher, pdVars, hooks, decisions, orphans>>

\* The request's TTL runs out and the auth server deletes it.
ExpireRequest(r) ==
    /\ reqState[r] \in Live
    /\ reqState' = [reqState EXCEPT ![r] = "deleted"]
    /\ events' = Append(events, [op |-> "delete", req |-> r, state |-> "deleted"])
    /\ UNCHANGED <<pluginData, watcher, pdVars, hooks, decisions, orphans>>

\* The auth server's SetRequestState: NotFound for a missing request, and a
\* denied request can only be denied again.
CanSetState(cur, s) == cur \in Live /\ (cur = "denied" => s = "denied")

\* Bot.CreateIncident: PagerDuty opens incident i, with the key of request r,
\* under an ID it has not used before.
CreateIncident(i, r) ==
    /\ incStatus[i] = "none"
    /\ incReq' = [incReq EXCEPT ![i] = r]
    /\ incStatus' = [incStatus EXCEPT ![i] = "triggered"]

(***************************************************************************)
(* Bot.ResolveIncident: CreateIncidentNote, then ManageIncidents(resolved);*)
(* a failed note returns before the incident is resolved.                  *)
(***************************************************************************)
ResolveIncident(i, status) ==
    \/ /\ CallsMayFail
       /\ UNCHANGED <<notes, incStatus>>
    \/ /\ notes' = [notes EXCEPT ![i] = Append(@, status)]
       /\ \/ /\ CallsMayFail
             /\ UNCHANGED incStatus
          \/ incStatus' = [incStatus EXCEPT ![i] = "resolved"]

(***************************************************************************)
(* The watcher: onWatcherEvent takes the events in order and handles each  *)
(* to completion.  A handler error is logged and the event is dropped.    *)
(***************************************************************************)

\* Mutant of OnPutEvent: the IsPending check dropped, so every put event,
\* a review's included, opens an incident.
OnPutEventAnyState ==
    /\ watcher.pc = "idle"
    /\ events # <<>>
    /\ Head(events).op = "put"
    /\ events' = Tail(events)
    /\ \E i \in Incidents :
         /\ CreateIncident(i, Head(events).req)
         /\ watcher' = [pc |-> "save", req |-> Head(events).req, inc |-> i]
    /\ UNCHANGED <<backendVars, notes, hooks, decisions, orphans>>

\* OpPut: a non-pending request is ignored; a pending one gets an incident
\* (onPendingRequest, first call: Bot.CreateIncident).
OnPutEvent ==
    /\ watcher.pc = "idle"
    /\ events # <<>>
    /\ Head(events).op = "put"
    /\ events' = Tail(events)
    /\ LET e == Head(events) IN
       \/ /\ e.state # "pending"
          /\ UNCHANGED <<watcher, incReq, incStatus>>
       \/ /\ e.state = "pending"
          /\ CallsMayFail
          /\ UNCHANGED <<watcher, incReq, incStatus>>
       \/ /\ e.state = "pending"
          /\ \E i \in Incidents :
               /\ CreateIncident(i, e.req)
               /\ watcher' = [pc |-> "save", req |-> e.req, inc |-> i]
    /\ UNCHANGED <<backendVars, notes, hooks, decisions, orphans>>

\* onPendingRequest, second call: setPluginData.  If it fails the incident
\* stays open with no cross-reference to it.
OnPendingRequestSave ==
    /\ watcher.pc = "save"
    /\ \/ /\ pluginData' = [pluginData EXCEPT ![watcher.req] = watcher.inc]
          /\ UNCHANGED orphans
       \/ /\ CallsMayFail
          /\ orphans' = orphans \cup {watcher.inc}
          /\ UNCHANGED pluginData
    /\ watcher' = WatcherIdle
    /\ UNCHANGED <<reqState, events, pdVars, hooks, decisions>>

\* Mutant of OnDeletedRequest: a delete event handled while onPendingRequest
\* is still running (events handled concurrently rather than in order).
OnDeletedRequestUnordered ==
    /\ events # <<>>
    /\ Head(events).op = "delete"
    /\ events' = Tail(events)
    /\ LET i == pluginData[Head(events).req] IN
       \/ i = NoIncident /\ UNCHANGED <<notes, incStatus>>
       \/ i # NoIncident /\ ResolveIncident(i, "expired")
    /\ UNCHANGED <<backendVars, watcher, incReq, hooks, decisions, orphans>>

\* OpDelete: onDeletedRequest looks the incident up in the plugin data and
\* resolves it as "expired"; no plugin data is a warning, not an error.
OnDeletedRequest ==
    /\ watcher.pc = "idle"
    /\ events # <<>>
    /\ Head(events).op = "delete"
    /\ events' = Tail(events)
    /\ LET i == pluginData[Head(events).req] IN
       \/ /\ i = NoIncident
          /\ UNCHANGED <<notes, incStatus>>
       \/ /\ CallsMayFail
          /\ UNCHANGED <<notes, incStatus>>
       \/ /\ i # NoIncident
          /\ ResolveIncident(i, "expired")
    /\ UNCHANGED <<backendVars, watcher, incReq, hooks, decisions, orphans>>

(***************************************************************************)
(* The webhook handler onPagerdutyAction, one instance per delivery h.     *)
(***************************************************************************)
SetHook(h, pc, a) == hooks' = [hooks EXCEPT ![h] = [pc |-> pc, act |-> a]]
HookRequest(h) == KeyRequest(hooks[h].act.key)

\* The request a callback targets: NoRequest for an event other than a custom
\* action and for a key that is not the plugin's.
ActionRequest(a) ==
    IF a.event = CustomEvent THEN KeyRequest(a.key) ELSE NoRequest

\* Other events and foreign keys are ignored.  Then GetRequest: NotFound is
\* a warning, and an error or a non-pending request ends the handler.
OnActionGetRequest(h, a) ==
    /\ hooks[h].pc = "idle"
    /\ \/ /\ ActionRequest(a) = NoRequest
          /\ hooks' = [hooks EXCEPT ![h] = HookDone]
       \/ /\ ActionRequest(a) # NoRequest
          /\ reqState[ActionRequest(a)] # "pending" \/ CallsMayFail
          /\ hooks' = [hooks EXCEPT ![h] = HookDone]
       \/ /\ ActionRequest(a) # NoRequest
          /\ reqState[ActionRequest(a)] = "pending"
          /\ SetHook(h, "getData", a)
    /\ UNCHANGED <<backendVars, events, watcher, pdVars, decisions, orphans>>

\* Mutant of OnActionGetPluginData: the incident ID comparison dropped.
OnActionGetPluginDataNoIdCheck(h) ==
    /\ hooks[h].pc = "getData"
    /\ \/ /\ CallsMayFail \/ hooks[h].act.name \notin DOMAIN ActionState
          /\ hooks' = [hooks EXCEPT ![h] = HookDone]
       \/ /\ hooks[h].act.name \in DOMAIN ActionState
          /\ SetHook(h, "setState", hooks[h].act)
    /\ UNCHANGED <<backendVars, events, watcher, pdVars, decisions, orphans>>

\* getPluginData (NotFound or an error ends the handler), the check that the
\* recorded incident is the one acted on, and the switch on the action name.
OnActionGetPluginData(h) ==
    /\ hooks[h].pc = "getData"
    /\ LET a == hooks[h].act IN
       \/ /\ \/ CallsMayFail
             \/ pluginData[HookRequest(h)] # a.incident
             \/ a.name \notin DOMAIN ActionState
          /\ hooks' = [hooks EXCEPT ![h] = HookDone]
       \/ /\ pluginData[HookRequest(h)] = a.incident
          /\ a.name \in DOMAIN ActionState
          /\ SetHook(h, "setState", a)
    /\ UNCHANGED <<backendVars, events, watcher, pdVars, decisions, orphans>>

\* Mutant of OnActionSetState: the error of SetRequestState ignored, the
\* incident resolved all the same.
OnActionSetStateIgnoringError(h) ==
    /\ hooks[h].pc = "setState"
    /\ LET r == HookRequest(h)
           s == ActionState[hooks[h].act.name]
       IN
       \/ /\ CallsMayFail \/ ~CanSetState(reqState[r], s)
          /\ UNCHANGED <<reqState, events, decisions>>
       \/ /\ CanSetState(reqState[r], s)
          /\ reqState' = [reqState EXCEPT ![r] = s]
          /\ events' = Append(events, [op |-> "put", req |-> r, state |-> s])
          /\ decisions' = Append(decisions, [req |-> r,
                                inc |-> hooks[h].act.incident, state |-> s])
    /\ SetHook(h, "resolve", hooks[h].act)
    /\ UNCHANGED <<pluginData, watcher, pdVars, orphans>>

\* SetRequestState; the auth server publishes the new state to watchers.
OnActionSetState(h) ==
    /\ hooks[h].pc = "setState"
    /\ LET a == hooks[h].act
           r == HookRequest(h)
           s == ActionState[a.name]
       IN
       \/ /\ CallsMayFail \/ ~CanSetState(reqState[r], s)
          /\ hooks' = [hooks EXCEPT ![h] = HookDone]
          /\ UNCHANGED <<reqState, events, decisions>>
       \/ /\ CanSetState(reqState[r], s)
          /\ reqState' = [reqState EXCEPT ![r] = s]
          /\ events' = Append(events, [op |-> "put", req |-> r, state |-> s])
          /\ decisions' = Append(decisions, [req |-> r, inc |-> a.incident,
                                             state |-> s])
          /\ SetHook(h, "resolve", a)
    /\ UNCHANGED <<pluginData, watcher, pdVars, orphans>>

\* ResolveIncident with the note "approved" or "denied".
OnActionResolve(h) ==
    /\ hooks[h].pc = "resolve"
    /\ ResolveIncident(hooks[h].act.incident,
                       ActionState[hooks[h].act.name])
    /\ hooks' = [hooks EXCEPT ![h] = HookDone]
    /\ UNCHANGED <<backendVars, events, watcher, incReq, decisions, orphans>>

(***************************************************************************)
(* The whole system.  Finished is the state in which every request is gone *)
(* and every delivery handled: the plugin idles there.                     *)
(***************************************************************************)
Environment ==
    \E r \in Requests :
        \/ NewRequest(r)
        \/ \E s \in {"approved", "denied"} : ExternalReview(r, s)
        \/ ExpireRequest(r)

Watcher == OnPutEvent \/ OnPendingRequestSave \/ OnDeletedRequest

Listener(h) ==
    \/ \E a \in Actions : OnActionGetRequest(h, a)
    \/ OnActionGetPluginData(h)
    \/ OnActionSetState(h)
    \/ OnActionResolve(h)

Finished ==
    /\ \A r \in Requests : reqState[r] = "deleted"
    /\ events = <<>>
    /\ watcher.pc = "idle"
    /\ \A h \in Hooks : hooks[h].pc = "done"
    /\ UNCHANGED vars

Next == Environment \/ Watcher \/ (\E h \in Hooks : Listener(h)) \/ Finished

Spec == Init /\ [][Next]_vars

\* The watcher loop and every handler goroutine run while they have work,
\* and every request's TTL runs out.
FairSpec ==
    /\ Spec
    /\ WF_vars(Watcher)
    /\ \A h \in Hooks : WF_vars(OnActionGetPluginData(h) \/ OnActionSetState(h)
                                \/ OnActionResolve(h))
    /\ \A r \in Requests : WF_vars(ExpireRequest(r))

\* The lifecycle the bridge promises, on the bridge's own variables: the
\* refinement mapping is the identity on the request states, the incidents'
\* requests and their status; every other variable is hidden.
Life == INSTANCE IncidentLifecycle
        WITH Requests <- Requests, Incidents <- Incidents,
             NoRequest <- NoRequest, reqState <- reqState,
             incReq <- incReq, incStatus <- incStatus

(***************************************************************************)
(* Properties.                                                             *)
(***************************************************************************)

\* The bridge implements the request and incident lifecycle of the spec:
\* every step of the watcher, of a webhook handler or of the auth server is
\* a lifecycle step or leaves requests and incidents alone.  In particular
\* no handler opens an incident for a request that never existed, makes a
\* denied request approved, or resolves an incident of a pending request.
ImplementsLifecycle == Life!Spec

\* A request is approved or denied by onPagerdutyAction only through the
\* incident recorded in its plugin data: a callback naming another incident
\* (forged, or an incident key reused) never decides it.
DecisionAuthorized ==
    \A k \in 1..Len(decisions) :
        LET d == decisions[k] IN
        /\ pluginData[d.req] = d.inc
        /\ incReq[d.inc] = d.req

\* An incident is resolved only once its request is no longer pending, so an
\* operator never loses the incident through which a pending request is
\* decided (onPagerdutyAction resolves after SetRequestState, and
\* onDeletedRequest after the deletion).
ResolvedOnlyWhenDecided ==
    \A i \in Incidents :
        incStatus[i] = "resolved" => reqState[incReq[i]] # "pending"

\* Every incident the bridge created is either the one recorded in its
\* request's plugin data, or its plugin data write failed (the orphan the
\* design accepts), or that write is still to come: onPendingRequest never
\* replaces the cross-reference of an earlier incident.
EveryIncidentTracked ==
    \A i \in Incidents :
        incStatus[i] # "none" =>
            \/ pluginData[incReq[i]] = i
            \/ i \in orphans
            \/ watcher.pc = "save" /\ watcher.inc = i

\* When no call fails, the incident recorded for a request is eventually
\* resolved: the request expires and onDeletedRequest resolves it, if no
\* webhook action did so before.
IncidentEventuallyResolved ==
    \A i \in Incidents :
        (\E r \in Requests : pluginData[r] = i) ~> incStatus[i] = "resolved"

\* The spec's idempotency claim for webhook actions: a request is decided by
\* onPagerdutyAction at most once, the Pending check rejecting a duplicate
\* or a late delivery.
SingleDecisionPerRequest ==
    \A r \in Requests :
        Cardinality({k \in 1..Len(decisions) : decisions[k].req = r}) <= 1

\* The spec's lifecycle claim for incidents: an incident is resolved once,
\* by whichever of the operator's action and the request's expiry comes
\* first, so it carries at most one resolution note.
SingleResolutionNote ==
    \A i \in Incidents : Len(notes[i]) <= 1

=============================================================================
