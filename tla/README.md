# Verification of the PagerDuty access plugin

This directory holds TLA+ models of the Teleport access plugin for PagerDuty
(`src/access/pagerduty/app.go`), the TLC configurations that model-check
them, and TLAPS proofs of their safety invariants and of a refinement.

## The system

The plugin joins two systems that share no transaction:

* Teleport's **auth server** holds access requests (pending, approved,
  denied, then deleted when their TTL ends) and a per-request **plugin
  data** record.
* **PagerDuty** holds incidents (triggered, resolved) and calls the plugin
  back through a webhook when an operator presses "Approve" or "Deny".

Its parts, and where they are:

| Part | Code | Model |
|---|---|---|
| Event bridge: `onWatcherEvent`, `onPendingRequest`, `onDeletedRequest`, `onPagerdutyAction` | app.go 151-296 | `PagerdutyBridge` |
| Plugin data store (`getPluginData`, `setPluginData`) | app.go 290-300 | variable `pluginData` of `PagerdutyBridge` |
| Incident client: `Bot.CreateIncident`, `Bot.ResolveIncident` | app.go 493-542 | `CreateIncident`, `ResolveIncident` |
| Incident client: `Bot.Setup`, `setupCustomAction` (extension provisioning) | app.go 401-491 | `ExtensionSetup` |
| Supervisor: `App.Run`, `App.run` | app.go 36-131 | `AppSupervisor` |
| `utils.Process`, `utils.ServiceJob`, `access.WatcherJob`, `WebhookServer` | not under src/ | from the spec: job records of `AppSupervisor`, event queue of `PagerdutyBridge` |
| Vendored `ClientProfile.SaveTo` (tsh profile files) | profile.go 119-154 | `ProfileStore` |
| The lifecycle the bridge promises | spec.md 2-4.4 | `IncidentLifecycle` |
| Makefile `setver` | src/unnamed/part_000 | not modelled (build tooling) |

How they interact:
* `App.Run` spawns the main job, `App.run`. It runs the startup calls in
  order, spawns the HTTP job and waits for it, and calls `Bot.Setup`. Then it
  spawns the watcher job, waits for it, reports ready, and waits for both
  jobs to end.
* Every job is critical: an error from any of them cancels the whole process.
* The watcher delivers request events **one at a time**.
* The webhook server runs `onPagerdutyAction` **once per HTTP request**,
  concurrently with the watcher and with the other deliveries.

## Modules

* `PagerdutyBridge`: the bridge. Its state:
  * `reqState` and `pluginData`: the auth server's view;
  * `events`: the watcher's queue;
  * `watcher`: the watcher's progress inside `onPendingRequest`;
  * `incReq`, `incStatus`, `notes`: PagerDuty's incidents;
  * `hooks`: one record per webhook delivery, holding where its handler is and
    the callback it got;
  * `decisions` and `orphans`: history variables, recording the decisions made
    through PagerDuty and the incidents whose plugin data write failed.

  Each call to another system is one step, and each error return is a
  disjunct guarded by the constant `CallsMayFail`:
  * `onPendingRequest` is two steps: `OnPutEvent` (`CreateIncident`) and
    `OnPendingRequestSave` (`setPluginData`);
  * `onPagerdutyAction` is four steps: `OnActionGetRequest`,
    `OnActionGetPluginData` (with the incident-id check and the action
    switch), `OnActionSetState` and `OnActionResolve`.

  `NewRequest`, `ExternalReview` and `ExpireRequest` are the auth server and
  other reviewers. Every write to a request is published as an event, and
  `SetRequestState` refuses a missing request and any change of a denied one.
  `Finished` is the idle state once every request is gone.
* `IncidentLifecycle`: the abstract specification of the bridge, written
  from the spec. A request is created pending, decided (a denied one stays
  denied) and deleted; an incident is opened for a request that exists or
  existed, keeps it, and is resolved only once the request is not pending.
  `PagerdutyBridge` instantiates it as `Life`, `WITH` the identity mapping
  on `reqState`, `incReq` and `incStatus`; every other bridge variable is
  hidden.
* `MC_PagerdutyBridge`: model values for two requests, two incidents and two
  deliveries, and the symmetry of the three sets.
* `PagerdutyBridgeProofs`: the inductive invariant and the TLAPS proofs.
* `BridgeSafetyProofs`: proofs of `DecisionAuthorized` and
  `EveryIncidentTracked`, on top of `PagerdutyBridgeProofs`.
* `AppSupervisor`: `App.Run` and `App.run` step by step. Its state:
  * `mainPc`, `step` and `httpOk`: where `App.run` is;
  * `job`: each job's pc, ready signal and error;
  * `canceled`: the process context;
  * `runPc`, `runErr`: `App.Run` and what it returned.

  `Failures` chooses which failures the environment may cause. A blocking
  `WaitReady(ctx)` is a choice between the signal and the canceled context,
  like Go's `select`.
* `ExtensionSetup`: `Bot.Setup` and `setupCustomAction`. Its state:
  * `schemas` and `exts`: PagerDuty's schema listing and the service's
    extensions in listing order. An extension is its label and whether its
    endpoint is this listener's (`current`) or an earlier deployment's
    (`stale`); its ID is its position.
  * `setup`: each plugin process's pc, listing offset and the IDs found so
    far;
  * `runs`: how often each process has started Setup (restarts).

  `ListSchemaPage` and `ListExtensionPage` are one listing call each with the
  loop test: a page is `Limit` items from the offset, `HasMore` says whether
  items follow, and a later match on a page overrides an earlier one
  (`FoundOnPage` is the last match on the page). The schema loop stops once
  the schema is found, so its three outcomes are disjoint: found, not found
  with more pages, and not found on the last page.
  `SetupCustomAction(p, a)` is `CreateExtension` or `UpdateExtension`. Any
  call may fail (`CallFails`), and a create may take effect while its answer
  is lost to the client's timeout. `MC_ExtensionSetup` uses page size 1 and
  four starting listings: empty, an unrelated extension before a stale
  approve, both actions stale around an unrelated one, and both installed.
* `ProfileStore`: `ClientProfile.SaveTo` in one profile directory. `fs` maps
  each profile name, alias and `profile` to nothing, a file (with the saver
  that wrote it) or a symlink. Each saver is one tsh process with a
  `ProfileLocation` chosen at start. `WriteFile`, the alias `Remove` and
  `Symlink`, and the `profile` `Remove` and `Symlink` are one step each, as
  in the code. `Remove` of a missing name and `Symlink` onto an existing one
  fail like POSIX; only the last error is returned. A saver may die between
  two calls (`Crash`). `lastLinked` records whose `profile` symlink succeeded
  last.
* `BridgeRefinementProofs`: the proof that `PagerdutyBridge` implements
  `IncidentLifecycle`.
* `AppSupervisorProofs`, `ExtensionSetupProofs`, `ProfileStoreProofs`: the
  proofs about the other three components.

## Runs

| Run | Checks | Bounds | Result |
|---|---|---|---|
| `bridge_safety` | TypeOK, DecisionAuthorized, ResolvedOnlyWhenDecided, EveryIncidentTracked | 2 requests, 2 incidents, 2 deliveries, failing calls, symmetry | pass, 389,105 states |
| `bridge_liveness` | IncidentEventuallyResolved under FairSpec | same sets, no failures, no symmetry | pass, about 920,000 states |
| `bridge_double_decision` | SingleDecisionPerRequest | 1 request, 1 incident, 2 deliveries | violated (finding) |
| `bridge_double_resolution` | SingleResolutionNote | same | violated (finding) |
| `supervisor_safety` | FailureReported, ShutdownCompletes under FairSpec | every failure enabled | pass |
| `supervisor_errors_aggregated` | ErrorsAggregated | every failure enabled | violated (finding) |
| `setup_safety` | TypeOK, ExtensionsUnique, InstalledAfterSuccess, InstalledKept | 1 process, 3 runs, page size 1, failing and timed-out calls | pass, 475 states |
| `setup_terminates` | SetupTerminates under FairSpec | 2 processes, 1 run each, no failures | pass, 554 states |
| `setup_concurrent_duplicates` | ExtensionsUnique | 2 processes starting together | violated (finding) |
| `profile_safety` | TypeOK, QuiescentCurrentIsLastLinked | 2 savers, 2 profiles, 1 alias, any alias path, crashes, failing writes | pass, 49,700 states |
| `profile_crash_loses_current` | CurrentKept | same | violated (finding) |

**What each property says.**
* `DecisionAuthorized`: a decision is made only through the incident that
  plugin data records for the request.
* `ResolvedOnlyWhenDecided`: no incident is resolved while its request is
  pending.
* `EveryIncidentTracked`: every incident is in plugin data, or is an orphan
  of a failed write, or is about to be saved.
* `IncidentEventuallyResolved`: a recorded incident is eventually resolved.
* `FailureReported`: a failed job makes `App.Run` return an error.
* `ShutdownCompletes`: once the process is canceled, `App.Run` returns.
* `ExtensionsUnique`: the service never has two extensions with one action's
  label (the spec's idempotence claim for provisioning).
* `InstalledAfterSuccess`: when Setup returns nil, both actions exist, with
  their labels and this listener's endpoint.
* `InstalledKept` (action property): an installed action extension, with
  its label and this listener's URL, is never removed or rewritten. An
  update must only touch an extension that has its action's label.
* `SetupTerminates`: every Setup call returns.
* `QuiescentCurrentIsLastLinked`: once every saver has returned (none
  died), `profile` names the profile of the saver whose `Symlink` succeeded
  last.
* `CurrentKept`: once a saver has made a profile current, `profile` is
  missing only while some saver is between its `Remove` and its `Symlink`.

Every property of a passing run has a mutant in PROJECT.json that TLC finds
violating it.

**Why these bounds are enough.**
* Two deliveries are what a race needs: two handlers for the same request
  (a duplicate, or approve against deny), or a handler racing the watcher.
* Two requests and two incidents let an incident id be taken for the wrong
  request.
* With a single request, the queue holds at most three events (create, review
  or decision, delete), so every ordering of the watcher against the
  handlers is explored.
* `ExtensionSetup`: page size 1 makes every listing take several pages.
  Three runs of one process cover a failure between the approve and the
  deny extension, a lost create answer, and the restart that repairs them.
  Two processes are what the duplicate-create race needs.
* `ProfileStore`: two savers are what the remove/symlink race needs. Two
  profile names let them make different profiles current. The alias may
  name the profile itself, which exercises the base-name check, or the
  other profile's file. Then `SaveTo` removes that file, and the `profile`
  link or another alias may dangle (profile.go:138). No comment or test says
  what `SaveTo` should do with such an alias, so no property states it; it
  is listed as a hazard.
* The proofs cover every size.

**Fairness.**
* The watcher loop and each handler goroutine keep running while they have
  work, so they are weakly fair.
* Every request's TTL ends, so `ExpireRequest` is weakly fair too.
* A delivery's first step is not fair: PagerDuty need not send one.
* In `ExtensionSetup`, a process inside Setup keeps making calls, so its
  `Step` is weakly fair. Restarts are not fair: nothing restarts the plugin.
* In `AppSupervisor`, the goroutines of the three jobs and of `App.Run` are
  weakly fair.
* `CHECK_DEADLOCK FALSE` is set there only because the process exits once
  `App.Run` has returned. A stop before that is a hang, which
  `ShutdownCompletes` rules out.

## Findings

1. **A request can be decided twice** (`bridge_double_decision`, app.go:207).
   The Pending check and `SetRequestState` are separate calls. Two deliveries
   (a retry, or approve and deny at once) both pass the check, and the request
   goes from approved to denied. The spec (4.4) says a second callback is a
   no-op.
2. **An incident can be resolved twice** (`bridge_double_resolution`,
   app.go:281). `onDeletedRequest` resolves the incident of a request that was
   already decided and resolved, adding a note "expired". The spec (3) says an
   incident is resolved once.
3. **A job's error can be lost** (`supervisor_errors_aggregated`,
   app.go:41). `App.Run` returns only the main job's error. When a worker
   fails while `App.run` waits, that error is the context's, and the worker's
   error is lost. The spec (4.2) promises the aggregate.
   `FailureReported` still holds: some error is always returned.
4. **Two plugin processes install duplicate actions**
   (`setup_concurrent_duplicates`, app.go:485). `Bot.Setup` lists the
   extensions and creates each missing one, with nothing making
   list-then-create atomic. Two processes starting together both list none,
   and both create "Approve Request". The spec (4.5 and 8) says provisioning
   converges to the same two extensions however often it runs. One process
   that restarts, even after a create whose answer was lost, never
   duplicates (`setup_safety`).
5. **A crash loses the current profile** (`profile_crash_loses_current`,
   profile.go:149). `SaveTo` removes the `profile` symlink and creates it
   again in two calls. A tsh process that dies between them leaves no current
   profile, and `ProfileFromDir(dir, "")` fails until the next save.
   Concurrent savers that return are fine (`profile_safety`): the
   loser's `Symlink` fails with "exists", and `SaveTo` returns that error.

## Proofs

`PagerdutyBridgeProofs` proves, for all sets of requests, incidents and
deliveries:
* `TypeCorrect`: `Spec => []TypeOK`;
* `ResolvedOnlyWhenDecidedHolds`: `Spec => []ResolvedOnlyWhenDecided`.

**The inductive invariant.** Neither property is inductive alone. For
example, `OnActionSetState` types only if the handler holds a real
request and a known action name. So both rest on `IInv`, which conjoins:
* `RefOk`: plugin data names an incident created for that request;
* `IncOk`: a created incident's request exists or existed, so a new request
  cannot make it pending again;
* `SaveOk`: the watcher's pending save is of such an incident;
* `EventOk`: queued events name requests that exist or existed, and a delete
  event names a deleted request;
* `HookOk`: a handler past `getPluginData` holds an incident of its request,
  and one about to resolve has seen its request decided.

**The argument.** TLC checked `IInv` as an invariant on 2.8 million states
before the proof. Then:
* `InitIInv` proves that Init establishes it;
* one lemma per action proves that the action preserves it, with one step per
  conjunct the action can disturb;
* the three auth-server writes share `RequestWriteStep`;
* `ResolveIncidentEffect` says what `Bot.ResolveIncident` can change.

`NextIInv` combines the action lemmas, and the theorems follow by PTL.

`BridgeRefinementProofs` proves `BridgeImplementsLifecycle`:
`Spec => ImplementsLifecycle`, that is `Spec => Life!Spec`: every bridge
step is a lifecycle step or leaves requests and incidents unchanged. No
run checks it; the proof covers every instance. It has three parts:
* `InitRefines`: the initial states map to `Life!Init`.
* `NextRefines`: under `IInv`, every `Next` step is a `Life!Next` step or
  leaves `reqState`, `incReq` and `incStatus` unchanged. There is one lemma
  per action that changes them:
  * the auth server's writes are `Create`, `Decide` and `Delete`;
  * `OnPutEvent` is `Open`, because `EventOk` says a queued event's request
    exists or existed;
  * `OnActionSetState` is `Decide`, because `HookOk` says the handler holds a
    request and a known action;
  * `OnDeletedRequest` and `OnActionResolve` are `Resolve` or stutters
    (`ResolveRefines`), because `RefOk`, `EventOk` and `HookOk` say the
    incident belongs to a request that is deleted or decided.
* The theorem: from `Spec => []IInv` and these two lemmas, by PTL.
The only assumption is `BridgeAssumption` (the model values `NoIncident`,
`NoRequest` are not incidents or requests).

`BridgeSafetyProofs` proves two more bridge invariants, for the same sets:
* `DecisionsAuthorized`: `Spec => []DecisionAuthorized`;
* `IncidentsTracked`: `Spec => []EveryIncidentTracked`.

Both need more than `IInv`. `JInv` conjoins `IInv`, the two properties and
two more conjuncts:
* `OnceOk`: the event queue holds at most one put event of a request in the
  pending state, since a request is created once. While that event is
  queued, the request's plugin data is empty and the watcher is not saving
  for it. When the watcher saves, the plugin data it overwrites is empty, so
  `setPluginData` never replaces a recorded incident, which is what keeps
  `EveryIncidentTracked` true although the write has no expected value.
* `HookDataOk`: a handler at `SetRequestState` or at the resolve holds the
  incident that plugin data records for its request. Plugin data is written
  only by the watcher, for a request with no incident, so it never changes
  under a handler.

TLC checked `JInv` on the 389,105 states of `bridge_safety` first. There is
one lemma per action: the auth-server writes (`RequestWriteSafe`), the
environment, and the watcher's and handlers' steps. `NextJInv` conjoins
them with `NextIInv`.

`ExtensionSetupProofs` proves, for any page size, listings, restarts and
number of processes (`SetupAssumption`):
* `SetupTypeCorrect`: `Spec => []TypeOK`;
* `SetupInstallsActions`: `Spec => []InstalledAfterSuccess`;
* `InstalledNeverLost`: `Spec => InstalledKept`;
* `SingleSetupUnique`: `Spec => []ExtensionsUnique` when there is exactly
  one process and no initial listing has two extensions with one label.

Its inductive invariant `EInv` adds two conjuncts to `TypeOK`:
* `IdsOk`: every ID a process has found is a position in the listing that
  holds an extension with that action's label. Extensions are never deleted,
  and an update keeps the label, so the ID stays valid while other processes
  run.
* `ProgressOk`: a process past the approve step has an approve extension
  installed, and one that is done has both. An `Installed` extension stays
  installed: another process's update writes the same value.

`FoundOnPageFact` shows that the last match on a page is a match.
`InstalledNeverLost` follows from `EInv`. Under it, every step keeps each
position's label and only lengthens the listing (`ExtsKept`,
`NextKeepsExts`). So an update of a valid ID rewrites an extension of its
own action with the value that is already installed.

`SingleSetupUnique` needs `UInv`, which adds three conjuncts to `EInv`:
* `UniqueLabels`: no two positions of the listing carry one action's label;
* `ScanOk`: a process in the extension scan at offset `o` has an ID for
  every action labelled at a position up to `o`;
* `AbsentOk`: a process about to run setupCustomAction(a) with no ID for
  `a` has seen a listing with no extension labelled `a`. That listing is the
  current one, because no other process writes.

Two lemmas carry the scan:
* `ScanCovers`: a page extends the scan claim to its end. Its input is
  `FoundOnPageComplete`: a page with a labelled extension yields an ID.
* `MaxExists`: the set of matches has a largest element. It is proved from
  `WFMin` of `WellFoundedInduction`, without induction.

The loop leaves with an ID missing only when no page follows, so the scan
covered the whole listing. `SetupCustomActionU` then shows that a create
adds a label that was absent. `UniqueCardinality` turns `UniqueLabels`
into the cardinality bound of `ExtensionsUnique`.

TLC checked `UInv` on `setup_safety`, with page sizes 1 and 2, before the
proof. With two processes `AbsentOk` fails: each scans before the other
creates (`setup_concurrent_duplicates`).

`ProfileStoreProofs` proves, for any sets of savers, profiles and aliases:
* `ProfileTypeCorrect`: `Spec => []TypeOK`;
* `CurrentIsLastLinked`: `Spec => []QuiescentCurrentIsLastLinked`.

They assume only `ProfileAssumption`: the model values `Current`,
`NoAlias` and `NoSaver` are not names or savers. `ProfileLocation` is a
plain struct, so `AliasPath` may be any name of the directory, another
profile's file included; `Locations` allows that, and `SaveTo` then removes
that file (profile.go:138). The inductive invariant `PInv` conjoins:
* `TypeOK`;
* `LinkedOk`: a present `profile` is the link of the last saver whose
  `Symlink` succeeded, because only a `Symlink` onto a missing name
  succeeds, and no alias is ever `profile`;
* `MissingOk`: a missing `profile` has a saver between its `Remove` and its
  `Symlink`, or a saver that died there;
* `AliasOk`: a saver about to `Symlink` its alias has a name of the directory as alias, so
  that step stays inside the directory.

When no saver is running, `MissingOk` rules out a missing link, so
`LinkedOk` gives `QuiescentCurrentIsLastLinked`.

`AppSupervisorProofs` proves, for any set of failures
(`SupervisorAssumption`); `TypeOK` is proved only, since no plausible slip
in `App.run`'s straight-line code breaks it:
* `SupervisorTypeCorrect`: `Spec => []TypeOK`;
* `FailuresReported`: `Spec => []FailureReported`.

`FailureReported` is not inductive. A step that makes `App.run` return nil
must know that both workers ended without error. `SInv` adds:
* `ErrOnlyWhenDone`: only a job that has returned carries an error;
* `SpawnOrder`: `App.run` spawns each worker from "new", at its own place.
  `waitWatcherDone` comes after the HTTP job is done, and `mainPc` is "done"
  exactly when the main job is;
* `MainNilOk`: a main job that returned nil saw both workers return nil;
* `RunOk`: `App.Run` returns the main job's error after that job is done.

TLC checked `SInv` on the whole state space of `supervisor_safety` before
the proof.

**What stays with TLC.**
* Liveness: `IncidentEventuallyResolved`, `ShutdownCompletes` and
  `SetupTerminates`. These rest on fairness and ENABLED, which are out of
  TLAPS's reach here.
* `ExtensionsUnique` for two or more processes, where it is false
  (`setup_concurrent_duplicates`). It is proved for one process.
* `CurrentKept`, which is false (`profile_crash_loses_current`), and the
  violated properties of the other findings.

## Not modelled, and the plan

* **The note failure at app.go:531.** The model has the code's early
  return: a failed `CreateIncidentNote` skips `ManageIncidents`. The spec
  calls the note best-effort. A property that tells a failed note from a
  failed resolve needs a record of each call's outcome, which the bridge
  does not keep yet.
* **`App.WaitReady` and `PublicURL` (app.go:46, 50).** Their callers are
  outside `src/`, so no property of them is stated.
* **Out of scope.** `WebhookServer`, the certificate logic and
  `access.WatcherJob` are outside this repository's `src/` and are modelled
  only as the environment. Incident body formatting and the version check
  have no state to model. In profile.go, `FullProfilePath`, `Name` and the
  YAML reading and writing are pure. `ioutil.WriteFile` is one step, like
  every other call; a write torn inside it is not modelled.
