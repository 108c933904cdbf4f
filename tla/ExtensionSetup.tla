--------------------------- MODULE ExtensionSetup ---------------------------
(***************************************************************************)
(* Bot.Setup and Bot.setupCustomAction (src/access/pagerduty/app.go):      *)
(* provisioning of the two PagerDuty custom incident actions at startup.   *)
(*                                                                         *)
(* Setup pages through the extension schemas until it finds the custom    *)
(* webhook schema, then through the service's extensions of that schema   *)
(* until it has found both the "Approve Request" and the "Deny Request"    *)
(* extension, and then, for approve and then deny, updates the extension  *)
(* it found or creates one.  Every PagerDuty call is one step; several     *)
(* plugin processes may run Setup at once, and a process may run it again *)
(* after a restart.                                                        *)
(***************************************************************************)
EXTENDS Naturals, Sequences, FiniteSets

CONSTANTS
    Instances,      \* plugin processes that run Setup
    Limit,          \* pdListLimit, the page size of a listing
    MaxRuns,        \* how many times one process runs Setup (restarts)
    CallsMayFail,   \* whether PagerDuty calls may fail
    InitialSchemas, \* the schema listings PagerDuty may hold
    InitialExts     \* the extension listings PagerDuty may start with

\* The endpoint an extension calls: this deployment's listener, or an old one.
URLs == {"current", "stale"}
WebhookSchema == "custom_webhook"
ActionLabel == [approve |-> "Approve Request", deny |-> "Deny Request"]
Extension == [label : {ActionLabel.approve, ActionLabel.deny, "other"},
              url : URLs]

ASSUME SetupAssumption ==
    /\ Limit \in Nat \ {0}
    /\ MaxRuns \in Nat
    /\ CallsMayFail \in BOOLEAN
    /\ InitialSchemas \subseteq Seq({WebhookSchema, "other"})
    /\ InitialExts \subseteq Seq(Extension)

\* The extension IDs are their positions in the listing; "" is 0.
NoID == 0

VARIABLES
    schemas,    \* the extension schemas PagerDuty lists
    exts,       \* the service's custom webhook extensions, in listing order
    setup,      \* each process's place in Setup: pc, page offset, IDs found
    runs        \* how many times each process has started Setup

vars == <<schemas, exts, setup, runs>>

Actions == {"approve", "deny"}
Pcs == {"idle", "schemas", "exts", "approve", "deny", "done", "failed"}
Running == {"schemas", "exts", "approve", "deny"}

\* Setup before its first call: offset 0, no ID found.
Fresh(pc) == [pc |-> pc, offset |-> 0, id |-> [a \in Actions |-> NoID]]

TypeOK ==
    /\ schemas \in InitialSchemas
    /\ exts \in Seq(Extension)
    /\ setup \in [Instances -> [pc : Pcs, offset : Nat, id : [Actions -> Nat]]]
    /\ runs \in [Instances -> 0..MaxRuns]

Init ==
    /\ schemas \in InitialSchemas
    /\ exts \in InitialExts
    /\ setup = [p \in Instances |-> Fresh("idle")]
    /\ runs = [p \in Instances |-> 0]

(***************************************************************************)
(* A listing call returns the page at offset and whether there is more.    *)
(***************************************************************************)
PageEnd(list, offset) ==
    IF offset + Limit < Len(list) THEN offset + Limit ELSE Len(list)
HasMore(list, offset) == offset + Limit < Len(list)

\* Mutant of FoundOnPage: the label test dropped, so the last extension on
\* the page is taken for every action.
FoundOnPageAnyLabel(offset, l) ==
    IF PageEnd(exts, offset) > offset THEN PageEnd(exts, offset) ELSE NoID

\* The ID of the last extension labelled l on the page at offset, or NoID:
\* the loop over the page assigns every match, so the last one stays.
FoundOnPage(offset, l) ==
    LET I == {k \in offset + 1 .. PageEnd(exts, offset) : exts[k].label = l}
        Last == {k \in I : \A j \in I : j <= k}
    IN  IF Last = {} THEN NoID ELSE CHOOSE k \in Last : TRUE

\* The IDs after scanning the page at offset: a later match overrides.
ScanPage(s) ==
    [a \in Actions |->
        IF FoundOnPage(s.offset, ActionLabel[a]) # NoID
        THEN FoundOnPage(s.offset, ActionLabel[a]) ELSE s.id[a]]

\* The second loop's test: an ID is still missing and there is more.
KeepListing(id, more) == (id.approve = NoID \/ id.deny = NoID) /\ more

\* A process (re)starts and calls Setup.
StartSetup(p) ==
    /\ setup[p].pc \in {"idle", "done", "failed"}
    /\ runs[p] < MaxRuns
    /\ runs' = [runs EXCEPT ![p] = @ + 1]
    /\ setup' = [setup EXCEPT ![p] = Fresh("schemas")]
    /\ UNCHANGED <<schemas, exts>>

\* A PagerDuty call of p returns an error, which Setup returns.
CallFails(p) ==
    /\ CallsMayFail
    /\ setup' = [setup EXCEPT ![p].pc = "failed"]

\* One ListExtensionSchemas call of the first loop and the loop test; the
\* second loop starts at offset 0; without the schema Setup returns NotFound.
ListSchemaPage(p) ==
    /\ setup[p].pc = "schemas"
    /\ \/ CallFails(p)
       \/ LET s == setup[p]
              found == \E k \in s.offset + 1 .. PageEnd(schemas, s.offset) :
                          schemas[k] = WebhookSchema
          IN  setup' = [setup EXCEPT ![p] =
                  CASE found -> Fresh("exts")
                    [] ~found /\ HasMore(schemas, s.offset) ->
                          [s EXCEPT !.offset = s.offset + Limit]
                    [] OTHER -> [s EXCEPT !.pc = "failed"]]
    /\ UNCHANGED <<schemas, exts, runs>>

\* Mutant of ListExtensionPage: the offset is not advanced.
ListExtensionPageNoAdvance(p) ==
    /\ setup[p].pc = "exts"
    /\ \/ CallFails(p)
       \/ LET s == setup[p]
              id == ScanPage(s)
          IN  setup' = [setup EXCEPT ![p] =
                  [s EXCEPT !.id = id,
                            !.pc = IF KeepListing(id, HasMore(exts, s.offset))
                                   THEN "exts" ELSE "approve"]]
    /\ UNCHANGED <<schemas, exts, runs>>

\* Mutant of ListExtensionPage: the loop stops after the first page.
ListExtensionFirstPageOnly(p) ==
    /\ setup[p].pc = "exts"
    /\ \/ CallFails(p)
       \/ setup' = [setup EXCEPT ![p] =
                      [setup[p] EXCEPT !.id = ScanPage(setup[p]),
                                       !.pc = "approve"]]
    /\ UNCHANGED <<schemas, exts, runs>>

\* One ListExtensions call of the second loop and the loop test.
ListExtensionPage(p) ==
    /\ setup[p].pc = "exts"
    /\ \/ CallFails(p)
       \/ LET s == setup[p]
              id == ScanPage(s)
          IN  setup' = [setup EXCEPT ![p] =
                  [s EXCEPT !.id = id,
                            !.offset = s.offset + Limit,
                            !.pc = IF KeepListing(id, HasMore(exts, s.offset))
                                   THEN "exts" ELSE "approve"]]
    /\ UNCHANGED <<schemas, exts, runs>>

\* Setup calls setupCustomAction for approve, then for deny.
NextPc == [approve |-> "deny", deny |-> "done"]

\* Mutant of Wanted: the action name is passed where the label goes.
WantedActionName(a) == [label |-> a, url |-> "current"]

\* The extension setupCustomAction writes: its label, this listener's URL.
Wanted(a) == [label |-> ActionLabel[a], url |-> "current"]

\* Mutant of SetupCustomAction: an error of the call is not returned.
SetupCustomActionIgnoringError(p, a) ==
    /\ setup[p].pc = a
    /\ LET id == setup[p].id[a]
       IN  \/ /\ CallsMayFail
              /\ setup' = [setup EXCEPT ![p].pc = NextPc[a]]
              /\ UNCHANGED exts
           \/ /\ id = NoID
              /\ exts' = Append(exts, Wanted(a))
              /\ setup' = [setup EXCEPT ![p].pc = NextPc[a]]
           \/ /\ id # NoID
              /\ exts' = [exts EXCEPT ![id] = Wanted(a)]
              /\ setup' = [setup EXCEPT ![p].pc = NextPc[a]]
    /\ UNCHANGED <<schemas, runs>>

\* setupCustomAction(a): CreateExtension when no ID was found, else
\* UpdateExtension of that ID.  A call may fail before it takes effect, and
\* a create may take effect although its answer is lost (pdHTTPTimeout).
SetupCustomAction(p, a) ==
    /\ setup[p].pc = a
    /\ LET id == setup[p].id[a]
       IN  \/ /\ CallFails(p)
              /\ UNCHANGED exts
           \/ /\ id = NoID
              /\ exts' = Append(exts, Wanted(a))
              /\ \/ setup' = [setup EXCEPT ![p].pc = NextPc[a]]
                 \/ CallFails(p)
           \/ /\ id # NoID
              /\ exts' = [exts EXCEPT ![id] = Wanted(a)]
              /\ setup' = [setup EXCEPT ![p].pc = NextPc[a]]
    /\ UNCHANGED <<schemas, runs>>

\* Every process has run Setup as often as it will.
Finished ==
    /\ \A p \in Instances : setup[p].pc \in {"done", "failed"}
                            /\ runs[p] = MaxRuns
    /\ UNCHANGED vars

Step(p) ==
    \/ ListSchemaPage(p)
    \/ ListExtensionPage(p)
    \/ \E a \in Actions : SetupCustomAction(p, a)

Next ==
    \/ \E p \in Instances : StartSetup(p) \/ Step(p)
    \/ Finished

Spec == Init /\ [][Next]_vars

\* The goroutine that runs Setup keeps making calls while it is in it.
FairSpec == Spec /\ \A p \in Instances : WF_vars(Step(p))

(***************************************************************************)
(* Properties.                                                             *)
(***************************************************************************)

\* The spec's idempotence claim for extension provisioning: however often
\* Setup runs, and whatever call fails on the way, the service never has two
\* extensions with the label of one action.
ExtensionsUnique ==
    \A a \in Actions :
        Cardinality({k \in 1..Len(exts) : exts[k].label = ActionLabel[a]}) <= 1

\* A Setup that returned nil has left an extension of each action, with its
\* own label, that calls this deployment's listener: the stale endpoint of
\* an earlier deployment and a missing action are both repaired.
InstalledAfterSuccess ==
    \A p \in Instances :
        setup[p].pc = "done" =>
            \A a \in Actions : \E k \in 1..Len(exts) : exts[k] = Wanted(a)

\* Some extension of the service is the one setupCustomAction writes for a.
Installed(a) == \E k \in 1..Len(exts) : exts[k] = Wanted(a)

\* An action once installed, with its label and this listener's URL, stays
\* installed whatever any process does: an UpdateExtension of another
\* process only rewrites an extension it found under the same label, and
\* writes the same value.
InstalledKept == [][\A a \in Actions : Installed(a) => Installed(a)']_vars

\* Each Setup call returns: the paged searches end on every listing.
SetupTerminates ==
    \A p \in Instances :
        setup[p].pc \in Running ~> setup[p].pc \in {"done", "failed"}

=============================================================================
