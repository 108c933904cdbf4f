------------------------- MODULE ExtensionSetupProofs -------------------------
(***************************************************************************)
(* Proofs about Bot.Setup, for every number of plugin processes, every     *)
(* page size, every number of restarts and every initial listing.          *)
(***************************************************************************)
EXTENDS ExtensionSetup, FiniteSetTheorems, WellFoundedInduction, TLAPS

(***************************************************************************)
(* The inductive invariant behind InstalledAfterSuccess.  An ID a process  *)
(* has found is the position of an extension with its action's label      *)
(* (IdsOk): UpdateExtension of it rewrites that action's extension and     *)
(* never another's, since labels at a position never change.  A process   *)
(* past setupCustomAction(approve) has left the approve extension, and one *)
(* past setupCustomAction(deny) the deny extension too (ProgressOk).       *)
(***************************************************************************)
IdValid(i, a, list) ==
    i # NoID => i \in 1..Len(list) /\ list[i].label = ActionLabel[a]

IdsOk == \A p \in Instances, a \in Actions : IdValid(setup[p].id[a], a, exts)

ProgressOk ==
    \A p \in Instances :
        /\ setup[p].pc \in {"deny", "done"} => Installed("approve")
        /\ setup[p].pc = "done" => Installed("deny")

EInv == TypeOK /\ IdsOk /\ ProgressOk


\* The shape of a process's Setup state.
SetupState == [pc : Pcs, offset : Nat, id : [Actions -> Nat]]

(***************************************************************************)
(* Lemmas about the model's data.                                          *)
(***************************************************************************)

\* The two actions have distinct labels, and what setupCustomAction writes
\* is an extension.
LEMMA LabelFacts ==
    /\ \A a, b \in Actions : ActionLabel[a] = ActionLabel[b] => a = b
    /\ \A a \in Actions : Wanted(a) \in Extension
    /\ \A a \in Actions : Wanted(a).label = ActionLabel[a]
BY DEF Actions, ActionLabel, Wanted, Extension, URLs

\* A page ends within the listing.
LEMMA PageEndBound ==
    ASSUME NEW list \in Seq(Extension), NEW offset \in Nat
    PROVE  PageEnd(list, offset) \in 0..Len(list)
BY SetupAssumption DEF PageEnd

\* The ID the loop over a page keeps is NoID or a position on the page with
\* the label looked for.
LEMMA FoundOnPageFact ==
    ASSUME exts \in Seq(Extension), NEW offset \in Nat, NEW l
    PROVE  /\ FoundOnPage(offset, l) \in Nat
           /\ FoundOnPage(offset, l) # NoID =>
                 /\ FoundOnPage(offset, l) \in 1..Len(exts)
                 /\ exts[FoundOnPage(offset, l)].label = l
<1> DEFINE I == {k \in offset + 1 .. PageEnd(exts, offset) : exts[k].label = l}
           Last == {k \in I : \A j \in I : j <= k}
<1>0. PageEnd(exts, offset) \in 0..Len(exts)
    BY PageEndBound
<1>1. I \subseteq 1..Len(exts)
    BY <1>0
<1>2. CASE Last = {}
    BY <1>2 DEF FoundOnPage, NoID
<1>3. CASE Last # {}
    <2>1. FoundOnPage(offset, l) = CHOOSE k \in Last : TRUE
        BY <1>3 DEF FoundOnPage
    <2>2. (CHOOSE k \in Last : TRUE) \in I
        BY <1>3
    <2>3. QED
        BY <1>1, <2>1, <2>2
<1>4. QED
    BY <1>2, <1>3

(***************************************************************************)
(* The two writes of setupCustomAction(a): CreateExtension appends, and    *)
(* UpdateExtension of a valid ID of a rewrites an extension that has a's   *)
(* label already.  Neither changes the label at a position, and after      *)
(* either the extension of a is there and every installed one still is.    *)
(***************************************************************************)
ExtsKept ==
    /\ exts' \in Seq(Extension)
    /\ Len(exts) <= Len(exts')
    /\ \A k \in 1..Len(exts) : exts'[k].label = exts[k].label
    /\ \A b \in Actions : Installed(b) => Installed(b)'

LEMMA CreateExtensionEffect ==
    ASSUME exts \in Seq(Extension), NEW a \in Actions,
           exts' = Append(exts, Wanted(a))
    PROVE  ExtsKept /\ Installed(a)'
<1>1. Wanted(a) \in Extension
    BY LabelFacts
<1>2. /\ exts' \in Seq(Extension)
      /\ Len(exts') = Len(exts) + 1
      /\ \A k \in 1..Len(exts) : exts'[k] = exts[k]
      /\ exts'[Len(exts) + 1] = Wanted(a)
    BY <1>1
<1>3. QED
    BY <1>2 DEF ExtsKept, Installed

LEMMA UpdateExtensionEffect ==
    ASSUME exts \in Seq(Extension), NEW a \in Actions, NEW i \in Nat,
           i # NoID, IdValid(i, a, exts),
           exts' = [exts EXCEPT ![i] = Wanted(a)]
    PROVE  ExtsKept /\ Installed(a)'
<1>1. /\ i \in 1..Len(exts)
      /\ exts[i].label = ActionLabel[a]
      /\ Wanted(a) \in Extension
      /\ Wanted(a).label = ActionLabel[a]
    BY LabelFacts DEF IdValid
<1>2. /\ exts' \in Seq(Extension)
      /\ Len(exts') = Len(exts)
      /\ exts'[i] = Wanted(a)
      /\ \A k \in 1..Len(exts) \ {i} : exts'[k] = exts[k]
    BY <1>1
<1>3. \A k \in 1..Len(exts) : exts'[k].label = exts[k].label
    BY <1>1, <1>2
<1>4. ASSUME NEW b \in Actions, Installed(b) PROVE Installed(b)'
    <2>1. PICK k \in 1..Len(exts) : exts[k] = Wanted(b)
        BY <1>4 DEF Installed
    <2>2. CASE k = i
        <3>1. b = a
            BY <1>1, <2>1, <2>2, LabelFacts
        <3>2. QED
            BY <1>2, <2>2, <3>1 DEF Installed
    <2>3. CASE k # i
        BY <1>2, <2>1, <2>3 DEF Installed
    <2>4. QED
        BY <2>2, <2>3
<1>5. QED
    BY <1>1, <1>2, <1>3, <1>4 DEF ExtsKept, Installed

\* An ID stays valid while the listing only grows and keeps its labels.
LEMMA IdStaysValid ==
    ASSUME NEW i \in Nat, NEW a \in Actions, IdValid(i, a, exts), ExtsKept
    PROVE  IdValid(i, a, exts')
BY DEF IdValid, ExtsKept


\* A step that leaves the listing alone keeps it.
LEMMA ExtsSame ==
    ASSUME exts \in Seq(Extension), exts' = exts
    PROVE  ExtsKept
BY DEF ExtsKept, Installed

(***************************************************************************)
(* Every step of process p changes only p's Setup state, to v.  EInv is    *)
(* kept when v is well formed, its IDs are valid in the new listing, and   *)
(* the extensions its pc claims are there; the other processes' IDs and    *)
(* claims survive because the listing keeps its labels and extensions.     *)
(***************************************************************************)
LEMMA SetupUpdate ==
    ASSUME EInv, NEW p \in Instances, NEW v \in SetupState,
           setup' = [setup EXCEPT ![p] = v],
           ExtsKept, schemas' = schemas, runs' \in [Instances -> 0..MaxRuns],
           \A a \in Actions : IdValid(v.id[a], a, exts'),
           v.pc \in {"deny", "done"} => Installed("approve")',
           v.pc = "done" => Installed("deny")'
    PROVE  EInv'
<1>1. /\ setup \in [Instances -> SetupState]
      /\ schemas \in InitialSchemas
      /\ IdsOk /\ ProgressOk
    BY DEF EInv, TypeOK, SetupState
<1>2. TypeOK'
    BY <1>1 DEF TypeOK, ExtsKept, SetupState
<1>3. IdsOk'
    <2> SUFFICES ASSUME NEW q \in Instances, NEW a \in Actions
                 PROVE  IdValid(setup'[q].id[a], a, exts')
        BY DEF IdsOk
    <2>1. CASE q = p
        BY <1>1, <2>1
    <2>2. CASE q # p
        <3>1. setup'[q] = setup[q] /\ setup[q].id[a] \in Nat
            BY <1>1, <2>2 DEF SetupState
        <3>2. IdValid(setup[q].id[a], a, exts)
            BY <1>1 DEF IdsOk
        <3>3. QED
            BY <3>1, <3>2, IdStaysValid
    <2>3. QED
        BY <2>1, <2>2
<1>4. ProgressOk'
    <2> SUFFICES ASSUME NEW q \in Instances
                 PROVE  /\ setup'[q].pc \in {"deny", "done"} => Installed("approve")'
                        /\ setup'[q].pc = "done" => Installed("deny")'
        BY DEF ProgressOk
    <2>1. CASE q = p
        BY <1>1, <2>1
    <2>2. CASE q # p
        <3>1. setup'[q] = setup[q]
            BY <1>1, <2>2
        <3>2. /\ setup[q].pc \in {"deny", "done"} => Installed("approve")
              /\ setup[q].pc = "done" => Installed("deny")
            BY <1>1 DEF ProgressOk
        <3>3. QED
            BY <3>1, <3>2 DEF ExtsKept, Actions
    <2>3. QED
        BY <2>1, <2>2
<1>5. QED
    BY <1>2, <1>3, <1>4 DEF EInv

\* The facts about p's own state that every step below starts from.
LEMMA OwnState ==
    ASSUME EInv, NEW p \in Instances
    PROVE  /\ setup[p] \in SetupState
           /\ exts \in Seq(Extension)
           /\ \A a \in Actions : IdValid(setup[p].id[a], a, exts)
           /\ setup[p].pc \in {"deny", "done"} => Installed("approve")
BY DEF EInv, TypeOK, SetupState, IdsOk, ProgressOk

\* A call of p fails: only its pc changes, to "failed".
LEMMA CallFailsStep ==
    ASSUME EInv, NEW p \in Instances, CallFails(p),
           UNCHANGED <<schemas, exts, runs>>
    PROVE  EInv'
<1>1. /\ setup[p] \in SetupState
      /\ exts \in Seq(Extension)
      /\ \A a \in Actions : IdValid(setup[p].id[a], a, exts)
    BY OwnState
<1> DEFINE v == [setup[p] EXCEPT !.pc = "failed"]
<1>2. v \in SetupState /\ setup' = [setup EXCEPT ![p] = v]
    BY <1>1 DEF CallFails, SetupState, Pcs
<1>3. ExtsKept
    BY <1>1, ExtsSame
<1>4. \A a \in Actions : IdValid(v.id[a], a, exts')
    BY <1>1, <1>3, IdStaysValid DEF SetupState
<1>5. /\ runs' \in [Instances -> 0..MaxRuns]
      /\ schemas' = schemas
      /\ v.pc = "failed"
    BY <1>1 DEF EInv, TypeOK, SetupState
<1>6. QED
    BY <1>2, <1>3, <1>4, <1>5, SetupUpdate

\* Setup starts afresh, with no ID found.
LEMMA StartSetupStep ==
    ASSUME EInv, NEW p \in Instances, StartSetup(p)
    PROVE  EInv'
<1>1. exts \in Seq(Extension) /\ runs \in [Instances -> 0..MaxRuns]
    BY DEF EInv, TypeOK
<1>2. /\ Fresh("schemas") \in SetupState
      /\ \A a \in Actions : IdValid(Fresh("schemas").id[a], a, exts')
    BY DEF Fresh, SetupState, Pcs, IdValid, NoID
<1>3. /\ runs' \in [Instances -> 0..MaxRuns]
      /\ setup' = [setup EXCEPT ![p] = Fresh("schemas")]
      /\ exts' = exts /\ schemas' = schemas
      /\ Fresh("schemas").pc = "schemas"
    BY <1>1, SetupAssumption DEF StartSetup, Fresh
<1>4. ExtsKept
    BY <1>1, <1>3, ExtsSame
<1>5. QED
    BY <1>2, <1>3, <1>4, SetupUpdate

\* One page of schemas: the second loop starts, the first goes on, or
\* Setup returns NotFound.
LEMMA ListSchemaPageStep ==
    ASSUME EInv, NEW p \in Instances, ListSchemaPage(p)
    PROVE  EInv'
<1>1. /\ setup[p] \in SetupState
      /\ exts \in Seq(Extension)
      /\ \A a \in Actions : IdValid(setup[p].id[a], a, exts)
      /\ runs \in [Instances -> 0..MaxRuns]
      /\ UNCHANGED <<schemas, exts, runs>>
    BY OwnState DEF EInv, TypeOK, ListSchemaPage
<1>2. ExtsKept
    BY <1>1, ExtsSame
<1>3. CASE CallFails(p)
    BY <1>1, <1>3, CallFailsStep
<1>4. CASE ~CallFails(p)
    <2> DEFINE s == setup[p]
               found == \E k \in s.offset + 1 .. PageEnd(schemas, s.offset) :
                           schemas[k] = WebhookSchema
               v == CASE found -> Fresh("exts")
                      [] ~found /\ HasMore(schemas, s.offset) ->
                            [s EXCEPT !.offset = s.offset + Limit]
                      [] OTHER -> [s EXCEPT !.pc = "failed"]
    <2>1. setup' = [setup EXCEPT ![p] = v]
        BY <1>4 DEF ListSchemaPage
    <2>2. /\ v \in SetupState
          /\ v.pc \in {"exts", "schemas", "failed"}
          /\ \A a \in Actions : v.id[a] = NoID \/ v.id[a] = s.id[a]
        <3>1. s.pc = "schemas" /\ s.offset + Limit \in Nat
            BY <1>1, SetupAssumption DEF ListSchemaPage, SetupState
        <3>2. CASE found
            BY <3>2 DEF Fresh, SetupState, Pcs, NoID
        <3>3. CASE ~found /\ HasMore(schemas, s.offset)
            BY <1>1, <3>1, <3>3 DEF SetupState
        <3>4. CASE ~found /\ ~HasMore(schemas, s.offset)
            BY <1>1, <3>4 DEF SetupState, Pcs
        <3>5. QED
            BY <3>2, <3>3, <3>4
    <2>3. \A a \in Actions : IdValid(v.id[a], a, exts')
        BY <1>1, <1>2, <2>2, IdStaysValid DEF IdValid, SetupState, NoID
    <2>4. QED
        BY <1>1, <1>2, <2>1, <2>2, <2>3, SetupUpdate
<1>5. QED
    BY <1>3, <1>4


(***************************************************************************)
(* One page of extensions: every ID the scan keeps is a position with its  *)
(* action's label (FoundOnPageFact), or the one found on an earlier page.  *)
(***************************************************************************)
LEMMA ScanPageFact ==
    ASSUME exts \in Seq(Extension), NEW s \in SetupState,
           \A a \in Actions : IdValid(s.id[a], a, exts)
    PROVE  /\ ScanPage(s) \in [Actions -> Nat]
           /\ \A a \in Actions : IdValid(ScanPage(s)[a], a, exts)
<1> SUFFICES ASSUME NEW a \in Actions
             PROVE  /\ ScanPage(s)[a] \in Nat
                    /\ IdValid(ScanPage(s)[a], a, exts)
    BY DEF ScanPage
<1>1. /\ FoundOnPage(s.offset, ActionLabel[a]) \in Nat
      /\ FoundOnPage(s.offset, ActionLabel[a]) # NoID =>
            /\ FoundOnPage(s.offset, ActionLabel[a]) \in 1..Len(exts)
            /\ exts[FoundOnPage(s.offset, ActionLabel[a])].label = ActionLabel[a]
    BY FoundOnPageFact DEF SetupState
<1>2. s.id[a] \in Nat /\ IdValid(s.id[a], a, exts)
    BY DEF SetupState
<1>3. QED
    BY <1>1, <1>2 DEF ScanPage, IdValid

LEMMA ListExtensionPageStep ==
    ASSUME EInv, NEW p \in Instances, ListExtensionPage(p)
    PROVE  EInv'
<1>1. /\ setup[p] \in SetupState
      /\ exts \in Seq(Extension)
      /\ \A a \in Actions : IdValid(setup[p].id[a], a, exts)
      /\ runs \in [Instances -> 0..MaxRuns]
      /\ setup[p].pc = "exts"
      /\ UNCHANGED <<schemas, exts, runs>>
    BY OwnState DEF EInv, TypeOK, ListExtensionPage
<1>2. ExtsKept
    BY <1>1, ExtsSame
<1>3. CASE CallFails(p)
    BY <1>1, <1>3, CallFailsStep
<1>4. CASE ~CallFails(p)
    <2> DEFINE s == setup[p]
               id == ScanPage(s)
               v == [s EXCEPT !.id = id,
                              !.offset = s.offset + Limit,
                              !.pc = IF KeepListing(id, HasMore(exts, s.offset))
                                     THEN "exts" ELSE "approve"]
    <2>1. setup' = [setup EXCEPT ![p] = v]
        BY <1>4 DEF ListExtensionPage
    <2>2. id \in [Actions -> Nat] /\ \A a \in Actions : IdValid(id[a], a, exts)
        BY <1>1, ScanPageFact
    <2>3. v \in SetupState /\ v.pc \in {"exts", "approve"}
        <3>1. s.offset + Limit \in Nat
            BY <1>1, SetupAssumption DEF SetupState
        <3>2. (IF KeepListing(id, HasMore(exts, s.offset)) THEN "exts"
                                                          ELSE "approve")
                  \in {"exts", "approve"}
            OBVIOUS
        <3>3. PICK c \in {"exts", "approve"} :
                  c = IF KeepListing(id, HasMore(exts, s.offset))
                      THEN "exts" ELSE "approve"
            BY <3>2
        <3>4. v = [s EXCEPT !.id = id, !.offset = s.offset + Limit, !.pc = c]
            BY <3>3
        <3>5. QED
            BY <1>1, <2>2, <3>1, <3>4 DEF SetupState, Pcs
    <2>4. \A a \in Actions : IdValid(v.id[a], a, exts')
        BY <1>1, <1>2, <2>2, IdStaysValid DEF SetupState
    <2>5. QED
        BY <1>1, <1>2, <2>1, <2>3, <2>4, SetupUpdate
<1>5. QED
    BY <1>3, <1>4

(***************************************************************************)
(* setupCustomAction(a): the create or update leaves a's extension in the  *)
(* listing (CreateExtensionEffect, UpdateExtensionEffect) before p moves   *)
(* on to the next action, and p moves on only when its call succeeded.    *)
(***************************************************************************)
LEMMA SetupCustomActionStep ==
    ASSUME EInv, NEW p \in Instances, NEW a \in Actions, SetupCustomAction(p, a)
    PROVE  EInv'
<1> DEFINE s == setup[p]
           id == s.id[a]
           v == [s EXCEPT !.pc = NextPc[a]]
<1>1. /\ s \in SetupState
      /\ exts \in Seq(Extension)
      /\ \A b \in Actions : IdValid(s.id[b], b, exts)
      /\ s.pc \in {"deny", "done"} => Installed("approve")
      /\ runs \in [Instances -> 0..MaxRuns]
      /\ s.pc = a
      /\ UNCHANGED <<schemas, runs>>
    BY OwnState DEF EInv, TypeOK, SetupCustomAction
<1>2. /\ v \in SetupState
      /\ v.id = s.id
      /\ v.pc = NextPc[a]
      /\ id \in Nat
    BY <1>1 DEF SetupState, Pcs, NextPc, Actions
\* The claim of the next pc: approve's extension after approve; after deny
\* also approve's, which was there when p reached deny.
<1>3. ASSUME ExtsKept, Installed(a)'
      PROVE  /\ v.pc \in {"deny", "done"} => Installed("approve")'
             /\ v.pc = "done" => Installed("deny")'
    <2>1. CASE a = "approve"
        BY <1>2, <1>3, <2>1 DEF NextPc
    <2>2. CASE a = "deny"
        <3>1. Installed("approve")
            BY <1>1, <2>2
        <3>2. Installed("approve")'
            BY <1>3, <3>1 DEF ExtsKept, Actions
        <3>3. QED
            BY <1>2, <1>3, <2>2, <3>2 DEF NextPc
    <2>3. QED
        BY <2>1, <2>2 DEF Actions
\* p goes on with the IDs it had.
<1>4. ASSUME ExtsKept, setup' = [setup EXCEPT ![p] = v], Installed(a)'
      PROVE  EInv'
    <2>1. \A b \in Actions : IdValid(v.id[b], b, exts')
        BY <1>1, <1>2, <1>4, IdStaysValid DEF SetupState
    <2>2. QED
        BY <1>1, <1>2, <1>3, <1>4, <2>1, SetupUpdate
<1>5. CASE CallFails(p) /\ UNCHANGED exts
    BY <1>1, <1>5, CallFailsStep
<1>6. CASE /\ id = NoID
           /\ exts' = Append(exts, Wanted(a))
           /\ \/ setup' = [setup EXCEPT ![p].pc = NextPc[a]]
              \/ CallFails(p)
    <2>1. ExtsKept /\ Installed(a)'
        BY <1>1, <1>6, CreateExtensionEffect
    <2>2. CASE setup' = [setup EXCEPT ![p].pc = NextPc[a]]
        <3>1. setup' = [setup EXCEPT ![p] = v]
            BY <1>1, <2>2 DEF EInv, TypeOK
        <3>2. QED
            BY <1>4, <2>1, <3>1
    <2>3. CASE CallFails(p)
        \* The create took effect but its answer was lost: p has failed.
        <3> DEFINE f == [s EXCEPT !.pc = "failed"]
        <3>1. f \in SetupState /\ f.pc = "failed" /\ f.id = s.id
            BY <1>1 DEF SetupState, Pcs
        <3>2. setup' = [setup EXCEPT ![p] = f]
            BY <2>3 DEF CallFails
        <3>3. \A b \in Actions : IdValid(f.id[b], b, exts')
            BY <1>1, <2>1, <3>1, IdStaysValid DEF SetupState
        <3>4. QED
            BY <1>1, <2>1, <3>1, <3>2, <3>3, SetupUpdate
    <2>4. QED
        BY <1>6, <2>2, <2>3
<1>7. CASE /\ id # NoID
           /\ exts' = [exts EXCEPT ![id] = Wanted(a)]
           /\ setup' = [setup EXCEPT ![p].pc = NextPc[a]]
    <2>1. ExtsKept /\ Installed(a)'
        BY <1>1, <1>2, <1>7, UpdateExtensionEffect
    <2>2. setup' = [setup EXCEPT ![p] = v]
        BY <1>1, <1>7 DEF EInv, TypeOK
    <2>3. QED
        BY <1>4, <2>1, <2>2
<1>8. QED
    BY <1>5, <1>6, <1>7 DEF SetupCustomAction

(***************************************************************************)
(* The initial state and every step keep EInv.                             *)
(***************************************************************************)
LEMMA InitEInv == Init => EInv
<1> SUFFICES ASSUME Init PROVE EInv
    OBVIOUS
<1>1. TypeOK
    BY SetupAssumption DEF Init, TypeOK, Fresh, Pcs, NoID
<1>2. IdsOk /\ ProgressOk
    BY DEF Init, Fresh, IdsOk, IdValid, ProgressOk
<1>3. QED
    BY <1>1, <1>2 DEF EInv

LEMMA NextEInv == EInv /\ [Next]_vars => EInv'
<1> SUFFICES ASSUME EInv, [Next]_vars PROVE EInv'
    OBVIOUS
<1>1. ASSUME NEW p \in Instances, StartSetup(p) \/ Step(p) PROVE EInv'
    BY <1>1, StartSetupStep, ListSchemaPageStep, ListExtensionPageStep,
       SetupCustomActionStep DEF Step
<1>2. CASE Finished \/ UNCHANGED vars
    BY <1>2 DEF Finished, vars, EInv, TypeOK, IdsOk, IdValid, ProgressOk,
       Installed
<1>3. QED
    BY <1>1, <1>2 DEF Next

\* EInv holds in every reachable state.
LEMMA AlwaysEInv == Spec => []EInv
BY InitEInv, NextEInv, PTL DEF Spec

(***************************************************************************)
(* TypeOK of Bot.Setup's model, for every number of processes, page size, *)
(* restarts and initial listing.                                           *)
(***************************************************************************)
THEOREM SetupTypeCorrect == Spec => []TypeOK
BY AlwaysEInv, PTL DEF EInv

(***************************************************************************)
(* InstalledAfterSuccess for every number of concurrent plugin processes,  *)
(* restarts, failing calls and lost create answers, every page size and    *)
(* every initial listing: a Setup that returned nil has left the approve   *)
(* and the deny extension with this listener's URL.                        *)
(***************************************************************************)
LEMMA EInvInstalled == EInv => InstalledAfterSuccess
BY DEF EInv, ProgressOk, InstalledAfterSuccess, Installed, Actions

\* InstalledAfterSuccess holds in every reachable state.
THEOREM SetupInstallsActions == Spec => []InstalledAfterSuccess
BY AlwaysEInv, EInvInstalled, PTL

(***************************************************************************)
(* Every step keeps the extensions: only setupCustomAction writes them,    *)
(* and its create and update keep every installed extension.              *)
(***************************************************************************)
LEMMA CustomActionKeeps ==
    ASSUME EInv, NEW p \in Instances, NEW a \in Actions, SetupCustomAction(p, a)
    PROVE  ExtsKept
<1> DEFINE id == setup[p].id[a]
<1>1. /\ exts \in Seq(Extension)
      /\ IdValid(id, a, exts)
      /\ id \in Nat
    BY OwnState DEF EInv, IdsOk, SetupState
<1>2. CASE CallFails(p) /\ UNCHANGED exts
    BY <1>1, <1>2, ExtsSame
<1>3. CASE id = NoID /\ exts' = Append(exts, Wanted(a))
    BY <1>1, <1>3, CreateExtensionEffect
<1>4. CASE id # NoID /\ exts' = [exts EXCEPT ![id] = Wanted(a)]
    BY <1>1, <1>4, UpdateExtensionEffect
<1> QED
    BY <1>2, <1>3, <1>4 DEF SetupCustomAction

LEMMA NextKeepsExts == EInv /\ [Next]_vars => ExtsKept
<1> SUFFICES ASSUME EInv, [Next]_vars PROVE ExtsKept
    OBVIOUS
<1>1. exts \in Seq(Extension)
    BY DEF EInv, TypeOK
<1>2. CASE \E p \in Instances, a \in Actions : SetupCustomAction(p, a)
    BY <1>2, CustomActionKeeps
<1>3. CASE UNCHANGED exts
    BY <1>1, <1>3, ExtsSame
<1> QED
    BY <1>2, <1>3 DEF Next, Step, StartSetup, ListSchemaPage,
                      ListExtensionPage, Finished, vars

(***************************************************************************)
(* InstalledKept for every number of concurrent plugin processes, restarts *)
(* and failing calls: once an action's extension with this listener's URL *)
(* is there, no process's UpdateExtension or CreateExtension removes it.   *)
(***************************************************************************)
THEOREM InstalledNeverLost == Spec => InstalledKept
<1>1. EInv /\ [Next]_vars =>
          [\A a \in Actions : Installed(a) => Installed(a)']_vars
    BY NextKeepsExts DEF ExtsKept
<1> QED
    BY <1>1, AlwaysEInv, PTL DEF InstalledKept, Spec

(***************************************************************************)
(* ExtensionsUnique with one plugin process.  Setup creates an extension   *)
(* only when its scan of the whole listing found none with that label:     *)
(* ScanOk says every extension before the scan's offset with an action's   *)
(* label has given that action an ID, and AbsentOk that an action still to *)
(* be set up without an ID has no extension at all.  A restart scans       *)
(* again, so a create whose answer was lost is found the next time.  With  *)
(* two processes this fails: the other may create between the scan and    *)
(* the create (setup_concurrent_duplicates).                               *)
(***************************************************************************)
UniqueLabels(list) ==
    \A a \in Actions : \A k, j \in 1..Len(list) :
        list[k].label = ActionLabel[a] /\ list[j].label = ActionLabel[a] =>
            k = j

\* setupCustomAction(a) is still to come at pc: a itself, or deny at approve.
Pending(pc, a) == pc = a \/ (a = "deny" /\ pc = "approve")

\* What the scan state v of a process claims of the listing.
ScanClaim(v) ==
    v.pc = "exts" =>
        \A a \in Actions, k \in 1..Len(exts) :
            k <= v.offset /\ exts[k].label = ActionLabel[a] => v.id[a] # NoID

AbsentClaim(v) ==
    \A a \in Actions :
        Pending(v.pc, a) /\ v.id[a] = NoID =>
            \A k \in 1..Len(exts) : exts[k].label # ActionLabel[a]

ScanOk == \A p \in Instances : ScanClaim(setup[p])

AbsentOk == \A p \in Instances : AbsentClaim(setup[p])

\* The conjuncts of UInv beyond EInv.
UOk == UniqueLabels(exts) /\ ScanOk /\ AbsentOk

UInv == EInv /\ UOk

\* A nonempty set of naturals with an upper bound has a largest element.
LEMMA MaxExists ==
    ASSUME NEW I \in SUBSET Nat, I # {}, NEW n \in Nat, \A k \in I : k <= n
    PROVE  \E k \in I : \A j \in I : j <= k
<1> DEFINE T == {n - k : k \in I}
<1>1. T \subseteq Nat /\ T # {}
    <2>1. \A k \in I : n - k \in Nat
        OBVIOUS
    <2>2. PICK k0 \in I : TRUE
        OBVIOUS
    <2>3. n - k0 \in T
        OBVIOUS
    <2> QED
        BY <2>1, <2>3
<1>2. PICK x \in T : \A y \in T : ~(<<y, x>> \in OpToRel(<, Nat))
    BY <1>1, WFMin, NatLessThanWellFounded, Zenon
<1>3. \A y \in T : ~(y < x)
    BY <1>1, <1>2 DEF OpToRel
<1>4. PICK k \in I : x = n - k
    BY <1>2
<1>5. ASSUME NEW j \in I PROVE j <= k
    <2>1. n - j \in T
        OBVIOUS
    <2>2. ~(n - j < n - k)
        BY <2>1, <1>3, <1>4
    <2>3. j \in Nat /\ k \in Nat
        BY <1>4
    <2> QED
        BY <2>2, <2>3
<1> QED
    BY <1>5

\* The loop over a page finds an extension labelled l if the page has one.
LEMMA FoundOnPageComplete ==
    ASSUME exts \in Seq(Extension), NEW offset \in Nat, NEW l,
           NEW k \in offset + 1 .. PageEnd(exts, offset), exts[k].label = l
    PROVE  FoundOnPage(offset, l) # NoID
<1> DEFINE I == {j \in offset + 1 .. PageEnd(exts, offset) : exts[j].label = l}
           Last == {j \in I : \A i \in I : i <= j}
<1>1. PageEnd(exts, offset) \in Nat
    BY PageEndBound
<1>2. I \in SUBSET Nat /\ I # {} /\ \A j \in I : j <= PageEnd(exts, offset)
    BY <1>1
<1>3. Last # {}
    BY <1>1, <1>2, MaxExists
<1>4. FoundOnPage(offset, l) = CHOOSE j \in Last : TRUE
    BY <1>3 DEF FoundOnPage
<1>5. FoundOnPage(offset, l) \in offset + 1 .. PageEnd(exts, offset)
    BY <1>3, <1>4
<1> QED
    BY <1>1, <1>5 DEF NoID

\* A scan of the page at offset, after every earlier extension with an
\* action's label gave it an ID, leaves an ID for each such extension up to
\* the page's end.
LEMMA ScanCovers ==
    ASSUME exts \in Seq(Extension), NEW s \in SetupState,
           \A a \in Actions, k \in 1..Len(exts) :
               k <= s.offset /\ exts[k].label = ActionLabel[a] => s.id[a] # NoID,
           NEW a \in Actions, NEW k \in 1..Len(exts),
           k <= s.offset + Limit, exts[k].label = ActionLabel[a]
    PROVE  ScanPage(s)[a] # NoID
<1>1. s.offset \in Nat /\ Limit \in Nat
    BY SetupAssumption DEF SetupState
<1>2. CASE k <= s.offset
    BY <1>2 DEF ScanPage
<1>3. CASE ~(k <= s.offset)
    <2>1. k \in s.offset + 1 .. PageEnd(exts, s.offset)
        BY <1>1, <1>3 DEF PageEnd
    <2>2. FoundOnPage(s.offset, ActionLabel[a]) # NoID
        BY <1>1, <2>1, FoundOnPageComplete
    <2> QED
        BY <2>2 DEF ScanPage
<1> QED
    BY <1>2, <1>3

\* Unique labels bound the number of extensions of an action by one.
LEMMA UniqueCardinality ==
    ASSUME exts \in Seq(Extension), UniqueLabels(exts)
    PROVE  ExtensionsUnique
<1> SUFFICES ASSUME NEW a \in Actions
             PROVE  Cardinality({k \in 1..Len(exts) :
                                    exts[k].label = ActionLabel[a]}) <= 1
    BY DEF ExtensionsUnique
<1> DEFINE S == {k \in 1..Len(exts) : exts[k].label = ActionLabel[a]}
<1>1. CASE S = {}
    <2>1. Cardinality(S) = 0
        BY <1>1, FS_EmptySet, Zenon
    <2> QED
        BY <2>1
<1>2. CASE S # {}
    <2>1. PICK k0 \in S : TRUE
        BY <1>2
    <2>2. S = {k0}
        BY <2>1 DEF UniqueLabels
    <2>3. Cardinality(S) = 1
        BY <2>2, FS_Singleton, Zenon
    <2> QED
        BY <2>3
<1> QED
    BY <1>1, <1>2

(***************************************************************************)
(* A step of p that leaves the listing alone keeps UOk when p's new state  *)
(* v makes true claims; the other processes' claims are about the same     *)
(* listing.                                                                *)
(***************************************************************************)
LEMMA UUpdate ==
    ASSUME UInv, NEW p \in Instances, NEW v,
           setup' = [setup EXCEPT ![p] = v], exts' = exts,
           ScanClaim(v), AbsentClaim(v)
    PROVE  UOk'
<1>1. setup \in [Instances -> SetupState] /\ UOk
    BY DEF UInv, EInv, TypeOK, SetupState
<1>2. \A q \in Instances : setup'[q] = IF q = p THEN v ELSE setup[q]
    BY <1>1
<1>3. UniqueLabels(exts)'
    BY <1>1 DEF UOk, UniqueLabels
<1>4. ScanOk'
    BY <1>1, <1>2 DEF UOk, ScanOk, ScanClaim
<1>5. AbsentOk'
    BY <1>1, <1>2 DEF UOk, AbsentOk, AbsentClaim, Pending
<1> QED
    BY <1>3, <1>4, <1>5 DEF UOk

\* A state whose pc is neither the scan nor a pending setupCustomAction
\* claims nothing.
LEMMA IdleClaims ==
    ASSUME NEW v, v.pc \in {"idle", "schemas", "done", "failed"}
    PROVE  ScanClaim(v) /\ AbsentClaim(v)
BY DEF ScanClaim, AbsentClaim, Pending, Actions

LEMMA StartSetupU ==
    ASSUME UInv, NEW p \in Instances, StartSetup(p) PROVE UOk'
<1>1. Fresh("schemas").pc = "schemas"
    BY DEF Fresh
<1>2. ScanClaim(Fresh("schemas")) /\ AbsentClaim(Fresh("schemas"))
    BY <1>1, IdleClaims
<1>3. setup' = [setup EXCEPT ![p] = Fresh("schemas")] /\ exts' = exts
    BY DEF StartSetup
<1> QED
    BY <1>2, <1>3, UUpdate

LEMMA CallFailsU ==
    ASSUME UInv, NEW p \in Instances, CallFails(p), exts' = exts
    PROVE  UOk'
<1>1. setup[p] \in SetupState
    BY OwnState DEF UInv
<1>2. \E v : v.pc = "failed" /\ setup' = [setup EXCEPT ![p] = v]
    BY <1>1 DEF CallFails, SetupState
<1>3. PICK v : v.pc = "failed" /\ setup' = [setup EXCEPT ![p] = v]
    BY <1>2
<1>4. ScanClaim(v) /\ AbsentClaim(v)
    BY <1>3, IdleClaims
<1> QED
    BY <1>3, <1>4, UUpdate

\* The extension scan starts at offset 0, where it claims nothing yet.
LEMMA ListSchemaPageU ==
    ASSUME UInv, NEW p \in Instances, ListSchemaPage(p) PROVE UOk'
<1>1. setup[p] \in SetupState /\ setup[p].pc = "schemas" /\ exts' = exts
    BY OwnState DEF UInv, ListSchemaPage
<1>2. CASE CallFails(p)
    BY <1>1, <1>2, CallFailsU
<1>3. CASE ~CallFails(p)
    <2> DEFINE s == setup[p]
               found == \E k \in s.offset + 1 .. PageEnd(schemas, s.offset) :
                           schemas[k] = WebhookSchema
               cv == CASE found -> Fresh("exts")
                       [] ~found /\ HasMore(schemas, s.offset) ->
                             [s EXCEPT !.offset = s.offset + Limit]
                       [] OTHER -> [s EXCEPT !.pc = "failed"]
    <2>0. setup' = [setup EXCEPT ![p] = cv]
        BY <1>3 DEF ListSchemaPage
    <2>1. \E v : /\ setup' = [setup EXCEPT ![p] = v]
                 /\ v = Fresh("exts") \/ v.pc \in {"schemas", "failed"}
        <3>1. CASE found
            <4>1. cv = Fresh("exts")
                BY <3>1
            <4> QED
                BY <2>0, <4>1
        <3>2. CASE ~found /\ HasMore(schemas, s.offset)
            <4>1. cv = [s EXCEPT !.offset = s.offset + Limit]
                BY <3>2
            <4> QED
                BY <1>1, <2>0, <4>1 DEF SetupState
        <3>3. CASE ~found /\ ~HasMore(schemas, s.offset)
            <4>1. cv = [s EXCEPT !.pc = "failed"]
                BY <3>3
            <4> QED
                BY <1>1, <2>0, <4>1 DEF SetupState
        <3> QED
            BY <3>1, <3>2, <3>3
    <2>2. PICK v : /\ setup' = [setup EXCEPT ![p] = v]
                   /\ v = Fresh("exts") \/ v.pc \in {"schemas", "failed"}
        BY <2>1
    <2>3. ScanClaim(v) /\ AbsentClaim(v)
        <3>1. CASE v = Fresh("exts")
            BY <3>1 DEF Fresh, ScanClaim, AbsentClaim, Pending, Actions
        <3>2. CASE v.pc \in {"schemas", "failed"}
            BY <3>2, IdleClaims
        <3> QED
            BY <2>2, <3>1, <3>2
    <2> QED
        BY <1>1, <2>2, <2>3, UUpdate
<1> QED
    BY <1>2, <1>3

(***************************************************************************)
(* One page of the extension scan.  The IDs after the page cover every     *)
(* labelled extension up to the page's end (ScanCovers); the loop leaves   *)
(* with an ID missing only when no page follows, so the scan has covered   *)
(* the whole listing and the missing action has no extension.             *)
(***************************************************************************)
LEMMA ListExtensionPageU ==
    ASSUME UInv, NEW p \in Instances, ListExtensionPage(p) PROVE UOk'
<1> DEFINE s == setup[p]
<1>1. /\ s \in SetupState
      /\ s.pc = "exts"
      /\ exts \in Seq(Extension)
      /\ exts' = exts
      /\ ScanClaim(s)
    BY OwnState DEF UInv, UOk, ScanOk, ListExtensionPage
<1>2. CASE CallFails(p)
    BY <1>1, <1>2, CallFailsU
<1>3. CASE ~CallFails(p)
    <2> DEFINE id == ScanPage(s)
               c == IF KeepListing(id, HasMore(exts, s.offset))
                    THEN "exts" ELSE "approve"
    <2>1. setup' = [setup EXCEPT ![p] =
                       [s EXCEPT !.id = id, !.offset = s.offset + Limit,
                                 !.pc = c]]
        BY <1>3 DEF ListExtensionPage
    <2>2. PICK c0 \in {"exts", "approve"} : c0 = c
        OBVIOUS
    <2> DEFINE v == [s EXCEPT !.id = id, !.offset = s.offset + Limit, !.pc = c0]
    <2>3. v.id = id /\ v.offset = s.offset + Limit /\ v.pc = c0
          /\ setup' = [setup EXCEPT ![p] = v]
        BY <1>1, <2>1, <2>2 DEF SetupState
    <2>4. \A a \in Actions, k \in 1..Len(exts) :
              k <= s.offset + Limit /\ exts[k].label = ActionLabel[a] =>
                  id[a] # NoID
        BY <1>1, ScanCovers DEF ScanClaim
    <2>5. ScanClaim(v)
        BY <2>3, <2>4 DEF ScanClaim
    <2>6. AbsentClaim(v)
        <3> SUFFICES ASSUME NEW a \in Actions, Pending(v.pc, a), v.id[a] = NoID,
                            NEW k \in 1..Len(exts), exts[k].label = ActionLabel[a]
                     PROVE  FALSE
            BY DEF AbsentClaim
        <3>1. c0 = "approve"
            BY <2>3 DEF Pending, Actions
        <3>2. ~KeepListing(id, HasMore(exts, s.offset))
            BY <2>2, <3>1
        <3>3. id[a] = NoID
            BY <2>3
        <3>4. ~HasMore(exts, s.offset)
            BY <3>2, <3>3 DEF KeepListing, Actions
        <3>5. k <= s.offset + Limit
            BY <1>1, <3>4, SetupAssumption DEF HasMore, SetupState
        <3> QED
            BY <2>4, <3>3, <3>5
    <2> QED
        BY <1>1, <2>3, <2>5, <2>6, UUpdate
<1> QED
    BY <1>2, <1>3

(***************************************************************************)
(* setupCustomAction(a) of the only process.  It creates a's extension     *)
(* only when its scan found none (AbsentClaim at pc a), so the new label   *)
(* is unique; an update rewrites an extension with a's label already.     *)
(* After approve, deny is still pending, and neither write adds its label. *)
\* The state the only process goes on in after setupCustomAction(a) claims
\* no scan, and at most the deny extension absent; UOk' follows from the
\* new listing's labels.
LEMMA CustomActionOn ==
    ASSUME UInv, NEW p \in Instances, Instances = {p}, NEW a \in Actions,
           \E v : /\ v.pc \in {NextPc[a], "failed"} /\ v.id = setup[p].id
                 /\ setup' = [setup EXCEPT ![p] = v],
           UniqueLabels(exts'),
           a = "approve" /\ setup[p].id["deny"] = NoID =>
               \A k \in 1..Len(exts') : exts'[k].label # ActionLabel["deny"]
    PROVE  UOk'
<1>0. PICK v : /\ v.pc \in {NextPc[a], "failed"} /\ v.id = setup[p].id
               /\ setup' = [setup EXCEPT ![p] = v]
    OBVIOUS
<1>1. setup \in [Instances -> SetupState]
    BY DEF UInv, EInv, TypeOK, SetupState
<1>2. AbsentClaim(v)'
    <2> SUFFICES ASSUME NEW b \in Actions, Pending(v.pc, b), v.id[b] = NoID
                 PROVE  \A k \in 1..Len(exts') : exts'[k].label # ActionLabel[b]
        BY DEF AbsentClaim
    <2>1. v.pc = NextPc[a]
        BY <1>0 DEF Pending, Actions
    <2>2. b = "deny" /\ a = "approve"
        BY <2>1 DEF Pending, NextPc, Actions
    <2> QED
        BY <1>0, <2>2
<1>3. ScanClaim(v)'
    BY <1>0 DEF ScanClaim, NextPc, Actions
<1>4. setup'[p] = v
    BY <1>0, <1>1
<1> QED
    BY <1>2, <1>3, <1>4 DEF UOk, ScanOk, AbsentOk

(***************************************************************************)
LEMMA SetupCustomActionU ==
    ASSUME UInv, NEW p \in Instances, Instances = {p}, NEW a \in Actions,
           SetupCustomAction(p, a)
    PROVE  UOk'
<1> DEFINE s == setup[p]
           id == s.id[a]
<1>1. /\ s \in SetupState
      /\ setup \in [Instances -> SetupState]
      /\ exts \in Seq(Extension)
      /\ IdValid(id, a, exts)
      /\ s.pc = a
      /\ UniqueLabels(exts)
      /\ AbsentClaim(s)
    BY OwnState DEF UInv, UOk, AbsentOk, SetupCustomAction, EInv, TypeOK,
                    SetupState
<1>3. a = "approve" /\ s.id["deny"] = NoID =>
          \A k \in 1..Len(exts) : exts[k].label # ActionLabel["deny"]
    BY <1>1 DEF AbsentClaim, Pending, Actions
\* Both ways p goes on.
<1>5. ASSUME setup' = [setup EXCEPT ![p].pc = NextPc[a]] \/ CallFails(p)
      PROVE  \E v : /\ v.pc \in {NextPc[a], "failed"} /\ v.id = s.id
                    /\ setup' = [setup EXCEPT ![p] = v]
    <2>1. CASE setup' = [setup EXCEPT ![p].pc = NextPc[a]]
        BY <1>1, <2>1 DEF SetupState
    <2>2. CASE CallFails(p)
        BY <1>1, <2>2 DEF SetupState, CallFails
    <2> QED
        BY <1>5, <2>1, <2>2
<1>6. CASE CallFails(p) /\ UNCHANGED exts
    BY <1>6, CallFailsU DEF UInv
<1>7. CASE /\ id = NoID
           /\ exts' = Append(exts, Wanted(a))
           /\ \/ setup' = [setup EXCEPT ![p].pc = NextPc[a]]
              \/ CallFails(p)
    <2>1. \A k \in 1..Len(exts) : exts[k].label # ActionLabel[a]
        BY <1>1, <1>7 DEF AbsentClaim, Pending
    <2>2. /\ Len(exts') = Len(exts) + 1
          /\ \A k \in 1..Len(exts) : exts'[k] = exts[k]
          /\ exts'[Len(exts) + 1].label = ActionLabel[a]
        BY <1>1, <1>7, LabelFacts
    <2>3. UniqueLabels(exts')
        <3> SUFFICES ASSUME NEW b \in Actions, NEW k \in 1..Len(exts'),
                            NEW j \in 1..Len(exts'),
                            exts'[k].label = ActionLabel[b],
                            exts'[j].label = ActionLabel[b]
                     PROVE  k = j
            BY DEF UniqueLabels
        <3>1. CASE k <= Len(exts) /\ j <= Len(exts)
            BY <1>1, <2>2, <3>1 DEF UniqueLabels
        <3>2. CASE k = Len(exts) + 1
            <4>1. b = a
                BY <2>2, <3>2, LabelFacts
            <4> QED
                BY <2>1, <2>2, <3>2, <4>1
        <3>3. CASE j = Len(exts) + 1
            <4>1. b = a
                BY <2>2, <3>3, LabelFacts
            <4> QED
                BY <2>1, <2>2, <3>3, <4>1
        <3> QED
            BY <2>2, <3>1, <3>2, <3>3
    <2>4. a = "approve" /\ s.id["deny"] = NoID =>
              \A k \in 1..Len(exts') : exts'[k].label # ActionLabel["deny"]
        <3> SUFFICES ASSUME a = "approve", s.id["deny"] = NoID,
                            NEW k \in 1..Len(exts')
                     PROVE  exts'[k].label # ActionLabel["deny"]
            OBVIOUS
        <3>1. CASE k = Len(exts) + 1
            BY <2>2, <3>1 DEF ActionLabel
        <3>2. CASE k \in 1..Len(exts)
            BY <1>3, <2>2, <3>2
        <3> QED
            BY <1>1, <2>2, <3>1, <3>2
    <2>5. \E v : /\ v.pc \in {NextPc[a], "failed"} /\ v.id = s.id
                /\ setup' = [setup EXCEPT ![p] = v]
        BY <1>5, <1>7
    <2> QED
        BY <2>3, <2>4, <2>5, CustomActionOn DEF s
<1>8. CASE /\ id # NoID
           /\ exts' = [exts EXCEPT ![id] = Wanted(a)]
           /\ setup' = [setup EXCEPT ![p].pc = NextPc[a]]
    <2>1. id \in 1..Len(exts) /\ exts[id].label = ActionLabel[a]
        BY <1>1, <1>8 DEF IdValid
    <2>2. /\ Len(exts') = Len(exts)
          /\ \A k \in 1..Len(exts) : exts'[k].label = exts[k].label
        BY <1>1, <1>8, <2>1, LabelFacts
    <2>3. UniqueLabels(exts')
        BY <1>1, <2>2 DEF UniqueLabels
    <2>4. a = "approve" /\ s.id["deny"] = NoID =>
              \A k \in 1..Len(exts') : exts'[k].label # ActionLabel["deny"]
        BY <1>3, <2>2
    <2>5. \E v : /\ v.pc \in {NextPc[a], "failed"} /\ v.id = s.id
                /\ setup' = [setup EXCEPT ![p] = v]
        BY <1>5, <1>8
    <2> QED
        BY <2>3, <2>4, <2>5, CustomActionOn DEF s
<1> QED
    BY <1>6, <1>7, <1>8 DEF SetupCustomAction

(***************************************************************************)
(* With one process, the initial state and every step keep UInv.  The     *)
(* initial listing must have no duplicate label itself: Setup never       *)
(* deletes an extension, so it cannot repair one.                         *)
(***************************************************************************)
LEMMA InitUInv ==
    ASSUME \A e \in InitialExts : UniqueLabels(e)
    PROVE  Init => UInv
<1> SUFFICES ASSUME Init PROVE UInv
    OBVIOUS
<1>1. EInv
    BY InitEInv
<1>2. UniqueLabels(exts)
    BY DEF Init
<1>3. \A q \in Instances : setup[q].pc = "idle"
    BY DEF Init, Fresh
<1>4. ScanOk /\ AbsentOk
    BY <1>3, IdleClaims DEF ScanOk, AbsentOk
<1> QED
    BY <1>1, <1>2, <1>4 DEF UInv, UOk

LEMMA NextUInv ==
    ASSUME NEW p, Instances = {p}
    PROVE  UInv /\ [Next]_vars => UInv'
<1> SUFFICES ASSUME UInv, [Next]_vars PROVE UInv'
    OBVIOUS
<1>1. EInv'
    BY NextEInv DEF UInv
<1>2. ASSUME NEW q \in Instances, StartSetup(q) \/ Step(q) PROVE UOk'
    <2>1. q = p
        OBVIOUS
    <2> QED
        BY <1>2, <2>1, StartSetupU, ListSchemaPageU, ListExtensionPageU,
           SetupCustomActionU DEF Step
<1>3. CASE Finished \/ UNCHANGED vars
    BY <1>1, <1>3 DEF Finished, vars, UInv, UOk, UniqueLabels, ScanOk,
       AbsentOk, ScanClaim, AbsentClaim
<1> QED
    BY <1>1, <1>2, <1>3 DEF Next, UInv

(***************************************************************************)
(* ExtensionsUnique for a single plugin process, however often it restarts *)
(* and whichever call fails or times out, when the service starts with no  *)
(* two extensions of one action: Setup's scan (ScanOk) and the create it   *)
(* guards (AbsentOk) never add a second extension of an action.  With two  *)
(* processes the property fails (run setup_concurrent): each scans before  *)
(* the other creates.                                                      *)
(***************************************************************************)
THEOREM SingleSetupUnique ==
    ASSUME NEW p, Instances = {p}, \A e \in InitialExts : UniqueLabels(e)
    PROVE  Spec => []ExtensionsUnique
<1>1. Spec => []UInv
    BY InitUInv, NextUInv, PTL DEF Spec
<1>2. UInv => ExtensionsUnique
    BY UniqueCardinality DEF UInv, UOk, EInv, TypeOK
<1> QED
    BY <1>1, <1>2, PTL

=============================================================================
