-------------------------- MODULE ProfileStoreProofs --------------------------
(***************************************************************************)
(* Proofs about ClientProfile.SaveTo, for every set of savers, profiles    *)
(* and aliases, with crashes and failing writes, and with any AliasPath a  *)
(* ProfileLocation can hold, another profile's file included.              *)
(***************************************************************************)
EXTENDS ProfileStore, TLAPS

(***************************************************************************)
(* The inductive invariant.  The "profile" link, while present, is the one *)
(* the last successful Symlink of it wrote (LinkedOk); while it is missing *)
(* some saver is between its Remove and its Symlink, or died there         *)
(* (MissingOk).  A saver at the alias Symlink has passed the alias test    *)
(* (AliasOk).  Only CurrentRemove and CurrentLink write "profile": the    *)
(* profile file and the alias a saver writes are never "profile".          *)
(***************************************************************************)
LinkedOk ==
    lastLinked # NoSaver /\ fs[Current] # Absent =>
        fs[Current] = Link(loc[lastLinked].path)

MissingOk ==
    lastLinked # NoSaver /\ fs[Current] = Absent =>
        \E s \in Savers : pc[s] \in {"curLink", "crashed"}

\* A saver at the alias Symlink passed the alias test: its alias is a name.
AliasOk ==
    \A s \in Savers : pc[s] = "aliasLink" => loc[s].alias \in Profiles \cup Aliases

PInv == TypeOK /\ LinkedOk /\ MissingOk /\ AliasOk

(***************************************************************************)
(* A saver's location: one of its profiles, an alias that is any name of   *)
(* the directory but "profile", or none, and the current flag.             *)
(***************************************************************************)
LEMMA LocationFacts ==
    ASSUME NEW l \in Locations
    PROVE  /\ l.path \in Profiles
           /\ l.path # Current
           /\ l.alias \in Names \cup {NoAlias}
           /\ l.alias # Current
           /\ l.current \in BOOLEAN
BY ProfileAssumption DEF Locations, Names

\* The entries SaveTo writes are directory entries.
LEMMA EntryFacts ==
    /\ Absent \in Entries
    /\ \A s \in Savers : File(s) \in Entries
    /\ \A n \in Profiles : Link(n) \in Entries
BY DEF Entries

\* The initial states satisfy the inductive invariant.
LEMMA InitPInv == Init => PInv
<1> SUFFICES ASSUME Init PROVE PInv
    OBVIOUS
<1>1. /\ loc \in [Savers -> Locations]
      /\ pc = [s \in Savers |-> "write"]
      /\ err = [s \in Savers |-> FALSE]
      /\ lastLinked = NoSaver
    BY DEF Init
<1>2. fs \in [Names -> Entries]
    <2>1. CASE fs = [n \in Names |-> Absent]
        BY <2>1, EntryFacts
    <2>2. CASE \E p \in Profiles :
                 fs = [n \in Names |-> CASE n = p -> File(NoSaver)
                                         [] n = Current -> Link(p)
                                         [] OTHER -> Absent]
        <3>1. PICK p \in Profiles :
                 fs = [n \in Names |-> CASE n = p -> File(NoSaver)
                                         [] n = Current -> Link(p)
                                         [] OTHER -> Absent]
            BY <2>2
        <3>2. \A n \in Names : fs[n] \in Entries
            BY <3>1, ProfileAssumption DEF Entries, Names
        <3>3. QED
            BY <3>1, <3>2
    <2>3. QED
        BY <2>1, <2>2 DEF Init
<1>3. QED
    BY <1>1, <1>2 DEF PInv, TypeOK, Pcs, LinkedOk, MissingOk, AliasOk

(***************************************************************************)
(* A step of s that leaves "profile", the locations and lastLinked alone,  *)
(* and moves s between two places other than "curLink" and "crashed",      *)
(* keeps the invariant: a witness of MissingOk is another saver.           *)
(***************************************************************************)
LEMMA CurrentUntouched ==
    ASSUME TypeOK, LinkedOk, MissingOk, AliasOk, NEW s \in Savers,
           pc[s] \notin {"curLink", "crashed"},
           NEW x, x \notin {"curLink", "crashed"},
           x = "aliasLink" => loc[s].alias \in Profiles \cup Aliases,
           pc' = [pc EXCEPT ![s] = x],
           fs'[Current] = fs[Current], loc' = loc, lastLinked' = lastLinked
    PROVE  LinkedOk' /\ MissingOk' /\ AliasOk'
<1>1. LinkedOk'
    BY DEF LinkedOk
<1>2. MissingOk'
    <2> SUFFICES ASSUME lastLinked # NoSaver, fs[Current] = Absent
                 PROVE  \E q \in Savers : pc'[q] \in {"curLink", "crashed"}
        BY DEF MissingOk
    <2>1. PICK q \in Savers : pc[q] \in {"curLink", "crashed"}
        BY DEF MissingOk
    <2>2. q # s /\ pc'[q] = pc[q]
        BY <2>1 DEF TypeOK
    <2> QED
        BY <2>1, <2>2
<1>3. AliasOk'
    BY DEF AliasOk, TypeOK
<1> QED
    BY <1>1, <1>2, <1>3

(***************************************************************************)
(* WriteFile: the profile file is (re)written by s, or the write fails and *)
(* SaveTo returns.  "profile" is not a profile file.                       *)
(***************************************************************************)
LEMMA WriteFileStep ==
    ASSUME PInv, NEW s \in Savers, WriteFile(s)
    PROVE  PInv'
<1>1. /\ TypeOK /\ LinkedOk /\ MissingOk /\ AliasOk
      /\ pc[s] = "write"
      /\ UNCHANGED <<loc, lastLinked>>
      /\ loc[s].path \in Profiles /\ loc[s].path # Current
    BY LocationFacts DEF PInv, WriteFile, TypeOK
<1>2. CASE /\ fs' = [fs EXCEPT ![loc[s].path] = File(s)]
           /\ pc' = [pc EXCEPT ![s] = "alias"]
           /\ UNCHANGED err
    <2>1. fs' \in [Names -> Entries] /\ fs'[Current] = fs[Current]
        BY <1>1, <1>2, EntryFacts DEF TypeOK, Names
    <2>2. TypeOK'
        BY <1>1, <1>2, <2>1 DEF TypeOK, Pcs
    <2>3. LinkedOk' /\ MissingOk' /\ AliasOk'
        BY <1>1, <1>2, <2>1, CurrentUntouched
    <2> QED
        BY <2>2, <2>3 DEF PInv
<1>3. CASE /\ pc' = [pc EXCEPT ![s] = "done"]
           /\ err' = [err EXCEPT ![s] = TRUE]
           /\ UNCHANGED fs
    <2>1. TypeOK'
        BY <1>1, <1>3 DEF TypeOK, Pcs
    <2>2. LinkedOk' /\ MissingOk' /\ AliasOk'
        BY <1>1, <1>3, CurrentUntouched
    <2> QED
        BY <2>1, <2>2 DEF PInv
<1> QED
    BY <1>2, <1>3 DEF WriteFile

(***************************************************************************)
(* The alias block: Remove of the alias, which may be another profile's    *)
(* file but never "profile", or the test failing.                          *)
(***************************************************************************)
LEMMA AliasRemoveStep ==
    ASSUME PInv, NEW s \in Savers, AliasRemove(s)
    PROVE  PInv'
<1>1. /\ TypeOK /\ LinkedOk /\ MissingOk /\ AliasOk
      /\ pc[s] = "alias"
      /\ UNCHANGED <<loc, err, lastLinked>>
      /\ loc[s].alias \in Names \cup {NoAlias} /\ loc[s].alias # Current
      /\ AfterAlias(s) \in {"curRemove", "done"}
    BY LocationFacts DEF PInv, AliasRemove, TypeOK, AfterAlias
<1>2. CASE /\ HasAlias(s)
           /\ Remove(loc[s].alias)
           /\ pc' = [pc EXCEPT ![s] = "aliasLink"]
    <2>1. loc[s].alias \in Profiles \cup Aliases
        BY <1>1, <1>2 DEF HasAlias, Names
    <2>2. fs' \in [Names -> Entries] /\ fs'[Current] = fs[Current]
        BY <1>1, <1>2, <2>1, EntryFacts DEF TypeOK, Remove, Names
    <2>3. TypeOK'
        BY <1>1, <1>2, <2>2 DEF TypeOK, Pcs
    <2>4. LinkedOk' /\ MissingOk' /\ AliasOk'
        BY <1>1, <1>2, <2>1, <2>2, CurrentUntouched
    <2> QED
        BY <2>3, <2>4 DEF PInv
<1>3. CASE /\ ~HasAlias(s)
           /\ pc' = [pc EXCEPT ![s] = AfterAlias(s)]
           /\ UNCHANGED fs
    <2>1. TypeOK'
        BY <1>1, <1>3 DEF TypeOK, Pcs
    <2>2. LinkedOk' /\ MissingOk' /\ AliasOk'
        BY <1>1, <1>3, CurrentUntouched
    <2> QED
        BY <2>1, <2>2 DEF PInv
<1> QED
    BY <1>2, <1>3 DEF AliasRemove

(***************************************************************************)
(* The alias Symlink, which writes the alias name and never "profile".     *)
(***************************************************************************)
LEMMA AliasLinkStep ==
    ASSUME PInv, NEW s \in Savers, AliasLink(s)
    PROVE  PInv'
<1>1. /\ TypeOK /\ LinkedOk /\ MissingOk /\ AliasOk
      /\ pc[s] = "aliasLink"
      /\ pc' = [pc EXCEPT ![s] = AfterAlias(s)]
      /\ UNCHANGED <<loc, err, lastLinked>>
      /\ loc[s].path \in Profiles
      /\ loc[s].alias \in Names \cup {NoAlias} /\ loc[s].alias # Current
      /\ AfterAlias(s) \in {"curRemove", "done"}
    BY LocationFacts DEF PInv, AliasLink, TypeOK, AfterAlias
<1>2. fs' \in [Names -> Entries] /\ fs'[Current] = fs[Current]
    <2>1. CASE SymlinkOk(loc[s].alias)
        <3>1. loc[s].alias \in Names
            BY <1>1 DEF AliasOk, Names
        <3>2. fs' = [fs EXCEPT ![loc[s].alias] = Link(loc[s].path)]
            BY <1>1, <2>1 DEF AliasLink, Symlink
        <3>3. Link(loc[s].path) \in Entries
            BY <1>1, EntryFacts
        <3> QED
            BY <1>1, <3>1, <3>2, <3>3 DEF TypeOK
    <2>2. CASE ~SymlinkOk(loc[s].alias)
        BY <1>1, <2>2 DEF AliasLink, TypeOK
    <2> QED
        BY <2>1, <2>2
<1>3. TypeOK'
    BY <1>1, <1>2 DEF TypeOK, Pcs
<1>4. LinkedOk' /\ MissingOk' /\ AliasOk'
    BY <1>1, <1>2, CurrentUntouched
<1> QED
    BY <1>3, <1>4 DEF PInv

(***************************************************************************)
(* Remove of "profile": the link is gone, and s itself is the saver that   *)
(* MissingOk asks for, between its Remove and its Symlink.                 *)
(***************************************************************************)
LEMMA CurrentRemoveStep ==
    ASSUME PInv, NEW s \in Savers, CurrentRemove(s)
    PROVE  PInv'
<1>1. /\ TypeOK /\ LinkedOk /\ MissingOk /\ AliasOk
      /\ pc' = [pc EXCEPT ![s] = "curLink"]
      /\ UNCHANGED <<loc, err, lastLinked>>
      /\ fs' = [fs EXCEPT ![Current] = Absent]
    BY DEF PInv, CurrentRemove, Remove
<1>2. fs' \in [Names -> Entries] /\ fs'[Current] = Absent
    BY <1>1, EntryFacts DEF TypeOK, Names
<1>3. TypeOK'
    BY <1>1, <1>2 DEF TypeOK, Pcs
<1>4. LinkedOk' /\ MissingOk' /\ AliasOk'
    BY <1>1, <1>2 DEF LinkedOk, MissingOk, AliasOk, TypeOK
<1> QED
    BY <1>3, <1>4 DEF PInv

(***************************************************************************)
(* Symlink of "profile": when the name is free the new link names s's      *)
(* profile and s becomes lastLinked; otherwise the name holds an entry     *)
(* already and SaveTo returns the error.                                   *)
(***************************************************************************)
LEMMA CurrentLinkStep ==
    ASSUME PInv, NEW s \in Savers, CurrentLink(s)
    PROVE  PInv'
<1>1. /\ TypeOK /\ LinkedOk /\ MissingOk /\ AliasOk
      /\ pc' = [pc EXCEPT ![s] = "done"]
      /\ UNCHANGED loc
      /\ loc[s].path \in Profiles
    BY LocationFacts DEF PInv, CurrentLink, TypeOK
<1>2. CASE SymlinkOk(Current)
    <2>1. /\ fs' = [fs EXCEPT ![Current] = Link(loc[s].path)]
          /\ lastLinked' = s
          /\ UNCHANGED err
        BY <1>2 DEF CurrentLink, Symlink
    <2>2. fs' \in [Names -> Entries] /\ fs'[Current] = Link(loc[s].path)
        BY <1>1, <2>1, EntryFacts DEF TypeOK, Names
    <2>3. TypeOK'
        BY <1>1, <2>1, <2>2 DEF TypeOK, Pcs
    <2>4. LinkedOk' /\ MissingOk' /\ AliasOk'
        BY <1>1, <2>1, <2>2 DEF LinkedOk, MissingOk, AliasOk, TypeOK, Link,
           Absent
    <2> QED
        BY <2>3, <2>4 DEF PInv
<1>3. CASE ~SymlinkOk(Current)
    <2>1. /\ err' = [err EXCEPT ![s] = TRUE]
          /\ UNCHANGED <<fs, lastLinked>>
        BY <1>3 DEF CurrentLink
    <2>2. TypeOK'
        BY <1>1, <2>1 DEF TypeOK, Pcs
    <2>3. LinkedOk' /\ MissingOk' /\ AliasOk'
        BY <1>1, <1>3, <2>1 DEF LinkedOk, MissingOk, AliasOk, TypeOK, SymlinkOk
    <2> QED
        BY <2>2, <2>3 DEF PInv
<1> QED
    BY <1>2, <1>3

(***************************************************************************)
(* A crash changes only the pc of s; a saver that dies at "curLink" stays  *)
(* the witness of MissingOk as "crashed".                                  *)
(***************************************************************************)
LEMMA CrashStep ==
    ASSUME PInv, NEW s \in Savers, Crash(s)
    PROVE  PInv'
<1>1. /\ TypeOK /\ LinkedOk /\ MissingOk /\ AliasOk
      /\ pc' = [pc EXCEPT ![s] = "crashed"]
      /\ UNCHANGED <<fs, loc, err, lastLinked>>
    BY DEF PInv, Crash
<1>2. TypeOK'
    BY <1>1 DEF TypeOK, Pcs
<1>3. LinkedOk' /\ MissingOk' /\ AliasOk'
    BY <1>1 DEF LinkedOk, MissingOk, AliasOk, TypeOK
<1> QED
    BY <1>2, <1>3 DEF PInv

\* Every step of the savers, and a stuttering step, keeps the invariant.
LEMMA NextPInv == PInv /\ [Next]_vars => PInv'
<1> SUFFICES ASSUME PInv, [Next]_vars PROVE PInv'
    OBVIOUS
<1>1. CASE \E s \in Savers : Save(s) \/ Crash(s)
    BY <1>1, WriteFileStep, AliasRemoveStep, AliasLinkStep, CurrentRemoveStep,
       CurrentLinkStep, CrashStep DEF Save
<1>2. CASE Finished \/ UNCHANGED vars
    BY <1>2 DEF Finished, vars, PInv, TypeOK, LinkedOk, MissingOk, AliasOk
<1>3. QED
    BY <1>1, <1>2 DEF Next

\* The inductive invariant holds in every reachable state.
LEMMA AlwaysPInv == Spec => []PInv
BY InitPInv, NextPInv, PTL DEF Spec

(***************************************************************************)
(* TypeOK of ClientProfile.SaveTo's model holds for every set of savers,   *)
(* profiles and aliases.                                                   *)
(***************************************************************************)
THEOREM ProfileTypeCorrect == Spec => []TypeOK
BY AlwaysPInv, PTL DEF PInv

(***************************************************************************)
(* QuiescentCurrentIsLastLinked for every number of savers: once all have  *)
(* returned, "profile" names the profile of the last successful Symlink.   *)
(* While the link is present LinkedOk says so; while it is missing         *)
(* MissingOk names a saver still at "curLink" or dead, so not all returned. *)
(***************************************************************************)
LEMMA PInvQuiescent == PInv => QuiescentCurrentIsLastLinked
<1> SUFFICES ASSUME PInv,
                    \A s \in Savers : pc[s] = "done",
                    lastLinked # NoSaver
             PROVE  fs[Current] = Link(loc[lastLinked].path)
    BY DEF QuiescentCurrentIsLastLinked
<1>1. fs[Current] # Absent
    BY DEF PInv, MissingOk
<1>2. QED
    BY <1>1 DEF PInv, LinkedOk

\* QuiescentCurrentIsLastLinked holds in every reachable state, for every
\* number of savers, profiles and aliases, whatever AliasPath each passes.
THEOREM CurrentIsLastLinked == Spec => []QuiescentCurrentIsLastLinked
BY AlwaysPInv, PInvQuiescent, PTL

=============================================================================
