---------------------------- MODULE ProfileStore ----------------------------
(***************************************************************************)
(* ClientProfile.SaveTo and ProfileFromDir (vendored                       *)
(* teleport/lib/client/profile.go): tsh profiles in one directory, the     *)
(* optional alias symlink of a profile and the "profile" symlink to the    *)
(* current one.                                                            *)
(*                                                                         *)
(* Each saver is one tsh process running SaveTo once.  Every file-system   *)
(* call (WriteFile, Remove, Symlink) is one atomic step, and the savers'   *)
(* steps interleave; a saver may die between two of them.  Remove of a     *)
(* missing name and Symlink onto an existing name fail, as on POSIX.       *)
(***************************************************************************)
EXTENDS Naturals

CONSTANTS
    Savers,       \* tsh processes that call SaveTo
    Profiles,     \* profile file names (<proxy>.yaml) in the directory
    Aliases,      \* alias names a caller may pass as AliasPath
    NoAlias,      \* AliasPath = ""
    NoSaver,      \* the author of a profile written before the model starts
    Crashes,      \* whether a saver may die between two calls
    WriteMayFail  \* whether WriteFile may fail (permissions, disk full)

\* CurrentProfileSymlink
Current == "profile"

ASSUME ProfileAssumption ==
    /\ Current \notin Profiles \cup Aliases
    /\ NoAlias \notin Profiles \cup Aliases \cup {Current}
    /\ NoSaver \notin Savers
    /\ Crashes \in BOOLEAN
    /\ WriteMayFail \in BOOLEAN

Names == Profiles \cup Aliases \cup {Current}

\* A directory entry: nothing, a profile file and the saver that wrote it,
\* or a symlink to a profile file name (filepath.Base(loc.Path)).
Absent == [kind |-> "absent"]
File(s) == [kind |-> "file", by |-> s]
Link(n) == [kind |-> "link", to |-> n]
Entries == {Absent} \cup {File(s) : s \in Savers \cup {NoSaver}}
             \cup {Link(n) : n \in Profiles}

\* A ProfileLocation: a plain struct, so AliasPath may be any name of the
\* directory but "profile", another profile's file included; one whose base
\* is Path's is skipped by SaveTo.  ProfileMakeCurrent is the flag "current".
Locations ==
    [path : Profiles, alias : Profiles \cup Aliases \cup {NoAlias},
     current : BOOLEAN]

VARIABLES
    fs,          \* the profile directory
    loc,         \* each saver's ProfileLocation
    pc,          \* where each saver is in SaveTo
    err,         \* the error each saver's SaveTo returned
    lastLinked   \* history: the saver whose "profile" Symlink succeeded last

vars == <<fs, loc, pc, err, lastLinked>>

Pcs == {"write", "alias", "aliasLink", "curRemove", "curLink", "done",
        "crashed"}

TypeOK ==
    /\ fs \in [Names -> Entries]
    /\ loc \in [Savers -> Locations]
    /\ pc \in [Savers -> Pcs]
    /\ err \in [Savers -> BOOLEAN]
    /\ lastLinked \in Savers \cup {NoSaver}

\* The directory starts empty, or holds a profile that an earlier login
\* made current.
Init ==
    /\ \/ fs = [n \in Names |-> Absent]
       \/ \E p \in Profiles :
             fs = [n \in Names |-> CASE n = p -> File(NoSaver)
                                     [] n = Current -> Link(p)
                                     [] OTHER -> Absent]
    /\ loc \in [Savers -> Locations]
    /\ pc = [s \in Savers |-> "write"]
    /\ err = [s \in Savers |-> FALSE]
    /\ lastLinked = NoSaver

\* The alias block runs when AliasPath is set and its base differs.
HasAlias(s) == loc[s].alias \notin {NoAlias, loc[s].path}
\* Where SaveTo goes after the alias block.
AfterAlias(s) == IF loc[s].current THEN "curRemove" ELSE "done"

\* os.Remove: the name is gone afterwards; a missing name is only warned.
Remove(n) == fs' = [fs EXCEPT ![n] = Absent]
\* os.Symlink: creates n -> t unless n exists.
SymlinkOk(n) == fs[n] = Absent
Symlink(n, t) == fs' = [fs EXCEPT ![n] = Link(t)]

\* ioutil.WriteFile(loc.Path): an error is returned at once.
WriteFile(s) ==
    /\ pc[s] = "write"
    /\ \/ /\ fs' = [fs EXCEPT ![loc[s].path] = File(s)]
          /\ pc' = [pc EXCEPT ![s] = "alias"]
          /\ UNCHANGED err
       \/ /\ WriteMayFail
          /\ pc' = [pc EXCEPT ![s] = "done"]
          /\ err' = [err EXCEPT ![s] = TRUE]
          /\ UNCHANGED fs
    /\ UNCHANGED <<loc, lastLinked>>

\* The alias test and os.Remove(loc.AliasPath), or the test failing.
AliasRemove(s) ==
    /\ pc[s] = "alias"
    /\ \/ /\ HasAlias(s)
          /\ Remove(loc[s].alias)
          /\ pc' = [pc EXCEPT ![s] = "aliasLink"]
       \/ /\ ~HasAlias(s)
          /\ pc' = [pc EXCEPT ![s] = AfterAlias(s)]
          /\ UNCHANGED fs
    /\ UNCHANGED <<loc, err, lastLinked>>

\* os.Symlink(base(Path), AliasPath); its error is only warned.
AliasLink(s) ==
    /\ pc[s] = "aliasLink"
    /\ IF SymlinkOk(loc[s].alias) THEN Symlink(loc[s].alias, loc[s].path)
                                  ELSE UNCHANGED fs
    /\ pc' = [pc EXCEPT ![s] = AfterAlias(s)]
    /\ UNCHANGED <<loc, err, lastLinked>>

\* os.Remove of the "profile" symlink; its error is only warned.
CurrentRemove(s) ==
    /\ pc[s] = "curRemove"
    /\ Remove(Current)
    /\ pc' = [pc EXCEPT ![s] = "curLink"]
    /\ UNCHANGED <<loc, err, lastLinked>>

\* Mutant of CurrentLink: the link is written to the alias name.
CurrentLinkToAlias(s) ==
    /\ pc[s] = "curLink"
    /\ IF SymlinkOk(Current)
       THEN /\ fs' = [fs EXCEPT ![Current] = Link(loc[s].alias)]
            /\ lastLinked' = s
            /\ UNCHANGED err
       ELSE /\ err' = [err EXCEPT ![s] = TRUE]
            /\ UNCHANGED <<fs, lastLinked>>
    /\ pc' = [pc EXCEPT ![s] = "done"]
    /\ UNCHANGED loc

\* Mutant of CurrentLink: an "exists" error taken as success.
CurrentLinkExistsOk(s) ==
    /\ pc[s] = "curLink"
    /\ IF SymlinkOk(Current) THEN Symlink(Current, loc[s].path)
                             ELSE UNCHANGED fs
    /\ lastLinked' = s
    /\ pc' = [pc EXCEPT ![s] = "done"]
    /\ UNCHANGED <<loc, err>>

\* err = os.Symlink(base(Path), "profile"): SaveTo returns its error.
CurrentLink(s) ==
    /\ pc[s] = "curLink"
    /\ IF SymlinkOk(Current)
       THEN /\ Symlink(Current, loc[s].path)
            /\ lastLinked' = s
            /\ UNCHANGED err
       ELSE /\ err' = [err EXCEPT ![s] = TRUE]
            /\ UNCHANGED <<fs, lastLinked>>
    /\ pc' = [pc EXCEPT ![s] = "done"]
    /\ UNCHANGED loc

\* The tsh process dies between two calls of SaveTo.
Crash(s) ==
    /\ Crashes
    /\ pc[s] \notin {"done", "crashed"}
    /\ pc' = [pc EXCEPT ![s] = "crashed"]
    /\ UNCHANGED <<fs, loc, err, lastLinked>>

\* Every saver has returned or died.
Finished ==
    /\ \A s \in Savers : pc[s] \in {"done", "crashed"}
    /\ UNCHANGED vars

Save(s) ==
    \/ WriteFile(s)
    \/ AliasRemove(s)
    \/ AliasLink(s)
    \/ CurrentRemove(s)
    \/ CurrentLink(s)

Next == (\E s \in Savers : Save(s) \/ Crash(s)) \/ Finished

Spec == Init /\ [][Next]_vars

(***************************************************************************)
(* Properties.                                                             *)
(***************************************************************************)

\* Once every tsh process has returned from SaveTo, "profile" names the
\* profile of the last SaveTo whose Symlink succeeded (ProfileMakeCurrent
\* "makes it current"): of two concurrent savers that both removed the link,
\* the one that re-created it is current, and the other returns the Symlink
\* error.
QuiescentCurrentIsLastLinked ==
    (\A s \in Savers : pc[s] = "done") /\ lastLinked # NoSaver =>
        fs[Current] = Link(loc[lastLinked].path)

\* Once a SaveTo has made a profile current, "profile" (the link to the
\* current profile, as CurrentProfileSymlink's comment has it) is missing
\* only while some SaveTo is between its Remove and its Symlink.
CurrentKept ==
    lastLinked # NoSaver /\ fs[Current] = Absent =>
        \E s \in Savers : pc[s] = "curLink"

=============================================================================
