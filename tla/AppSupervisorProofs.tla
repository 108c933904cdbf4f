------------------------- MODULE AppSupervisorProofs -------------------------
(***************************************************************************)
(* Proofs about App.Run, App.run and the critical jobs, for every set of   *)
(* failures the environment may cause.                                     *)
(***************************************************************************)
EXTENDS AppSupervisor, TLAPS

(***************************************************************************)
(* The inductive invariant behind FailureReported.  Only a job that has    *)
(* returned carries an error (ErrOnlyWhenDone), and a job that has         *)
(* returned never runs again, because App.run spawns each worker once, at  *)
(* a place of its own (SpawnOrder).  App.run returns nil only from the     *)
(* aggregate of both workers' errors, after both have returned            *)
(* (MainNilOk), and App.Run returns the main job's error once that job has *)
(* returned (RunOk).                                                       *)
(***************************************************************************)
ErrOnlyWhenDone == \A j \in Jobs : job[j].err # {} => job[j].pc = "done"

SpawnOrder ==
    /\ mainPc = "startup" => job["http"].pc = "new"
    /\ mainPc \in {"startup", "waitHttp", "setup"} => job["watcher"].pc = "new"
    /\ mainPc = "waitWatcherDone" => job["http"].pc = "done"
    /\ (mainPc = "done") = (job["main"].pc = "done")

MainNilOk ==
    job["main"].pc = "done" /\ job["main"].err = {} =>
        \A w \in Workers : job[w].pc = "done" /\ job[w].err = {}

RunOk ==
    /\ runPc = "start" => job["main"].pc = "new" /\ mainPc = "startup"
    /\ runPc # "start" => job["main"].pc \in {"running", "done"}
    /\ runPc = "returned" => runErr = job["main"].err /\ job["main"].pc = "done"

SInv ==
    /\ TypeOK
    /\ ErrOnlyWhenDone
    /\ SpawnOrder
    /\ MainNilOk
    /\ RunOk

\* The record type of a job in TypeOK.
JobType == [pc : JobPcs, ready : {"unset", "yes", "no"}, err : SUBSET Errors]

LEMMA InitSInv == Init => SInv
<1> SUFFICES ASSUME Init PROVE SInv
    OBVIOUS
<1>1. TypeOK
    <2>1. Len(StartupCalls) = 6
        BY DEF StartupCalls
    <2>2. job \in [Jobs -> JobType]
        BY DEF Init, JobType, JobPcs
    <2>3. step \in 1..Len(StartupCalls)
        BY <2>1 DEF Init
    <2>4. canceled \in BOOLEAN /\ httpOk \in BOOLEAN /\ runErr \in SUBSET Errors
        BY DEF Init
    <2> QED
        BY <2>2, <2>3, <2>4 DEF Init, TypeOK, JobType, MainPcs
<1>2. ErrOnlyWhenDone /\ SpawnOrder /\ MainNilOk /\ RunOk
    BY DEF Init, ErrOnlyWhenDone, SpawnOrder, MainNilOk, RunOk, Jobs
<1> QED
    BY <1>1, <1>2 DEF SInv

LEMMA RunStartSInv == SInv /\ RunStart => SInv'
BY DEF SInv, TypeOK, ErrOnlyWhenDone, SpawnOrder, MainNilOk, RunOk, RunStart,
       Spawn, Jobs, Workers, JobPcs

LEMMA RunReturnSInv == SInv /\ RunReturn => SInv'
BY DEF SInv, TypeOK, ErrOnlyWhenDone, SpawnOrder, MainNilOk, RunOk, RunReturn,
       ProcessDone, Jobs, Workers, JobPcs

LEMMA ShutdownSInv == SInv /\ Shutdown => SInv'
BY DEF SInv, TypeOK, ErrOnlyWhenDone, SpawnOrder, MainNilOk, RunOk, Shutdown

LEMMA WorkerInitSInv ==
    ASSUME NEW j \in Workers, SInv, WorkerInit(j) PROVE SInv'
BY DEF SInv, TypeOK, ErrOnlyWhenDone, SpawnOrder, MainNilOk, RunOk,
       WorkerInit, Jobs, Workers, JobPcs, InitError, AllFailures

LEMMA WorkerStopSInv ==
    ASSUME NEW j \in Workers, SInv, WorkerStop(j) PROVE SInv'
<1> USE DEF SInv, TypeOK, ErrOnlyWhenDone, SpawnOrder, MainNilOk, RunOk,
            WorkerStop, Finish, Jobs, Workers, JobPcs
<1>1. CASE job[j].pc = "failing" /\ Finish(j, {InitError[j]})
    BY <1>1 DEF InitError, AllFailures, Errors
<1>2. CASE job[j].pc \in {"init", "running"} /\ canceled /\ Finish(j, {})
    <2>1. job' = [job EXCEPT ![j].pc = "done", ![j].err = {}] /\ canceled'
        BY <1>2
    <2>2. TypeOK'
        BY <2>1
    <2>3. (ErrOnlyWhenDone /\ SpawnOrder /\ MainNilOk /\ RunOk)'
        BY <1>2, <2>1
    <2> QED
        BY <2>2, <2>3
<1>3. CASE job[j].pc = "running" /\ RunError[j] \in Failures
           /\ Finish(j, {RunError[j]})
    BY <1>3 DEF RunError, AllFailures, Errors
<1> QED
    BY <1>1, <1>2, <1>3

LEMMA MainStartupSInv == SInv /\ MainStartup => SInv'
BY DEF SInv, TypeOK, ErrOnlyWhenDone, SpawnOrder, MainNilOk, RunOk,
       MainStartup, MainReturn, Finish, Spawn, Jobs, Workers, JobPcs,
       MainPcs, StartupCalls, Errors, AllFailures, Canceled

LEMMA MainWaitHttpSInv == SInv /\ MainWaitHttp => SInv'
<1> SUFFICES ASSUME SInv, MainWaitHttp PROVE SInv'
    OBVIOUS
<1> USE DEF SInv, TypeOK, ErrOnlyWhenDone, SpawnOrder, MainNilOk, RunOk,
            Jobs, Workers, JobPcs, MainPcs
<1>1. CASE /\ job["http"].ready # "unset"
           /\ httpOk' = (job["http"].ready = "yes")
           /\ mainPc' = "setup"
           /\ UNCHANGED <<job, canceled>>
    BY <1>1 DEF MainWaitHttp
<1>2. CASE canceled /\ MainReturn({Canceled}) /\ UNCHANGED httpOk
    BY <1>2 DEF MainWaitHttp, MainReturn, Finish, Errors, Canceled
<1> QED
    BY <1>1, <1>2 DEF MainWaitHttp

LEMMA MainSetupSInv == SInv /\ MainSetup => SInv'
<1> SUFFICES ASSUME SInv, MainSetup PROVE SInv'
    OBVIOUS
<1> USE DEF SInv, TypeOK, ErrOnlyWhenDone, SpawnOrder, MainNilOk, RunOk,
            Jobs, Workers, JobPcs, MainPcs
<1>1. CASE ~canceled /\ job' = Spawn("watcher") /\ mainPc' = "waitWatcher"
           /\ UNCHANGED canceled
    BY <1>1 DEF MainSetup, Spawn
<1>2. CASE "setup" \in Failures /\ MainReturn({"setup"})
    BY <1>2 DEF MainSetup, MainReturn, Finish, Errors, AllFailures
<1>3. CASE canceled /\ MainReturn({Canceled})
    BY <1>3 DEF MainSetup, MainReturn, Finish, Errors, Canceled
<1> QED
    BY <1>1, <1>2, <1>3 DEF MainSetup

LEMMA MainWaitWatcherSInv == SInv /\ MainWaitWatcher => SInv'
BY DEF SInv, TypeOK, ErrOnlyWhenDone, SpawnOrder, MainNilOk, RunOk,
       MainWaitWatcher, MainReturn, Finish, Jobs, Workers, JobPcs, MainPcs,
       Errors, Canceled

LEMMA MainWaitDoneSInv == SInv /\ MainWaitDone => SInv'
BY DEF SInv, TypeOK, ErrOnlyWhenDone, SpawnOrder, MainNilOk, RunOk,
       MainWaitDone, MainReturn, Finish, Jobs, Workers, JobPcs, MainPcs,
       Errors

LEMMA NextSInv == SInv /\ [Next]_vars => SInv'
<1> SUFFICES ASSUME SInv, [Next]_vars PROVE SInv'
    OBVIOUS
<1>1. CASE RunStart
    BY <1>1, RunStartSInv
<1>2. CASE RunReturn
    BY <1>2, RunReturnSInv
<1>3. CASE Shutdown
    BY <1>3, ShutdownSInv
<1>4. CASE Main
    BY <1>4, MainStartupSInv, MainWaitHttpSInv, MainSetupSInv,
       MainWaitWatcherSInv, MainWaitDoneSInv DEF Main
<1>5. CASE \E j \in Workers : WorkerInit(j) \/ WorkerStop(j)
    BY <1>5, WorkerInitSInv, WorkerStopSInv
<1>6. CASE UNCHANGED vars
    BY <1>6 DEF vars, SInv, TypeOK, ErrOnlyWhenDone, SpawnOrder, MainNilOk,
                RunOk
<1> QED
    BY <1>1, <1>2, <1>3, <1>4, <1>5, <1>6 DEF Next

\* SInv gives FailureReported: a worker's error reaches App.Run's result,
\* because a main job that returned nil saw both workers return nil.
LEMMA SInvFailureReported == SInv => FailureReported
BY DEF SInv, RunOk, MainNilOk, FailureReported, Jobs, Workers

\* Every state of App.Run, App.run and the jobs is well typed: pcs, ready
\* signals and errors take only the values the code gives them.
THEOREM SupervisorTypeCorrect == Spec => []TypeOK
<1>1. Init => SInv
    BY InitSInv
<1>2. SInv /\ [Next]_vars => SInv'
    BY NextSInv
<1>3. SInv => TypeOK
    BY DEF SInv
<1> QED
    BY <1>1, <1>2, <1>3, PTL DEF Spec

\* App.Run never returns nil after a critical job (App.run, the HTTP job or
\* the watcher job) returned an error, whichever failures occur and however
\* the caller's cancellation interleaves with them.
THEOREM FailuresReported == Spec => []FailureReported
<1>1. Init => SInv
    BY InitSInv
<1>2. SInv /\ [Next]_vars => SInv'
    BY NextSInv
<1>3. SInv => FailureReported
    BY SInvFailureReported
<1> QED
    BY <1>1, <1>2, <1>3, PTL DEF Spec

=============================================================================
