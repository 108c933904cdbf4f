---------------------------- MODULE AppSupervisor ----------------------------
(***************************************************************************)
(* Startup, readiness and shutdown of the PagerDuty plugin                 *)
(* (src/access/pagerduty/app.go: App.Run, App.run, App.WaitReady).         *)
(*                                                                         *)
(* App.Run makes a Process and spawns the main job, which runs App.run:    *)
(* the startup calls in order, then it spawns the HTTP job and waits for   *)
(* it to be ready, sets up the PagerDuty extensions, spawns the watcher    *)
(* job and waits for it, reports ready, and waits for both jobs to end.    *)
(* The three jobs are critical: a job that ends with an error cancels the  *)
(* Process, and with it the context of every job.  Process and ServiceJob  *)
(* (package utils) are not under src/ and follow the spec (4.1, 4.2).      *)
(***************************************************************************)
EXTENDS Naturals, Sequences, FiniteSets

CONSTANTS
    Failures       \* which failures the environment may cause

\* What can fail: "startup" (a call of App.run before the jobs run),
\* "setup" (Bot.Setup), "listen"/"serve" (the HTTP job before and after it
\* is ready), "watch"/"stream" (the watcher job likewise).
AllFailures == {"startup", "setup", "listen", "serve", "watch", "stream"}

ASSUME SupervisorAssumption == Failures \subseteq AllFailures

\* The calls App.run makes before it spawns a job, in order: NewWebhookServer,
\* LoadTLSConfig, access.NewClient, checkTeleportVersion, Bot.HealthCheck,
\* WebhookServer.EnsureCert.  The ones that take ctx fail once it is
\* canceled.
StartupCalls == <<"webhookSrv", "tlsConfig", "client", "version", "health",
                  "cert">>
UsesCtx == {"client", "version", "health"}

Jobs == {"main", "http", "watcher"}
Workers == {"http", "watcher"}
\* The error of each worker job before and after it reports ready.
InitError == [http |-> "listen", watcher |-> "watch"]
RunError == [http |-> "serve", watcher |-> "stream"]
\* The error a blocking call returns once the context is canceled.
Canceled == "canceled"
Errors == AllFailures \cup {Canceled}

VARIABLES
    canceled,   \* the Process context is canceled
    job,        \* each ServiceJob: its progress, ready signal and error
    mainPc,     \* where App.run is
    step,       \* App.run's next startup call, an index into StartupCalls
    httpOk,     \* App.run's httpOk
    runPc,      \* where App.Run is
    runErr      \* what App.Run returned

vars == <<canceled, job, mainPc, step, httpOk, runPc, runErr>>

\* A job's pc: "new" (not spawned), "init" (before SetReady), "running",
\* "failing" (SetReady(false) called, error not yet returned), "done".
JobPcs == {"new", "init", "running", "failing", "done"}
MainPcs == {"startup", "waitHttp", "setup", "waitWatcher", "waitHttpDone",
            "waitWatcherDone", "done"}

TypeOK ==
    /\ canceled \in BOOLEAN
    /\ job \in [Jobs -> [pc : JobPcs, ready : {"unset", "yes", "no"},
                         err : SUBSET Errors]]
    /\ mainPc \in MainPcs
    /\ step \in 1..Len(StartupCalls)
    /\ httpOk \in BOOLEAN
    /\ runPc \in {"start", "wait", "returned"}
    /\ runErr \in SUBSET Errors

Init ==
    /\ canceled = FALSE
    /\ job = [j \in Jobs |-> [pc |-> "new", ready |-> "unset", err |-> {}]]
    /\ mainPc = "startup"
    /\ step = 1
    /\ httpOk = FALSE
    /\ runPc = "start"
    /\ runErr = {}

(***************************************************************************)
(* utils.Process and utils.ServiceJob (spec 4.1, 4.2).                     *)
(***************************************************************************)

\* SpawnCriticalJob: the job starts under the Process context.
Spawn(j) == [job EXCEPT ![j].pc = "init"]

\* A job returns err: it is done, and a non-nil error cancels the Process.
Finish(j, err) ==
    /\ job' = [job EXCEPT ![j].pc = "done", ![j].err = err]
    /\ canceled' = (canceled \/ err # {})

\* Process.Done: the context is canceled and every spawned job has ended.
ProcessDone ==
    /\ canceled
    /\ \A j \in Jobs : job[j].pc \in {"new", "done"}

\* The caller of App.Run cancels its context (shutdown).
Shutdown ==
    /\ ~canceled
    /\ canceled' = TRUE
    /\ UNCHANGED <<job, mainPc, step, httpOk, runPc, runErr>>

(***************************************************************************)
(* The worker jobs, HTTP server and watcher, as the spec describes them:   *)
(* SetReady once initialisation is over, then run until the context is     *)
(* canceled (a nil error) or a failure.                                    *)
(***************************************************************************)
WorkerInit(j) ==
    /\ job[j].pc = "init"
    /\ \/ /\ ~canceled
          /\ job' = [job EXCEPT ![j].pc = "running", ![j].ready = "yes"]
       \/ /\ InitError[j] \in Failures
          /\ job' = [job EXCEPT ![j].pc = "failing", ![j].ready = "no"]
    /\ UNCHANGED <<canceled, mainPc, step, httpOk, runPc, runErr>>

WorkerStop(j) ==
    /\ \/ job[j].pc = "failing" /\ Finish(j, {InitError[j]})
       \/ job[j].pc \in {"init", "running"} /\ canceled /\ Finish(j, {})
       \/ /\ job[j].pc = "running"
          /\ RunError[j] \in Failures
          /\ Finish(j, {RunError[j]})
    /\ UNCHANGED <<mainPc, step, httpOk, runPc, runErr>>

(***************************************************************************)
(* App.run, the main job.                                                  *)
(***************************************************************************)

\* App.run returns err.
MainReturn(err) ==
    /\ Finish("main", err)
    /\ mainPc' = "done"

\* One startup call; after the last, EnsureCert, the HTTP job is spawned.
MainStartup ==
    /\ mainPc = "startup"
    /\ job["main"].pc = "running"
    /\ LET call == StartupCalls[step] IN
       \/ /\ canceled => call \notin UsesCtx
          /\ step < Len(StartupCalls)
          /\ step' = step + 1
          /\ UNCHANGED <<job, canceled, mainPc>>
       \/ /\ step = Len(StartupCalls)
          /\ job' = Spawn("http")
          /\ mainPc' = "waitHttp"
          /\ UNCHANGED <<canceled, step>>
       \/ /\ "startup" \in Failures
          /\ MainReturn({"startup"})
          /\ UNCHANGED step
       \/ /\ canceled
          /\ call \in UsesCtx
          /\ MainReturn({Canceled})
          /\ UNCHANGED step
    /\ UNCHANGED <<httpOk, runPc, runErr>>

\* Mutant of MainWaitHttp: WaitReady given a context that is never canceled.
MainWaitHttpNoCtx ==
    /\ mainPc = "waitHttp"
    /\ job["http"].ready # "unset"
    /\ httpOk' = (job["http"].ready = "yes")
    /\ mainPc' = "setup"
    /\ UNCHANGED <<job, canceled, step, runPc, runErr>>

\* httpJob.WaitReady(ctx): the signaled value, or the context's error (a
\* select: either, when both are there).
MainWaitHttp ==
    /\ mainPc = "waitHttp"
    /\ UNCHANGED step
    /\ \/ /\ job["http"].ready # "unset"
          /\ httpOk' = (job["http"].ready = "yes")
          /\ mainPc' = "setup"
          /\ UNCHANGED <<job, canceled>>
       \/ /\ canceled
          /\ MainReturn({Canceled})
          /\ UNCHANGED httpOk
    /\ UNCHANGED <<runPc, runErr>>

\* Bot.Setup(ctx), then the watcher job is spawned.
MainSetup ==
    /\ mainPc = "setup"
    /\ UNCHANGED step
    /\ \/ /\ ~canceled
          /\ job' = Spawn("watcher")
          /\ mainPc' = "waitWatcher"
          /\ UNCHANGED canceled
       \/ /\ "setup" \in Failures
          /\ MainReturn({"setup"})
       \/ /\ canceled
          /\ MainReturn({Canceled})
    /\ UNCHANGED <<httpOk, runPc, runErr>>

\* watcherJob.WaitReady(ctx), then mainJob.SetReady(httpOk && watcherOk).
MainWaitWatcher ==
    /\ mainPc = "waitWatcher"
    /\ UNCHANGED step
    /\ \/ /\ job["watcher"].ready # "unset"
          /\ job' = [job EXCEPT !["main"].ready =
                        IF httpOk /\ job["watcher"].ready = "yes"
                        THEN "yes" ELSE "no"]
          /\ mainPc' = "waitHttpDone"
          /\ UNCHANGED canceled
       \/ /\ canceled
          /\ MainReturn({Canceled})
    /\ UNCHANGED <<httpOk, runPc, runErr>>

\* Mutant of MainWaitDone: the aggregate leaves out the HTTP job's error.
MainWaitDoneWatcherOnly ==
    /\ \/ /\ mainPc = "waitHttpDone"
          /\ job["http"].pc = "done"
          /\ mainPc' = "waitWatcherDone"
          /\ UNCHANGED <<job, canceled>>
       \/ /\ mainPc = "waitWatcherDone"
          /\ job["watcher"].pc = "done"
          /\ MainReturn(job["watcher"].err)
    /\ UNCHANGED <<step, httpOk, runPc, runErr>>

\* <-httpJob.Done(); <-watcherJob.Done(); the aggregate of their errors.
MainWaitDone ==
    /\ \/ /\ mainPc = "waitHttpDone"
          /\ job["http"].pc = "done"
          /\ mainPc' = "waitWatcherDone"
          /\ UNCHANGED <<job, canceled>>
       \/ /\ mainPc = "waitWatcherDone"
          /\ job["watcher"].pc = "done"
          /\ MainReturn(job["http"].err \cup job["watcher"].err)
    /\ UNCHANGED <<step, httpOk, runPc, runErr>>

(***************************************************************************)
(* App.Run: spawn the main job, wait for the Process, return the main      *)
(* job's error.                                                            *)
(***************************************************************************)
RunStart ==
    /\ runPc = "start"
    /\ runPc' = "wait"
    /\ job' = [Spawn("main") EXCEPT !["main"].pc = "running"]
    /\ UNCHANGED <<canceled, mainPc, step, httpOk, runErr>>

RunReturn ==
    /\ runPc = "wait"
    /\ ProcessDone
    /\ runPc' = "returned"
    /\ runErr' = job["main"].err
    /\ UNCHANGED <<canceled, job, mainPc, step, httpOk>>

Main == MainStartup \/ MainWaitHttp \/ MainSetup \/ MainWaitWatcher
        \/ MainWaitDone

Next ==
    \/ RunStart \/ RunReturn \/ Shutdown \/ Main
    \/ \E j \in Workers : WorkerInit(j) \/ WorkerStop(j)

\* Once App.Run has returned the process exits and no step is left; a state
\* with no step before that is a hang, which ShutdownCompletes rules out.
Spec == Init /\ [][Next]_vars

\* Every goroutine that can go on eventually does.
FairSpec ==
    /\ Spec
    /\ WF_vars(RunStart) /\ WF_vars(RunReturn) /\ WF_vars(Main)
    /\ \A j \in Workers : WF_vars(WorkerInit(j)) /\ WF_vars(WorkerStop(j))

(***************************************************************************)
(* Properties.                                                             *)
(***************************************************************************)

\* App.Run never reports success after a critical job failed: whichever job
\* fails, and at whatever point of App.run, the error App.Run returns (the
\* main job's) is not nil.
FailureReported ==
    runPc = "returned" /\ (\E j \in Jobs : job[j].err # {}) => runErr # {}

\* Once the Process is canceled, by the caller or by a failing job, App.Run
\* returns: no job waits forever for another.
ShutdownCompletes == canceled ~> runPc = "returned"

\* The spec's error-aggregation claim (4.2): the error App.Run returns
\* contains the terminal error of every critical job, so that a caller sees
\* a listener failure and a watcher failure together.
ErrorsAggregated ==
    runPc = "returned" => job["http"].err \cup job["watcher"].err \subseteq runErr

=============================================================================
