----------------------------- MODULE MainUpdate -----------------------------
(***************************************************************************)
(* The main thread of src/src/main.cc together with the UpdateManager      *)
(* worker of src/src/update_manager.cc.  When Storage::incrementUpdateIDs  *)
(* or ContentDirectoryService::subscription_update throws, the worker logs *)
(* "Fatal error when sending updates ... Forcing MediaTomb shutdown." and  *)
(* sends kill(0, SIGINT) (lines 236-239, 251-253): the process-directed    *)
(* signal is blocked in the worker, which inherited main's full mask, and  *)
(* reaches signal_handler on the main thread.  The worker and its callers  *)
(* run once upnp_init has created the UpdateManager, until the process is  *)
(* gone; whether SingletonManager::shutdown (not in the repository) calls  *)
(* UpdateManager::shutdown is left open: it may, while main is in          *)
(* singletonManager->shutdown.  Every signal here comes from the worker.   *)
(***************************************************************************)
EXTENDS Naturals

CONSTANTS
    SIGINT, SIGTERM, SIGHUP, SIGPIPE, MaxSignals, Argvs, Envs,
    DEFAULT_CONFIG_HOME,
    Callers, Ids, INVALID_OBJECT_ID, FLUSH_SPEC, FLUSH_ASAP, MAX_OBJECT_IDS,
    MAX_OBJECT_IDS_OVERLOAD, MaxBatch, MaxCalls, MaxFailures

VARIABLES
    mpc, masked, pending, shutdown_flag, restart_flag, sent, termWhileMasked,
    argv, env, home, cfgdir, exitCode,
    objectIDHash, lastContainerChanged, flushPolicy, shutdownFlag,
    intervalElapsed, wpc, updateOk, cpc, cIds, cSignal, cSplit, cAsap, calls,
    sigints, idPending, asapPending

M == INSTANCE Main
U == INSTANCE UpdateManager WITH pending <- idPending

mainVars == <<mpc, masked, pending, shutdown_flag, restart_flag, sent,
             termWhileMasked, argv, env, home, cfgdir, exitCode>>
updateVars == <<objectIDHash, lastContainerChanged, flushPolicy, shutdownFlag,
               intervalElapsed, wpc, updateOk, cpc, cIds, cSignal, cSplit,
               cAsap, calls, sigints, idPending, asapPending>>
vars == <<mainVars, updateVars>>

\* From the end of upnp_init, which creates the UpdateManager, on: the
\* unmask, the wait loop and the shutdown.
UpdateRunning == {"unmask", "test", "read0", "waiting", "shutdown"}

Init == M!Init /\ U!Init

MainOnly(A) == A /\ UNCHANGED updateVars

\* A step of the worker or of a caller; a step that sends kill(0, SIGINT)
\* makes the signal pending for the process.
UpdateStep(A) ==
    /\ mpc \in UpdateRunning
    /\ A
    /\ IF sigints' # sigints THEN M!Send(SIGINT) ELSE UNCHANGED mainVars

\* UpdateManager::shutdown, if SingletonManager calls it.
UpdateShutdown ==
    /\ mpc = "shutdown"
    /\ U!Shutdown
    /\ UNCHANGED mainVars

CallerStep ==
    \/ \E c \in Callers, p \in U!Policies :
          \/ \E id \in Ids : U!ContainerChanged(c, id, p)
          \/ \E ids \in U!Batches : U!ContainersChanged(c, ids, p)
    \/ \E c \in Callers : U!SpinRelock(c)

Next ==
    \/ MainOnly(M!MainStep)
    \/ MainOnly(M!SpuriousWakeup)
    \/ \E sig \in M!Signals : MainOnly(M!Deliver(sig))
    \/ UpdateStep(U!Worker) \/ UpdateStep(U!Tick) \/ UpdateStep(CallerStep)
    \/ UpdateShutdown

\* The fairness of both components: threads that are not blocked run, an
\* unmasked pending signal is delivered, a timed wait returns.
Fairness ==
    /\ WF_vars(MainOnly(M!MainStep))
    /\ \A sig \in M!Signals : WF_vars(MainOnly(M!Deliver(sig)))
    /\ WF_vars(UpdateStep(U!WorkerRelock))
    /\ WF_vars(UpdateStep(U!WorkerRelockTimed))
    /\ WF_vars(UpdateStep(U!AfterSend))
    /\ WF_vars(UpdateStep(U!Timeout))
    /\ \A c \in Callers : WF_vars(UpdateStep(U!SpinRelock(c)))

Spec == Init /\ [][Next]_vars /\ Fairness

-----------------------------------------------------------------------------
\* A fatal error of the update thread ends the process: once the worker
\* has sent kill(0, SIGINT) after "Forcing MediaTomb shutdown.", main
\* leaves its loop and exits (or the handler exits), whether or not the
\* next flush succeeds.
FatalErrorHonoured == sigints > 0 ~> mpc \in M!Gone

=============================================================================
