----------------------------- MODULE MainServer -----------------------------
(***************************************************************************)
(* The main thread of src/src/main.cc driving the Server of                *)
(* src/src/server.cc: main creates the server and runs upnp_init with all  *)
(* signals masked; which exception a failed step throws decides whether    *)
(* main unmasks and shuts down (UpnpException) or exits at once (any other *)
(* Exception); once the server runs, an --add file may still fail and      *)
(* exit; on leaving its wait loop main shuts the singletons down and its   *)
(* exit status reports whether that threw.                                 *)
(* libupnp delivers callbacks while the device is registered and the       *)
(* process lives.                                                          *)
(***************************************************************************)
EXTENDS Naturals, Sequences

CONSTANTS
    SIGINT, SIGTERM, SIGHUP, SIGPIPE, MaxSignals, Argvs, Envs,
    DEFAULT_CONFIG_HOME,
    OurUDN, OtherUDN, CM, CDS, OtherService, MaxRequests

VARIABLES
    mpc, masked, pending, shutdown_flag, restart_flag, sent, termWhileMasked,
    argv, env, home, cfgdir, exitCode,
    phase, step, server_shutdown_flag, storageHeld, upnpFinished, requests,
    lastRequest, answer

M == INSTANCE Main
S == INSTANCE Server

mainVars == <<mpc, masked, pending, shutdown_flag, restart_flag, sent,
             termWhileMasked, argv, env, home, cfgdir, exitCode>>
serverVars == <<phase, step, server_shutdown_flag, storageHeld, upnpFinished,
               requests, lastRequest, answer>>
vars == <<mainVars, serverVars>>

\* The upnp_init step that threw: checkAddress and checkWebRoot throw a
\* plain Exception, every libupnp call an UpnpException.
FailedStep == IF step = 0 THEN "checkAddress" ELSE S!InitSteps[step + 1]
PlainExceptionSteps == {"checkAddress", "checkWebRoot"}

Init == M!Init /\ S!Init

\* A step of the main thread that leaves the server alone.
MainOnly(A) == A /\ UNCHANGED serverVars

\* Lines 287-290: upnp_init runs inside main's try, one step at a time.
ServerInit ==
    /\ mpc = "init"
    /\ S!StartInit \/ S!InitStep
    /\ UNCHANGED mainVars

\* upnp_init returned and every --add file was handed to ContentManager.
InitOk ==
    /\ phase = "running"
    /\ M!InitOk
    /\ UNCHANGED serverVars

\* A plain Exception from upnp_init, or an --add file failing after the
\* server has started (lines 315-334): exit(EXIT_FAILURE) at once.
InitFailExit ==
    /\ \/ phase = "initFailed" /\ FailedStep \in PlainExceptionSteps
       \/ phase = "running"
    /\ M!InitFailExit
    /\ UNCHANGED serverVars

\* An UpnpException from upnp_init: unmask, then shut down.
InitFailUpnp ==
    /\ phase = "initFailed"
    /\ FailedStep \notin PlainExceptionSteps
    /\ M!InitFailUpnp
    /\ UNCHANGED serverVars

\* singletonManager->shutdown(true), after the UpnpException or after the
\* wait loop.  Nothing in the repository calls Server::shutdown (main holds
\* the server in a local shared_ptr and exit() runs no destructor), so the
\* server stays as upnp_init left it until the process is gone.
FailShutdownDone == MainOnly(M!FailShutdownDone)

ShutdownDone == \E ok \in BOOLEAN : MainOnly(M!ShutdownDone(ok))

\* libupnp's threads call upnp_callback until the process is gone.
Callback ==
    /\ mpc \notin M!Gone
    /\ \E r \in S!Requests, outcome \in S!Outcomes : S!Callback(r, outcome)
    /\ UNCHANGED mainVars

MainStep ==
    \/ MainOnly(M!OptionStep) \/ ServerInit
    \/ InitOk \/ InitFailExit \/ InitFailUpnp \/ FailShutdownDone
    \/ MainOnly(M!Unmask) \/ MainOnly(M!Test) \/ MainOnly(M!Wait)
    \/ ShutdownDone

Next ==
    \/ MainStep
    \/ MainOnly(M!SpuriousWakeup)
    \/ \E sig \in M!Signals : MainOnly(M!Send(sig)) \/ MainOnly(M!Deliver(sig))
    \/ Callback

\* As in Main: the main thread runs whenever it is not blocked, and a
\* pending unmasked signal is delivered.
Fairness ==
    /\ WF_vars(MainStep)
    /\ \A sig \in M!Signals : WF_vars(MainOnly(M!Deliver(sig)))

Spec == Init /\ [][Next]_vars /\ Fairness

-----------------------------------------------------------------------------
\* Every variable of both components holds a value of its type.
TypeOK == M!TypeOK /\ S!TypeOK

\* A SIGINT or SIGTERM sent while the server starts up with signals masked
\* is not lost, whichever upnp_init step fails or none: the process ends.
TermDuringStartupHonoured == termWhileMasked ~> mpc \in M!Gone

\* A zero exit status tells whoever started the process that it did what
\* was asked: it is only given for --help, --version and --compile-info
\* (before any server exists), or for a server that started completely and
\* was stopped by SIGINT or SIGTERM; every failed startup, whichever
\* upnp_init step or --add file failed, exits with EXIT_FAILURE.
CleanExit ==
    exitCode = "EXIT_SUCCESS" =>
        \/ phase = "created" /\ argv.info
        \/ phase = "running" /\ shutdown_flag > 0

=============================================================================
