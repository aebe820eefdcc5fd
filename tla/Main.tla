-------------------------------- MODULE Main --------------------------------
(***************************************************************************)
(* The main thread of the server (src/src/main.cc) from the parse of its   *)
(* command line to its exit, together with signal_handler.  Until line 264 *)
(* no handler is installed and nothing is masked, so a signal has its      *)
(* default action and ends the process.  Every thread created after that   *)
(* inherits the full mask, so every signal is handled on the main thread:  *)
(* the handler interrupts the main thread between any two of its steps.  A *)
(* signal that arrives while it is masked stays pending; pending instances *)
(* of one signal number coalesce into one.                                 *)
(*                                                                         *)
(* A command line is a record of the options main reads: whether parsing   *)
(* succeeds, hits an unknown option or a missing or ill-typed argument,    *)
(* whether --help, --version or --compile-info is given, and the values of *)
(* --pidfile, --home, --cfgdir and --config ("" when absent: cxxopts gives *)
(* the default-constructed string).  The environment is the values of      *)
(* XDG_CONFIG_HOME and HOME ("" when unset).                               *)
(***************************************************************************)
EXTENDS Naturals, FiniteSets

CONSTANTS
    SIGINT, SIGTERM, SIGHUP, SIGPIPE,  \* the signals with a handler
    MaxSignals,                        \* signals sent in one behaviour
    Argvs,                             \* command lines the process may get
    Envs,                              \* environments it may run in
    DEFAULT_CONFIG_HOME                \* the cfgdir used below $HOME

Signals == {SIGINT, SIGTERM, SIGHUP, SIGPIPE}
Terminating == {SIGINT, SIGTERM}

VARIABLES
    mpc,            \* where the main thread is
    masked,         \* all signals blocked by pthread_sigmask
    pending,        \* signals sent and not yet handled
    shutdown_flag,  \* the global shutdown_flag
    restart_flag,   \* the global restart_flag
    sent,           \* signals sent so far
    termWhileMasked,\* history: a terminating signal was sent while masked
    argv,           \* the command line
    env,            \* the environment
    home,           \* the home path handed to ConfigManager
    cfgdir,         \* the cfgdir handed to ConfigManager
    exitCode        \* the status passed to exit(), "none" before

optVars == <<argv, env, home, cfgdir>>
vars == <<mpc, masked, pending, shutdown_flag, restart_flag, sent,
          termWhileMasked, optVars, exitCode>>

\* "parse": options.parse and the --help/--version/--compile-info exits;
\* "pidfile": writing the pid file; "resolve": home and cfgdir from the
\* options and the environment; "load": configManager->load(); "init":
\* signals masked, upnp_init and --add files run; "failShutdown": the
\* UpnpException branch shutting down; "unmask": before the pthread_sigmask
\* of line 340; "test": about to read shutdown_flag in the loop condition;
\* "read0": read it as 0 and about to enter cond.wait; "waiting": blocked in
\* cond.wait; "shutdown": in singletonManager->shutdown; "exited": exit();
\* "killed": exit(1) in the handler, or a signal's default action;
\* "aborted": an exception nothing catches (std::terminate).
OptionPositions == {"parse", "pidfile", "resolve", "load"}
Positions == OptionPositions \cup
             {"init", "failShutdown", "unmask", "test", "read0", "waiting",
              "shutdown", "exited", "killed", "aborted"}
Gone == {"exited", "killed", "aborted"}

\* The handler's effect on shutdown_flag, restart_flag and the main thread
\* for the set S of signals it runs for, in one go.  SIGINT and SIGTERM add
\* one to shutdown_flag each and a count past 2 calls exit(1); SIGHUP sets
\* restart_flag; every signal ends with cond.notify_one, which wakes the
\* main thread only if it is already blocked in cond.wait.
HandlerFlag(S) == shutdown_flag + Cardinality(S \cap Terminating)

HandlerPc(S) ==
    IF HandlerFlag(S) > 2 THEN "killed"
    ELSE IF mpc = "waiting" /\ S # {} THEN "test"
    ELSE mpc

RunHandler(S) ==
    /\ shutdown_flag' = HandlerFlag(S)
    /\ restart_flag' = IF SIGHUP \in S THEN 1 ELSE restart_flag
    /\ pending' = pending \ S

Init ==
    /\ mpc = "parse"
    /\ masked = FALSE
    /\ pending = {}
    /\ shutdown_flag = 0
    /\ restart_flag = 0
    /\ sent = 0
    /\ termWhileMasked = FALSE
    /\ argv \in Argvs
    /\ env \in Envs
    /\ home = ""
    /\ cfgdir = ""
    /\ exitCode = "none"

\* kill() from a user or from UpdateManager's kill(0, SIGINT).
Send(sig) ==
    /\ sent < MaxSignals
    /\ mpc \notin Gone
    /\ sent' = sent + 1
    /\ pending' = pending \cup {sig}
    /\ termWhileMasked' = (termWhileMasked \/ (masked /\ sig \in Terminating))
    /\ UNCHANGED <<mpc, masked, shutdown_flag, restart_flag, optVars, exitCode>>

\* The kernel delivers one pending signal: before sigaction has installed
\* signal_handler the default action of all four ends the process.
Deliver(sig) ==
    /\ ~masked
    /\ sig \in pending
    /\ mpc \notin Gone
    /\ IF mpc \in OptionPositions
          THEN /\ mpc' = "killed"
               /\ pending' = pending \ {sig}
               /\ UNCHANGED <<shutdown_flag, restart_flag>>
          ELSE /\ RunHandler({sig})
               /\ mpc' = HandlerPc({sig})
    /\ UNCHANGED <<masked, sent, termWhileMasked, optVars, exitCode>>

-----------------------------------------------------------------------------
(* Options and configuration (lines 96-265) *)

Exit(code) ==
    /\ mpc' = "exited"
    /\ exitCode' = code

\* options.parse: an unknown option is caught and exits; a missing or
\* ill-typed argument throws an exception that nothing catches; --help,
\* --version and --compile-info print and exit.
ParseOptions ==
    /\ mpc = "parse"
    /\ CASE argv.parse = "unknown" -> Exit("EXIT_FAILURE")
         [] argv.parse = "badValue" -> mpc' = "aborted" /\ UNCHANGED exitCode
         [] argv.info -> Exit("EXIT_SUCCESS")
         [] OTHER -> mpc' = "pidfile" /\ UNCHANGED exitCode
    /\ UNCHANGED <<masked, pending, shutdown_flag, restart_flag, sent,
                   termWhileMasked, optVars>>

\* With --pidfile the pid is written there; a failed write exits.
WritePidFile ==
    /\ mpc = "pidfile"
    /\ \/ /\ mpc' = "resolve"
          /\ UNCHANGED exitCode
       \/ /\ argv.pidfile # ""
          /\ Exit("EXIT_FAILURE")
    /\ UNCHANGED <<masked, pending, shutdown_flag, restart_flag, sent,
                   termWhileMasked, optVars>>

\* The option main reads the home path from (line 186).
HomeOption(a) == a.pidfile

\* Lines 186-227: home and cfgdir from the options; without a config file
\* and a home, from XDG_CONFIG_HOME (with cfgdir "gerbera") or HOME, with
\* DEFAULT_CONFIG_HOME as the cfgdir; no home at all exits.
ResolveHome ==
    LET given   == HomeOption(argv)
        fromEnv == argv.config = "" /\ given = ""
        h == IF ~fromEnv THEN given
             ELSE IF env.xdg # "" THEN env.xdg ELSE env.home
        c == IF fromEnv /\ env.xdg # "" THEN "gerbera"
             ELSE IF fromEnv /\ argv.cfgdir = "" THEN DEFAULT_CONFIG_HOME
             ELSE argv.cfgdir
    IN /\ mpc = "resolve"
       /\ home' = h
       /\ cfgdir' = c
       /\ IF fromEnv /\ h = "" THEN Exit("EXIT_FAILURE")
                                ELSE mpc' = "load" /\ UNCHANGED exitCode
       /\ UNCHANGED <<masked, pending, shutdown_flag, restart_flag, sent,
                      termWhileMasked, argv, env>>

\* configManager->load() throws (a parse error or another Exception) and
\* exits, or succeeds; then all signals are masked (lines 262-265).
LoadConfig ==
    /\ mpc = "load"
    /\ \/ /\ mpc' = "init"
          /\ masked' = TRUE
          /\ UNCHANGED exitCode
       \/ /\ Exit("EXIT_FAILURE")
          /\ UNCHANGED masked
    /\ UNCHANGED <<pending, shutdown_flag, restart_flag, sent, termWhileMasked, optVars>>

OptionStep == ParseOptions \/ WritePidFile \/ ResolveHome \/ LoadConfig

-----------------------------------------------------------------------------
(* Startup, the wait loop and shutdown (lines 266-406) *)

\* upnp_init and the --add files succeed.
InitOk ==
    /\ mpc = "init"
    /\ mpc' = "unmask"
    /\ UNCHANGED <<masked, pending, shutdown_flag, restart_flag, sent,
                   termWhileMasked, optVars, exitCode>>

\* upnp_init or an added file throws an Exception other than UpnpException:
\* exit(EXIT_FAILURE) with signals still masked.
InitFailExit ==
    /\ mpc = "init"
    /\ Exit("EXIT_FAILURE")
    /\ UNCHANGED <<masked, pending, shutdown_flag, restart_flag, sent,
                   termWhileMasked, optVars>>

UnmaskLate ==
    /\ masked' = FALSE
    /\ UNCHANGED <<shutdown_flag, restart_flag, pending>>

\* Unmasking delivers every pending signal before pthread_sigmask returns.
UnmaskAndDeliver ==
    /\ masked' = FALSE
    /\ RunHandler(pending)

\* upnp_init throws UpnpException: signals are unmasked (lines 293-294),
\* then singletonManager->shutdown and exit(EXIT_FAILURE).
InitFailUpnp ==
    /\ mpc = "init"
    /\ UnmaskAndDeliver
    /\ mpc' = IF HandlerFlag(pending) > 2 THEN "killed" ELSE "failShutdown"
    /\ UNCHANGED <<sent, termWhileMasked, optVars, exitCode>>

FailShutdownDoneRetOk ==
    /\ mpc = "failShutdown"
    /\ Exit("EXIT_SUCCESS")
    /\ UNCHANGED <<masked, pending, shutdown_flag, restart_flag, sent,
                   termWhileMasked, optVars>>

\* singletonManager->shutdown returns, or throws and is logged.
FailShutdownDone ==
    /\ mpc = "failShutdown"
    /\ Exit("EXIT_FAILURE")
    /\ UNCHANGED <<masked, pending, shutdown_flag, restart_flag, sent,
                   termWhileMasked, optVars>>

\* Lines 339-340: sigemptyset and pthread_sigmask, then the loop.
Unmask ==
    /\ mpc = "unmask"
    /\ UnmaskAndDeliver
    /\ mpc' = IF HandlerFlag(pending) > 2 THEN "killed" ELSE "test"
    /\ UNCHANGED <<sent, termWhileMasked, optVars, exitCode>>

\* while (!shutdown_flag): the read of the flag.
Test ==
    /\ mpc = "test"
    /\ mpc' = IF shutdown_flag = 0 THEN "read0" ELSE "shutdown"
    /\ UNCHANGED <<masked, pending, shutdown_flag, restart_flag, sent,
                   termWhileMasked, optVars, exitCode>>

\* cond.wait(lock): the thread becomes a waiter of cond.
Wait ==
    /\ mpc = "read0"
    /\ mpc' = "waiting"
    /\ UNCHANGED <<masked, pending, shutdown_flag, restart_flag, sent,
                   termWhileMasked, optVars, exitCode>>

\* cond.wait may return without a notify.
SpuriousWakeup ==
    /\ mpc = "waiting"
    /\ mpc' = "test"
    /\ UNCHANGED <<masked, pending, shutdown_flag, restart_flag, sent,
                   termWhileMasked, optVars, exitCode>>

\* singletonManager->shutdown(true) returns (ok) or throws an UpnpException
\* or another Exception, which set ret to EXIT_FAILURE; exit(ret).
ShutdownDone(ok) ==
    /\ mpc = "shutdown"
    /\ Exit(IF ok THEN "EXIT_SUCCESS" ELSE "EXIT_FAILURE")
    /\ UNCHANGED <<masked, pending, shutdown_flag, restart_flag, sent,
                   termWhileMasked, optVars>>

MainStep ==
    \/ OptionStep
    \/ InitOk \/ InitFailExit \/ InitFailUpnp \/ FailShutdownDone \/ Unmask
    \/ Test \/ Wait \/ \E ok \in BOOLEAN : ShutdownDone(ok)

Next ==
    \/ MainStep
    \/ SpuriousWakeup
    \/ \E sig \in Signals : Send(sig) \/ Deliver(sig)

\* The main thread runs whenever it is not blocked; a pending unmasked
\* signal is delivered to it.
Fairness ==
    /\ WF_vars(MainStep)
    /\ \A sig \in Signals : WF_vars(Deliver(sig))

Spec == Init /\ [][Next]_vars /\ Fairness

-----------------------------------------------------------------------------
\* Every variable holds a value of its type.
TypeOK ==
    /\ mpc \in Positions
    /\ masked \in BOOLEAN
    /\ pending \subseteq Signals
    /\ shutdown_flag \in 0..3
    /\ restart_flag \in {0, 1}
    /\ sent \in 0..MaxSignals
    /\ termWhileMasked \in BOOLEAN
    /\ argv \in Argvs /\ env \in Envs
    /\ exitCode \in {"none", "EXIT_SUCCESS", "EXIT_FAILURE"}

\* A SIGINT or SIGTERM sent while the server is still starting up (signals
\* masked) is not lost: the process terminates once startup is over.
TermDuringStartupHonoured ==
    termWhileMasked ~> mpc \in Gone

\* main does what its --help text says of the command line: every command
\* line ends in a start or in an exit with a message, never in an uncaught
\* exception; and a server that goes on to load its configuration uses the
\* home path given with -m/--home (otherwise one from the environment, or
\* none when a config file is given) and the directory given with
\* -f/--cfgdir.  Every run that loads the configuration passes "load".
CommandLineHonoured ==
    /\ mpc # "aborted"
    /\ mpc = "load" =>
          /\ home \in IF argv.home # "" THEN {argv.home} ELSE {"", env.xdg, env.home}
          /\ argv.cfgdir # "" => cfgdir = argv.cfgdir

=============================================================================
