CONSTANTS
    SIGINT = SIGINT
    SIGTERM = SIGTERM
    SIGHUP = SIGHUP
    SIGPIPE = SIGPIPE
    MaxSignals = 0
    Argvs <- MCArgvsAll
    Envs <- MCEnvsAll
    DEFAULT_CONFIG_HOME = ".config/gerbera"
SPECIFICATION Spec
\* The process exits.
CHECK_DEADLOCK FALSE
INVARIANT CommandLineHonoured
