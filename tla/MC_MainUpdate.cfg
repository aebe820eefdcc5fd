\* One caller, one container and one failed flush: a storage error that
\* goes away on the retry.  The worker's kill(0, SIGINT) is the only signal
\* (MaxSignals = MaxFailures, so the bound never holds the worker back).
CONSTANTS
    SIGINT = SIGINT
    SIGTERM = SIGTERM
    SIGHUP = SIGHUP
    SIGPIPE = SIGPIPE
    MaxSignals = 1
    Argvs <- MCArgvsPlain
    Envs <- MCEnvsPlain
    DEFAULT_CONFIG_HOME = ".config/gerbera"
    Callers = {c1}
    Ids = {o1}
    INVALID_OBJECT_ID = INVALID_OBJECT_ID
    FLUSH_SPEC = 1
    FLUSH_ASAP = 2
    MAX_OBJECT_IDS = 2
    MAX_OBJECT_IDS_OVERLOAD = 1
    MaxBatch = 1
    MaxCalls = 2
    MaxFailures = 1
SPECIFICATION Spec
\* The process exits, and its threads legitimately stay blocked once no
\* more calls come; neither is a deadlock of the code.
CHECK_DEADLOCK FALSE
PROPERTY FatalErrorHonoured
