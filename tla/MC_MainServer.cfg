CONSTANTS
    SIGINT = SIGINT
    SIGTERM = SIGTERM
    SIGHUP = SIGHUP
    SIGPIPE = SIGPIPE
    MaxSignals = 2
    Argvs <- MCArgvsPlain
    Envs <- MCEnvsPlain
    DEFAULT_CONFIG_HOME = ".config/gerbera"
    OurUDN = OurUDN
    OtherUDN = OtherUDN
    CM = CM
    CDS = CDS
    OtherService = OtherService
    MaxRequests = 1
SPECIFICATION Spec
\* The process exits, and the main thread legitimately stays blocked once
\* no more signals come; neither is a deadlock of the code.
CHECK_DEADLOCK FALSE
INVARIANT TypeOK
INVARIANT CleanExit
PROPERTY TermDuringStartupHonoured
