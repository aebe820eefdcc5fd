CONSTANTS
    InputLengths = {0, 2}
    SIGTERM = SIGTERM
    SIGINT = SIGINT
    SIGKILL = SIGKILL
SPECIFICATION Spec
\* Both functions return; the model stops there.
CHECK_DEADLOCK FALSE
INVARIANT RunSimpleProcessSound
