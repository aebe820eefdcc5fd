CONSTANTS
    OurUDN = OurUDN
    OtherUDN = OtherUDN
    CM = CM
    CDS = CDS
    OtherService = OtherService
    MaxRequests = 2
SPECIFICATION Spec
\* The server stops after shutdown or a failed upnp_init, and libupnp
\* delivers only MaxRequests callbacks; neither is a deadlock of the code.
CHECK_DEADLOCK FALSE
INVARIANT CallbackAnswers
