------------------------------- MODULE Server -------------------------------
(***************************************************************************)
(* Server (src/src/server.cc) and ConnectionManagerService's actions       *)
(* (src/src/upnp_cm_actions.cc): upnp_init as its sequence of fallible     *)
(* steps, shutdown, and upnp_callback dispatching the requests libupnp     *)
(* delivers while the root device is registered.  libupnp calls           *)
(* upnp_callback from its thread pool; the callback takes the device-wide  *)
(* mutex before it looks at the event, so each callback is one step.  A    *)
(* request is a record of its event type, UDN, service and action name;    *)
(* what the services do beyond the answer is not modelled.                 *)
(***************************************************************************)
EXTENDS Naturals, Sequences

CONSTANTS
    OurUDN, OtherUDN,        \* serverUDN and some other device's UDN
    CM, CDS, OtherService,   \* service ids
    MaxRequests              \* callbacks delivered in one behaviour

\* upnp_init's steps, in order; each may throw.
InitSteps == <<"checkAddress", "UpnpInit2", "checkWebRoot",
               "SetWebServerRootDir", "AddVirtualDir", "registerWebCallbacks",
               "RegisterRootDevice2", "SendAdvertisement">>
StepIndex(name) == CHOOSE i \in 1..Len(InitSteps) : InitSteps[i] = name

EventTypes == {"action", "subscription", "other", "null"}
CMActions == {"GetCurrentConnectionIDs", "GetCurrentConnectionInfo",
              "GetProtocolInfo", "Browse"}
\* How a service's handler ends: normally, with an UpnpException, or with
\* another Exception (Storage::getMimeTypes, a CDS handler).
Outcomes == {"ok", "upnpException", "exception"}

Requests == [type : EventTypes, udn : {OurUDN, OtherUDN},
             service : {CM, CDS, OtherService}, action : CMActions]

\* The answer a callback leaves: upnp_callback's return value, the event's
\* ErrCode ("unset" if nothing wrote it), whether a response document was
\* attached, and which service handled the request ("none" if none).
NoAnswer == [ret |-> "none", err |-> "unset", response |-> FALSE, to |-> "none"]

VARIABLES
    phase,                 \* "created", "initing", "running", "initFailed", "down", "shutdownFailed"
    step,                  \* upnp_init's steps done
    server_shutdown_flag,
    storageHeld,           \* Server::storage is set
    upnpFinished,          \* UpnpFinish was called
    requests,              \* callbacks delivered so far
    lastRequest,
    answer                 \* the answer to the last callback

vars == <<phase, step, server_shutdown_flag, storageHeld, upnpFinished,
          requests, lastRequest, answer>>

deviceRegistered == step >= StepIndex("RegisterRootDevice2") /\ ~upnpFinished

Init ==
    /\ phase = "created"
    /\ step = 0
    /\ server_shutdown_flag = FALSE
    /\ storageHeld = FALSE
    /\ upnpFinished = FALSE
    /\ requests = 0
    /\ lastRequest = CHOOSE r \in Requests : TRUE
    /\ answer = NoAnswer

-----------------------------------------------------------------------------
(* upnp_init and shutdown *)

\* upnp_init starts: the address check, then storage = Storage::getInstance().
StartInit ==
    /\ phase = "created"
    /\ \/ /\ phase' = "initing"
          /\ step' = 1
          /\ storageHeld' = TRUE
       \/ /\ phase' = "initFailed"
          /\ UNCHANGED <<step, storageHeld>>
    /\ UNCHANGED <<server_shutdown_flag, upnpFinished, requests, lastRequest, answer>>

\* Whether the step just done was upnp_init's last.
InitDoneLate(s) == s > Len(InitSteps)

InitDone(s) == s = Len(InitSteps)

\* The next step of upnp_init succeeds or throws; after the last one the
\* UpdateManager and ContentManager are created and the bookmark written.
InitStep ==
    /\ phase = "initing"
    /\ \/ /\ step' = step + 1
          /\ phase' = IF InitDone(step + 1) THEN "running" ELSE "initing"
       \/ /\ phase' = "initFailed"
          /\ UNCHANGED step
    /\ UNCHANGED <<server_shutdown_flag, storageHeld, upnpFinished, requests, lastRequest, answer>>

\* shutdown: set the flag, unregister the root device (throws if that
\* fails, e.g. on a handle that was never registered), UpnpFinish, clean
\* up the storage thread and drop the storage reference.
UnregisterFails ==
    step < StepIndex("RegisterRootDevice2")

Shutdown ==
    /\ phase \in {"running", "initFailed"}
    /\ server_shutdown_flag' = TRUE
    /\ \/ /\ UnregisterFails
          /\ phase' = "shutdownFailed"
          /\ UNCHANGED <<storageHeld, upnpFinished>>
       \/ /\ phase' = "down"
          /\ upnpFinished' = TRUE
          /\ storageHeld' = FALSE
    /\ UNCHANGED <<step, requests, lastRequest, answer>>

-----------------------------------------------------------------------------
(* upnp_callback *)

\* ConnectionManagerService::process_action_request and its actions: the
\* error code each sets and whether it attaches a response.
CMAnswer(action, outcome) ==
    CASE action = "GetCurrentConnectionIDs" -> [err |-> "SUCCESS", response |-> TRUE]
      [] action = "GetCurrentConnectionInfo" -> [err |-> "NOT_EXIST", response |-> FALSE]
      [] action = "GetProtocolInfo" /\ outcome = "ok" -> [err |-> "SUCCESS", response |-> TRUE]
      [] action = "GetProtocolInfo" -> [err |-> "throws", response |-> FALSE]
      [] OTHER -> [err |-> "INVALID_ACTION", response |-> FALSE]

\* The service upnp_actions / upnp_subscriptions hands a request to, or
\* "reject" for the UpnpException(UPNP_E_BAD_REQUEST) they throw.
Route(r) ==
    IF r.udn # OurUDN \/ r.service \notin {CM, CDS} THEN "reject" ELSE r.service

\* upnp_subscriptions: the same check of the UDN, then ContentDirectory
\* before ConnectionManager (MRREG is not compiled in).
RouteSubscription(r) ==
    CASE r.udn # OurUDN -> "reject"
      [] r.service = CDS -> CDS
      [] r.service = CM -> CM
      [] OTHER -> "reject"

\* The answer to an action request: the handler's error code and response
\* reach the event only through request->update(); an UpnpException sets
\* ErrCode and the return value; another Exception is only logged.
ActionAnswer(r, outcome) ==
    LET to == Route(r)
        handled == IF to = CM THEN CMAnswer(r.action, outcome)
                   ELSE CASE outcome = "ok" -> [err |-> "SUCCESS", response |-> TRUE]
                          [] outcome = "upnpException" -> [err |-> "upnpError", response |-> FALSE]
                          [] OTHER -> [err |-> "throws", response |-> FALSE]
    IN CASE to = "reject" ->
              [ret |-> "BAD_REQUEST", err |-> "BAD_REQUEST", response |-> FALSE, to |-> "none"]
         [] handled.err = "upnpError" ->
              [ret |-> "upnpError", err |-> "upnpError", response |-> FALSE, to |-> to]
         [] handled.err = "throws" ->
              [ret |-> "SUCCESS", err |-> "unset", response |-> FALSE, to |-> to]
         [] OTHER ->
              [ret |-> "SUCCESS", err |-> handled.err, response |-> handled.response, to |-> to]

\* A subscription request: an UpnpException is logged and returned; no
\* other exception is caught, so it leaves upnp_callback ("uncaught").
SubscriptionAnswer(r, outcome) ==
    LET to == RouteSubscription(r)
    IN CASE to = "reject" ->
              [ret |-> "BAD_REQUEST", err |-> "unset", response |-> FALSE, to |-> "none"]
         [] outcome = "exception" ->
              [ret |-> "uncaught", err |-> "unset", response |-> FALSE, to |-> to]
         [] outcome = "upnpException" ->
              [ret |-> "upnpError", err |-> "unset", response |-> FALSE, to |-> to]
         [] OTHER ->
              [ret |-> "SUCCESS", err |-> "unset", response |-> FALSE, to |-> to]

\* libupnp delivers a request while the root device is registered.
Callback(r, outcome) ==
    /\ deviceRegistered
    /\ requests < MaxRequests
    /\ requests' = requests + 1
    /\ lastRequest' = r
    /\ answer' =
          CASE r.type = "null" ->
                 [ret |-> "BAD_REQUEST", err |-> "unset", response |-> FALSE, to |-> "none"]
            [] r.type = "action" -> ActionAnswer(r, outcome)
            [] r.type = "subscription" -> SubscriptionAnswer(r, outcome)
            [] OTHER ->
                 [ret |-> "BAD_REQUEST", err |-> "unset", response |-> FALSE, to |-> "none"]
    /\ UNCHANGED <<phase, step, server_shutdown_flag, storageHeld, upnpFinished>>

Next ==
    \/ StartInit
    \/ InitStep
    \/ Shutdown
    \/ \E r \in Requests, outcome \in Outcomes : Callback(r, outcome)

Spec == Init /\ [][Next]_vars

-----------------------------------------------------------------------------
\* Every variable holds a value of its type.
TypeOK ==
    /\ phase \in {"created", "initing", "running", "initFailed", "down", "shutdownFailed"}
    /\ step \in 0..Len(InitSteps)
    /\ server_shutdown_flag \in BOOLEAN
    /\ storageHeld \in BOOLEAN
    /\ upnpFinished \in BOOLEAN
    /\ requests \in 0..MaxRequests
    /\ lastRequest \in Requests
    /\ answer.to \in {"none", CM, CDS}

\* upnp_callback answers every request it handles: no exception leaves it
\* (it returns to libupnp's C code, and an exception unwinding through it
\* terminates the server), and an action's event carries either a
\* response document with UPNP_E_SUCCESS or an error code, so the control
\* point is told whether its action succeeded.
CallbackAnswers ==
    /\ answer.ret # "uncaught"
    /\ (answer # NoAnswer /\ lastRequest.type = "action") =>
          \/ answer.response /\ answer.err = "SUCCESS"
          \/ answer.err \notin {"SUCCESS", "unset"}

=============================================================================
