---------------------------- MODULE UpdateManager ----------------------------
(***************************************************************************)
(* The UpdateManager of src/src/update_manager.cc.  Caller threads report  *)
(* changed containers with containerChanged / containersChanged; one       *)
(* worker thread (threadProc) batches the reported ids in objectIDHash and *)
(* flushes them through Storage::incrementUpdateIDs, then publishes the    *)
(* result with ContentDirectoryService::subscription_update.               *)
(*                                                                         *)
(* Every stretch of code that runs while holding `mutex` is one action:    *)
(* the mutex makes it atomic.  The mutex is released only inside           *)
(* cond.wait / cond.wait_for, while the worker sends the update string,    *)
(* and inside the overload loop of containersChanged; those are the points *)
(* where the model interleaves.  Time is abstracted to one boolean:        *)
(* whether SPEC_INTERVAL has elapsed since lastUpdate.                     *)
(***************************************************************************)
EXTENDS Naturals, Sequences, FiniteSets, SequencesExt

CONSTANTS
  Callers,                  \* threads that call containerChanged(s)
  Ids,                      \* object ids of containers
  INVALID_OBJECT_ID,        \* the "no container" id
  FLUSH_SPEC, FLUSH_ASAP,   \* the two flush policies, FLUSH_SPEC < FLUSH_ASAP
  MAX_OBJECT_IDS,           \* the worker flushes at once from this many ids on
  MAX_OBJECT_IDS_OVERLOAD,  \* slack before containersChanged waits for a flush
  MaxBatch,                 \* bound: length of one containersChanged array
  MaxCalls,                 \* bound: number of calls of all callers together
  MaxFailures               \* bound: number of fatal errors (kill(0, SIGINT))

ASSUME /\ INVALID_OBJECT_ID \notin Ids
       /\ FLUSH_SPEC \in Nat /\ FLUSH_ASAP \in Nat /\ FLUSH_SPEC < FLUSH_ASAP
       /\ MAX_OBJECT_IDS \in Nat \ {0} /\ MAX_OBJECT_IDS_OVERLOAD \in Nat
       /\ {MaxBatch, MaxCalls, MaxFailures} \subseteq Nat

Policies == {FLUSH_SPEC, FLUSH_ASAP}

VARIABLES
  objectIDHash,          \* ids reported and not yet flushed
  lastContainerChanged,  \* single-slot cache of containerChanged
  flushPolicy,
  shutdownFlag,
  intervalElapsed,       \* SPEC_INTERVAL has passed since lastUpdate
  wpc,                   \* where the worker thread is
  updateOk,              \* string_ok(updateString) of the last flush
  cpc,                   \* per caller: "idle" or "spin" (overload loop)
  cIds,                  \* per caller in "spin": the ids still to insert
  cSignal,               \* per caller in "spin": its local `signal`
  cSplit,                \* per caller in "spin": its local `split`
  cAsap,                 \* per caller in "spin": called with FLUSH_ASAP
  calls,                 \* number of calls made so far
  sigints,               \* kill(0, SIGINT) sent by the worker so far
  pending,               \* history: ids reported and not flushed since
  asapPending            \* history: ids reported with FLUSH_ASAP, not flushed

callerVars == <<cpc, cIds, cSignal, cSplit, cAsap>>
histVars == <<pending, asapPending>>
vars == <<objectIDHash, lastContainerChanged, flushPolicy, shutdownFlag,
          intervalElapsed, wpc, updateOk, callerVars, calls, sigints, histVars>>

(* Worker positions.  "relock": returned from cond.wait (or from sending)  *)
(* and about to take the mutex; "relockTimed" / "timedOut": returned from  *)
(* cond.wait_for with no_timeout / timeout; "sending": the mutex released  *)
(* around subscription_update.                                             *)
WorkerPositions ==
  {"relock", "idle", "timed", "relockTimed", "timedOut", "sending", "exited"}

Batches == {s \in BoundedSeq(Ids, MaxBatch) : s # <<>>}

-----------------------------------------------------------------------------
(* haveUpdates() *)
haveUpdates == objectIDHash # {}

(* cond.notify_one(): the worker is the only thread waiting on cond. *)
Wake(p) == CASE p = "idle"  -> "relock"
             [] p = "timed" -> "relockTimed"
             [] OTHER       -> p

(* The worker's choice to sleep before flushing: sleepMillis >= MIN_SLEEP *)
(* && objectIDHash->size() < MAX_OBJECT_IDS.  Under FLUSH_SPEC            *)
(* sleepMillis = SPEC_INTERVAL - timeDiff; under FLUSH_ASAP it is 0.      *)
SleepsAlways ==
  /\ flushPolicy = FLUSH_SPEC
  /\ Cardinality(objectIDHash) < MAX_OBJECT_IDS

Sleeps ==
  /\ flushPolicy = FLUSH_SPEC
  /\ ~intervalElapsed
  /\ Cardinality(objectIDHash) < MAX_OBJECT_IDS

(* The for loop of containersChanged, run while holding the mutex: insert *)
(* each id unless it is lastContainerChanged, and stop right after an     *)
(* insertion that makes the hash exceed MAX_OBJECT_IDS when `split`.      *)
RECURSIVE Scan(_, _, _, _)
Scan(h, ids, last, split) ==
  IF ids = <<>> THEN [hash |-> h, rest |-> ids, spin |-> FALSE]
  ELSE LET id == Head(ids)
           h2 == IF id # last THEN h \cup {id} ELSE h
       IN IF id # last /\ split /\ Cardinality(h2) > MAX_OBJECT_IDS
          THEN [hash |-> h2, rest |-> Tail(ids), spin |-> TRUE]
          ELSE Scan(h2, Tail(ids), last, split)

-----------------------------------------------------------------------------
(* lastContainerChanged = INVALID_OBJECT_ID when flushing (line 225). *)
KeepCache == UNCHANGED lastContainerChanged

ResetCache == lastContainerChanged' = INVALID_OBJECT_ID

(* The worker flushes (lines 222-241, mutex held): reset the cache and    *)
(* the policy, hand the hash to Storage; on success the hash is cleared,  *)
(* on an exception the worker sends kill(0, SIGINT) and keeps the hash.   *)
SendUpdates ==
  /\ ResetCache
  /\ flushPolicy' = FLUSH_SPEC
  /\ \/ /\ objectIDHash' = {}
        /\ pending' = pending \ objectIDHash
        /\ asapPending' = asapPending \ objectIDHash
        /\ updateOk' \in BOOLEAN
        /\ UNCHANGED sigints
     \/ /\ sigints < MaxFailures
        /\ sigints' = sigints + 1
        /\ updateOk' = FALSE
        /\ UNCHANGED <<objectIDHash, histVars>>
  /\ wpc' = "sending"

(* The head of the worker's while loop, mutex held, up to the point where *)
(* the worker releases the mutex again.                                   *)
LoopHead ==
  \/ /\ shutdownFlag
     /\ wpc' = "exited"
     /\ UNCHANGED <<objectIDHash, lastContainerChanged, flushPolicy, updateOk,
                    sigints, histVars>>
  \/ /\ ~shutdownFlag
     /\ \/ /\ ~haveUpdates
           /\ wpc' = "idle"
           /\ UNCHANGED <<objectIDHash, lastContainerChanged, flushPolicy,
                          updateOk, sigints, histVars>>
        \/ /\ haveUpdates /\ Sleeps
           /\ wpc' = "timed"
           /\ UNCHANGED <<objectIDHash, lastContainerChanged, flushPolicy,
                          updateOk, sigints, histVars>>
        \/ /\ haveUpdates /\ ~Sleeps
           /\ SendUpdates

workerOnly == <<shutdownFlag, intervalElapsed, callerVars, calls>>

(* Taking the mutex after cond.wait or after sending (lines 185, 261). *)
WorkerRelock ==
  /\ wpc = "relock"
  /\ LoopHead
  /\ UNCHANGED workerOnly

(* Taking the mutex after cond.wait_for (lines 211-222): with no_timeout  *)
(* and no shutdown the worker flushes at once, otherwise it loops.        *)
WorkerRelockTimed ==
  /\ wpc \in {"relockTimed", "timedOut"}
  /\ \/ /\ wpc = "relockTimed" /\ ~shutdownFlag
        /\ SendUpdates
     \/ /\ wpc = "timedOut" \/ shutdownFlag
        /\ LoopHead
  /\ UNCHANGED workerOnly

(* Lines 241-261 without the mutex: publish the update string when it is  *)
(* usable and restart the interval; subscription_update may throw, and    *)
(* then the worker sends kill(0, SIGINT).                                 *)
AfterSend ==
  /\ wpc = "sending"
  /\ \/ /\ updateOk
        /\ intervalElapsed' = FALSE
        /\ UNCHANGED sigints
     \/ /\ updateOk
        /\ sigints < MaxFailures
        /\ sigints' = sigints + 1
        /\ UNCHANGED intervalElapsed
     \/ /\ ~updateOk
        /\ UNCHANGED <<intervalElapsed, sigints>>
  /\ wpc' = "relock"
  /\ UNCHANGED <<objectIDHash, lastContainerChanged, flushPolicy, updateOk,
                 shutdownFlag, callerVars, calls, histVars>>

(* cond.wait_for reaches its deadline, lastUpdate + SPEC_INTERVAL. *)
Timeout ==
  /\ wpc = "timed"
  /\ wpc' = "timedOut"
  /\ intervalElapsed' = TRUE
  /\ UNCHANGED <<objectIDHash, lastContainerChanged, flushPolicy, updateOk,
                 shutdownFlag, callerVars, calls, sigints, histVars>>

(* A spurious wakeup of cond.wait / cond.wait_for (returns no_timeout). *)
SpuriousWakeup ==
  /\ wpc \in {"idle", "timed"}
  /\ wpc' = Wake(wpc)
  /\ UNCHANGED <<objectIDHash, lastContainerChanged, flushPolicy, updateOk,
                 shutdownFlag, intervalElapsed, callerVars, calls, sigints,
                 histVars>>

(* Time passes beyond lastUpdate + SPEC_INTERVAL. *)
Tick ==
  /\ ~intervalElapsed
  /\ intervalElapsed' = TRUE
  /\ UNCHANGED <<objectIDHash, lastContainerChanged, flushPolicy, updateOk,
                 shutdownFlag, wpc, callerVars, calls, sigints, histVars>>

(* UpdateManager::shutdown, up to the join: set the flag and signal. *)
Shutdown ==
  /\ ~shutdownFlag
  /\ shutdownFlag' = TRUE
  /\ wpc' = Wake(wpc)
  /\ UNCHANGED <<objectIDHash, lastContainerChanged, flushPolicy, updateOk,
                 intervalElapsed, callerVars, calls, sigints, histVars>>

-----------------------------------------------------------------------------
(* The early return of containerChanged on INVALID_OBJECT_ID (line 141). *)
ValidIdAny(id) == TRUE

ValidId(id) == id # INVALID_OBJECT_ID

(* containerChanged signals the worker when the hash was empty, when it   *)
(* is full, or when the call raises the flush policy (lines 148-165).     *)
SignalOnChange(h, raise) ==
  ~haveUpdates \/ Cardinality(h) >= MAX_OBJECT_IDS \/ raise

(* containerChanged(objectID, flushPolicy), lines 139-176: one critical   *)
(* section.  The cache skips an id equal to lastContainerChanged unless   *)
(* the call raises the policy.                                            *)
ContainerChanged(c, id, policy) ==
  LET raise == policy > flushPolicy
      h     == objectIDHash \cup {id}
  IN /\ cpc[c] = "idle"
     /\ calls < MaxCalls
     /\ calls' = calls + 1
     /\ \/ /\ ~ValidId(id)
           /\ UNCHANGED <<objectIDHash, lastContainerChanged, flushPolicy, wpc,
                          histVars>>
        \/ /\ ValidId(id)
           /\ IF id # lastContainerChanged \/ raise
              THEN /\ objectIDHash' = h
                   /\ lastContainerChanged' = id
                   /\ flushPolicy' = IF raise THEN policy ELSE flushPolicy
                   /\ wpc' = IF SignalOnChange(h, raise) THEN Wake(wpc) ELSE wpc
              ELSE UNCHANGED <<objectIDHash, lastContainerChanged, flushPolicy,
                               wpc>>
           /\ pending' = pending \cup {id}
           /\ asapPending' = IF policy = FLUSH_ASAP THEN asapPending \cup {id}
                                                    ELSE asapPending
     /\ UNCHANGED <<shutdownFlag, intervalElapsed, updateOk, callerVars, sigints>>

(* The rest of containersChanged from the for loop on, mutex held: scan   *)
(* the ids; either enter the overload loop (notify, unlock) or finish     *)
(* with the final signal.                                                 *)
Continue(c, ids, signal, split, asap) ==
  LET r    == Scan(objectIDHash, ids, lastContainerChanged, split)
      done == ToSet(SubSeq(ids, 1, Len(ids) - Len(r.rest)))
  IN /\ objectIDHash' = r.hash
     /\ pending' = pending \cup done
     /\ asapPending' = IF asap THEN asapPending \cup done ELSE asapPending
     /\ IF r.spin
        THEN /\ cpc' = [cpc EXCEPT ![c] = "spin"]
             /\ cIds' = [cIds EXCEPT ![c] = r.rest]
             /\ cSignal' = [cSignal EXCEPT ![c] = signal]
             /\ cSplit' = [cSplit EXCEPT ![c] = split]
             /\ cAsap' = [cAsap EXCEPT ![c] = asap]
             /\ wpc' = Wake(wpc)
        ELSE /\ cpc' = [cpc EXCEPT ![c] = "idle"]
             /\ cIds' = [cIds EXCEPT ![c] = <<>>]
             /\ cSignal' = [cSignal EXCEPT ![c] = FALSE]
             /\ cSplit' = [cSplit EXCEPT ![c] = FALSE]
             /\ cAsap' = [cAsap EXCEPT ![c] = FALSE]
             /\ wpc' = IF signal \/ Cardinality(r.hash) >= MAX_OBJECT_IDS
                       THEN Wake(wpc) ELSE wpc

(* containersChanged(objectIDs, flushPolicy), lines 93-137, up to the     *)
(* first release of the mutex.                                            *)
ContainersChanged(c, ids, policy) ==
  LET raise == policy > flushPolicy
      split == Cardinality(objectIDHash) + Len(ids)
                 >= MAX_OBJECT_IDS + MAX_OBJECT_IDS_OVERLOAD
  IN /\ cpc[c] = "idle"
     /\ calls < MaxCalls
     /\ calls' = calls + 1
     /\ flushPolicy' = IF raise THEN policy ELSE flushPolicy
     /\ Continue(c, ids, ~haveUpdates \/ raise, split, policy = FLUSH_ASAP)
     /\ UNCHANGED <<lastContainerChanged, shutdownFlag, intervalElapsed,
                    updateOk, sigints>>

(* One turn of the overload loop, lines 120-126: retake the mutex; while  *)
(* the hash still exceeds MAX_OBJECT_IDS notify and unlock again, else    *)
(* go on with the for loop.                                               *)
SpinRelock(c) ==
  /\ cpc[c] = "spin"
  /\ \/ /\ Cardinality(objectIDHash) > MAX_OBJECT_IDS
        /\ wpc' = Wake(wpc)
        /\ UNCHANGED <<objectIDHash, callerVars, histVars>>
     \/ /\ Cardinality(objectIDHash) <= MAX_OBJECT_IDS
        /\ Continue(c, cIds[c], cSignal[c], cSplit[c], cAsap[c])
  /\ UNCHANGED <<lastContainerChanged, flushPolicy, shutdownFlag,
                 intervalElapsed, updateOk, calls, sigints>>

-----------------------------------------------------------------------------
Init ==
  /\ objectIDHash = {}
  /\ lastContainerChanged = INVALID_OBJECT_ID
  /\ flushPolicy = FLUSH_SPEC
  /\ shutdownFlag = FALSE
  /\ intervalElapsed = FALSE
  /\ wpc = "relock"
  /\ updateOk = FALSE
  /\ cpc = [c \in Callers |-> "idle"]
  /\ cIds = [c \in Callers |-> <<>>]
  /\ cSignal = [c \in Callers |-> FALSE]
  /\ cSplit = [c \in Callers |-> FALSE]
  /\ cAsap = [c \in Callers |-> FALSE]
  /\ calls = 0
  /\ sigints = 0
  /\ pending = {}
  /\ asapPending = {}

Worker ==
  \/ WorkerRelock
  \/ WorkerRelockTimed
  \/ AfterSend
  \/ Timeout
  \/ SpuriousWakeup

Environment ==
  \/ Tick
  \/ Shutdown
  \/ \E c \in Callers, p \in Policies :
        \/ \E id \in Ids \cup {INVALID_OBJECT_ID} : ContainerChanged(c, id, p)
        \/ \E ids \in Batches : ContainersChanged(c, ids, p)
  \/ \E c \in Callers : SpinRelock(c)

Next == Worker \/ Environment

(* The worker and a caller in the overload loop only wait for the mutex,  *)
(* which every holder releases; a timed wait returns at its deadline.     *)
(* Callers, spurious wakeups, time and shutdown need not happen.          *)
Fairness ==
  /\ WF_vars(WorkerRelock)
  /\ WF_vars(WorkerRelockTimed)
  /\ WF_vars(AfterSend)
  /\ WF_vars(Timeout)
  /\ \A c \in Callers : WF_vars(SpinRelock(c))

Spec == Init /\ [][Next]_vars /\ Fairness

-----------------------------------------------------------------------------
TypeOK ==
  /\ objectIDHash \subseteq Ids
  /\ lastContainerChanged \in Ids \cup {INVALID_OBJECT_ID}
  /\ flushPolicy \in Policies
  /\ shutdownFlag \in BOOLEAN /\ intervalElapsed \in BOOLEAN
  /\ wpc \in WorkerPositions
  /\ updateOk \in BOOLEAN
  /\ cpc \in [Callers -> {"idle", "spin"}]
  /\ cIds \in [Callers -> BoundedSeq(Ids, MaxBatch)]
  /\ cSignal \in [Callers -> BOOLEAN]
  /\ cSplit \in [Callers -> BOOLEAN]
  /\ cAsap \in [Callers -> BOOLEAN]
  /\ calls \in 0..MaxCalls /\ sigints \in 0..MaxFailures
  /\ pending \subseteq Ids /\ asapPending \subseteq Ids

(* No reported container is lost: every id a caller reported since it was *)
(* last flushed, including one that containerChanged or containersChanged *)
(* skipped because it equalled lastContainerChanged, is still in          *)
(* objectIDHash.  Breaks if the single-slot cache outlives a flush.       *)
NoLostUpdate == pending \subseteq objectIDHash

(* Every reported container is eventually flushed to Storage, unless the  *)
(* UpdateManager is shut down first.  Stated for the behaviours in which  *)
(* containersChanged never enters its overload loop: that loop can lose   *)
(* the wakeup (WorkerWaitMatchesWork), and an id waits for the next call. *)
EventualFlush ==
  [](\A c \in Callers : cpc[c] = "idle") =>
    \A id \in Ids : id \in pending ~> (id \notin pending \/ shutdownFlag)

(* The worker's sleep matches the work waiting for it: it sleeps in the   *)
(* untimed cond.wait only while no id waits to be flushed (the caller that *)
(* fills the empty hash must signal), and it sleeps out SPEC_INTERVAL only *)
(* while no id reported with FLUSH_ASAP waits ("signalling if the          *)
(* flushPolicy changes, so the thread recalculates the sleep time").       *)
WorkerWaitMatchesWork ==
    /\ wpc = "idle" => objectIDHash = {}
    /\ wpc = "timed" => asapPending = {}

=============================================================================
