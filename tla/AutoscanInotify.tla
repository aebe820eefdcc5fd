--------------------------- MODULE AutoscanInotify ---------------------------
(***************************************************************************)
(* The Autoscan/Inotify watcher (src/src/autoscan_inotify.h; its .cc is    *)
(* not in this tree, so the behaviour follows the design of spec.md,       *)
(* sections 3-5): a worker that owns one inotify instance, drains the      *)
(* monitor and unmonitor command queues, walks directory trees to add and  *)
(* remove watches, keeps placeholder watches for autoscan roots that do    *)
(* not exist yet, and dispatches the kernel's events against its table of  *)
(* watch descriptors.  Other processes create and remove directories at    *)
(* any moment, between any two of the worker's system calls.               *)
(*                                                                         *)
(* The filesystem is a fixed tree of directory names, each present or not; *)
(* a path is the name of its last directory.  A rename moves a directory   *)
(* without subdirectories from one name to another, and the kernel watch   *)
(* on it follows it (inotify watches inodes).  Files, queue overflow and   *)
(* the ContentManager calls the events cause are not modelled: they do not *)
(* change the watch table.                                                 *)
(***************************************************************************)
EXTENDS Integers, Sequences, FiniteSets, SequencesExt, Functions

CONSTANTS
    Dirs,          \* directory names
    Top,           \* a directory that always exists (the filesystem root side)
    ParentDir,     \* [Dirs \ {Top} -> Dirs]: the tree
    Autoscans,     \* autoscan directories (identity: their normalized root)
    AutoscanRoot,  \* [Autoscans -> Dirs]
    Recursive,     \* [Autoscans -> BOOLEAN]
    Renames,       \* pairs <<from, to>> of directories another process renames
    Mounts,        \* directories another filesystem is mounted on
    MaxWatches,    \* live watches the kernel allows (max_user_watches)
    MaxQueued,     \* events the kernel queues unread (max_queued_events)
    MaxCmds,       \* monitor and unmonitor calls in one behaviour
    MaxFsOps       \* mkdir and rmdir calls in one behaviour

\* inotify_add_watch's failures, as the negative values it returns.
ENOENT == -1
ENOSPC == -2

VARIABLES
    exists,       \* directories that exist
    kwd,          \* [Dirs -> Nat]: the kernel's watch descriptor on the directory, 0 if none
    nextWd,       \* the descriptor the kernel hands out next
    kq,           \* kernel events not yet read: [ev, wd, name, cookie] records
    monitorQueue,
    unmonitorQueue,
    registry,     \* autoscans monitor()ed and not unmonitor()ed since
    watches,      \* the WD table: wd -> [path, wdWatches]
    work,         \* the worker's call stack: monitorUnmonitorRecursive and monitorNonexisting frames
    wpc,          \* where the worker loop is: "drain", "read", "dispatch", "stopped"
    batch,        \* events of the current read still to dispatch
    cookies,      \* MOVED_FROM of the current read not yet paired: [cookie, wd]
    shutdownFlag,
    enospc,       \* history: inotify_add_watch failed with ENOSPC
    mounted,      \* mount points still mounted
    cmds, fsOps   \* calls made so far

vars == <<exists, kwd, nextWd, kq, monitorQueue, unmonitorQueue, registry,
          watches, work, wpc, batch, cookies, shutdownFlag, enospc, mounted, cmds, fsOps>>
kernelVars == <<exists, kwd, nextWd, mounted>>

-----------------------------------------------------------------------------
(* The directory tree *)

RECURSIVE Ancestors(_)
Ancestors(d) == IF d = Top THEN {} ELSE {ParentDir[d]} \cup Ancestors(ParentDir[d])

Below(d) == {c \in Dirs : d \in Ancestors(c)}
Children(d) == {c \in Dirs \ {Top} : ParentDir[c] = d}

\* The deepest existing directory on the way from Top to d.
DeepestExisting(d) ==
    LET onPath == ({d} \cup Ancestors(d)) \cap exists
    IN CHOOSE p \in onPath : onPath \subseteq {p} \cup Ancestors(p)

-----------------------------------------------------------------------------
(* The watch table *)

\* WatchAutoscan: its autoscan, isStartPoint, descendants, and whether a
\* nonexistingPathArray is set (the unresolved segments are the path from
\* the watch's directory down to the autoscan root).
WatchRecord(a, start, ph) == [as |-> a, start |-> start, desc |-> {}, ph |-> ph]

\* A Wd object with one watch, or the watch appended to an existing one.
\* Its WatchMove entries are kept apart, as the removeWd each records.
AttachWatch(t, wd, path, w) ==
    IF wd \in DOMAIN t THEN [t EXCEPT ![wd].wdWatches = @ \cup {w}]
    ELSE t @@ (wd :> [path |-> path, wdWatches |-> {w}, moves |-> {}])

\* getAppropriateAutoscan: a (non-placeholder) watch of the autoscan.
HasAutoscan(node, a) == \E x \in node.wdWatches : x.as = a /\ ~x.ph

\* addDescendant(startPointWd, addWd, adir): append to the start point's
\* descendants.
AddDescendant(t, a, wd) ==
    [v \in DOMAIN t |-> [t[v] EXCEPT !.wdWatches =
        {IF x.as = a /\ x.start /\ ~x.ph THEN [x EXCEPT !.desc = @ \cup {wd}] ELSE x
           : x \in @}]]

\* The watches held by the Wd objects W of t.
WatchesOf(t, W) == UNION {t[v].wdWatches : v \in W \cap DOMAIN t}

\* Remove the watches X from the Wd objects W.
RemoveWatches(t, W, X) ==
    [v \in DOMAIN t |-> IF v \in W
                          THEN [t[v] EXCEPT !.wdWatches = @ \ X]
                          ELSE t[v]]

\* removeDescendants(wd): drop the leaving autoscan's watches from every
\* descendant of its start point on wd.
RemoveDescendants(t, wd, a) ==
    LET D == UNION {x.desc : x \in {y \in t[wd].wdWatches : y.as = a /\ y.start}}
    IN RemoveWatches(t, D, {x \in WatchesOf(t, D) : x.as = a /\ ~x.start})

\* Wd objects left without watches are erased, and every start point
\* forgets them as descendants.
EmptyWds(t) == {v \in DOMAIN t : t[v].wdWatches = {} /\ t[v].moves = {}}

Erase(t, W) ==
    [v \in DOMAIN t \ W |-> [t[v] EXCEPT !.wdWatches =
        {[x EXCEPT !.desc = @ \ W] : x \in @}]]

-----------------------------------------------------------------------------
(* The kernel *)

LiveWatches == {d \in Dirs : kwd[d] # 0}

\* inotify_add_watch(path): the existing descriptor of the directory, a new
\* one, or a failure.
AddWatchResult(d) ==
    IF d \notin exists THEN ENOENT
    ELSE IF kwd[d] # 0 THEN kwd[d]
    ELSE IF Cardinality(LiveWatches) >= MaxWatches THEN ENOSPC
    ELSE nextWd

AddWatch(d) ==
    /\ kwd' = IF AddWatchResult(d) = nextWd THEN [kwd EXCEPT ![d] = nextWd] ELSE kwd
    /\ nextWd' = IF AddWatchResult(d) = nextWd THEN nextWd + 1 ELSE nextWd
    /\ enospc' = (enospc \/ AddWatchResult(d) = ENOSPC)
    /\ UNCHANGED exists

RmWatchesNever(W) == kwd

\* inotify_rm_watch on each descriptor of W; one the kernel already dropped
\* is an error the code ignores.  (The IN_IGNORED this queues is discarded
\* by dispatch, as the descriptor is no longer in the table.)
RmWatches(W) == [d \in Dirs |-> IF kwd[d] \in W THEN 0 ELSE kwd[d]]

\* The kernel queues an event unless max_queued_events are unread: then it
\* drops the event and queues one IN_Q_OVERFLOW (wd -1) past the limit,
\* unless one is still unread.
Overflow == [ev |-> "Q_OVERFLOW", wd |-> -1, name |-> Top, cookie |-> 0]

Enqueue(q, e) ==
    IF Len(q) < MaxQueued THEN Append(q, e)
    ELSE IF Overflow \in ToSet(q) THEN q
    ELSE Append(q, Overflow)

Queue(q, evs) == FoldLeft(Enqueue, q, evs)

\* Another process creates a directory: IN_CREATE on the parent's watch.
Mkdir(d) ==
    /\ fsOps < MaxFsOps
    /\ d \notin exists /\ d # Top /\ ParentDir[d] \in exists
    /\ exists' = exists \cup {d}
    /\ kq' = IF kwd[ParentDir[d]] # 0
               THEN Enqueue(kq, [ev |-> "CREATE", wd |-> kwd[ParentDir[d]], name |-> d, cookie |-> 0])
               ELSE kq
    /\ fsOps' = fsOps + 1
    /\ UNCHANGED <<kwd, nextWd, monitorQueue, unmonitorQueue, registry, watches,
                   work, wpc, batch, cookies, shutdownFlag, enospc, mounted, cmds>>

\* Another process removes an empty directory: IN_DELETE_SELF on its watch,
\* which the kernel then drops (the IN_IGNORED that follows, and the
\* parent's IN_DELETE, only reach the ContentManager).  A mount point is
\* busy.
Rmdir(d) ==
    /\ fsOps < MaxFsOps
    /\ d \in exists /\ d # Top /\ d \notin mounted /\ Children(d) \cap exists = {}
    /\ exists' = exists \ {d}
    /\ kwd' = [kwd EXCEPT ![d] = 0]
    /\ kq' = IF kwd[d] # 0
               THEN Enqueue(kq, [ev |-> "DELETE_SELF", wd |-> kwd[d], name |-> d, cookie |-> 0])
               ELSE kq
    /\ fsOps' = fsOps + 1
    /\ UNCHANGED <<nextWd, monitorQueue, unmonitorQueue, registry, watches,
                   work, wpc, batch, cookies, shutdownFlag, enospc, mounted, cmds>>

\* The events of one rename, each on a watched directory only: MOVED_FROM
\* on the old parent and MOVED_TO on the new one, sharing a cookie, then
\* MOVE_SELF on the renamed directory.
MoveEvents(d, d2, c) ==
    LET ev(e, w, n) == IF w # 0 THEN <<[ev |-> e, wd |-> w, name |-> n, cookie |-> c]>>
                       ELSE <<>>
    IN ev("MOVED_FROM", kwd[ParentDir[d]], d) \o ev("MOVED_TO", kwd[ParentDir[d2]], d2)
       \o ev("MOVE_SELF", kwd[d], d)

\* Another process renames d, a directory without subdirectories, to d2.
\* The kernel watch on d stays on the directory under its new name.
Rename(d, d2) ==
    /\ fsOps < MaxFsOps
    /\ <<d, d2>> \in Renames
    /\ d \in exists /\ d # Top /\ d \notin mounted /\ Children(d) \cap exists = {}
    /\ d2 \notin exists /\ ParentDir[d2] \in exists
    /\ exists' = (exists \ {d}) \cup {d2}
    /\ kwd' = [kwd EXCEPT ![d] = 0, ![d2] = kwd[d]]
    /\ kq' = Queue(kq, MoveEvents(d, d2, fsOps + 1))
    /\ fsOps' = fsOps + 1
    /\ UNCHANGED <<nextWd, monitorQueue, unmonitorQueue, registry, watches,
                   work, wpc, batch, cookies, shutdownFlag, enospc, mounted, cmds>>

\* umount of the filesystem on m: the directories below m go, the kernel
\* drops every watch on that filesystem (m's own is on the mounted root)
\* after an IN_UNMOUNT on each, and m is the empty directory beneath.
Unmount(m) ==
    /\ fsOps < MaxFsOps
    /\ m \in mounted /\ Below(m) \cap mounted = {}
    /\ LET gone == {d \in {m} \cup Below(m) : kwd[d] # 0}
       IN kq' = Queue(kq, SetToSeq({[ev |-> "UNMOUNT", wd |-> kwd[d], name |-> d, cookie |-> 0]
                                    : d \in gone}))
    /\ exists' = exists \ Below(m)
    /\ kwd' = [d \in Dirs |-> IF d \in {m} \cup Below(m) THEN 0 ELSE kwd[d]]
    /\ mounted' = mounted \ {m}
    /\ fsOps' = fsOps + 1
    /\ UNCHANGED <<nextWd, monitorQueue, unmonitorQueue, registry, watches,
                   work, wpc, batch, cookies, shutdownFlag, enospc, cmds>>

-----------------------------------------------------------------------------
(* monitor, unmonitor, shutdown: post to a queue under the mutex *)

Monitor(a) ==
    /\ cmds < MaxCmds /\ a \notin registry
    /\ monitorQueue' = Append(monitorQueue, a)
    /\ registry' = registry \cup {a}
    /\ cmds' = cmds + 1
    /\ UNCHANGED <<kernelVars, kq, unmonitorQueue, watches, work, wpc, batch, cookies,
                   shutdownFlag, enospc, fsOps>>

Unmonitor(a) ==
    /\ cmds < MaxCmds /\ a \in registry
    /\ unmonitorQueue' = Append(unmonitorQueue, a)
    /\ registry' = registry \ {a}
    /\ cmds' = cmds + 1
    /\ UNCHANGED <<kernelVars, kq, monitorQueue, watches, work, wpc, batch, cookies,
                   shutdownFlag, enospc, fsOps>>

Shutdown ==
    /\ ~shutdownFlag
    /\ shutdownFlag' = TRUE
    /\ UNCHANGED <<kernelVars, kq, monitorQueue, unmonitorQueue, registry,
                   watches, work, wpc, batch, cookies, enospc, cmds, fsOps>>

-----------------------------------------------------------------------------
(* The worker *)

\* A frame of the worker's call stack: monitorUnmonitorRecursive ("mon",
\* "unmon") on a directory, or the watch monitorNonexisting and
\* recheckNonexistingMonitor put on the deepest existing ancestor ("ph").
Frame(op, a, d, start) == [op |-> op, as |-> a, dir |-> d, start |-> start]
RootFrame(op, a) == Frame(op, a, AutoscanRoot[a], TRUE)

\* readdir: a frame for each existing subdirectory.
SubdirFrames(op, a, d) ==
    SetToSeq({Frame(op, a, c, FALSE) : c \in Children(d) \cap exists})

\* monitorDirectory's check of the descriptor inotify_add_watch returned.
ValidWdAny(w) == TRUE

ValidWd(w) == w > 0

\* Erase the Wd objects of t left without watches, removing their kernel
\* watches.
PruneTo(t) ==
    /\ watches' = Erase(t, EmptyWds(t))
    /\ kwd' = RmWatches(EmptyWds(t))

\* monitorDirectory(path, adir, normalizedAutoscanPath, startPoint) and,
\* for a recursive autoscan, the descent into the subdirectories.  A root
\* that does not exist goes to monitorNonexisting, which looks for the
\* deepest existing ancestor (its inotify_add_watch is the next frame).
MonitorFrame(f) ==
    LET w == AddWatchResult(f.dir)
        already == w \in DOMAIN watches /\ HasAutoscan(watches[w], f.as)
        attached == IF already THEN watches
                    ELSE AttachWatch(watches, w, f.dir, WatchRecord(f.as, f.start, FALSE))
    IN \/ /\ w = ENOENT /\ f.start
          /\ work' = <<Frame("ph", f.as, DeepestExisting(f.dir), TRUE)>> \o Tail(work)
          /\ UNCHANGED <<kernelVars, watches, enospc>>
       \/ /\ ~ValidWd(w) /\ ~(w = ENOENT /\ f.start)
          /\ AddWatch(f.dir)
          /\ work' = Tail(work)
          /\ UNCHANGED watches
       \/ /\ ValidWd(w)
          /\ AddWatch(f.dir)
          /\ watches' = IF already \/ f.start THEN attached
                        ELSE AddDescendant(attached, f.as, w)
          /\ work' = (IF Recursive[f.as] THEN SubdirFrames("mon", f.as, f.dir) ELSE <<>>)
                     \o Tail(work)

\* The placeholder watch: inotify_add_watch on the ancestor found before,
\* which may be gone by now (no descriptor, nothing attached).
PlaceholderFrame(f) ==
    LET w == AddWatchResult(f.dir)
    IN /\ AddWatch(f.dir)
       /\ watches' = IF ValidWd(w)
                       THEN AttachWatch(watches, w, f.dir, WatchRecord(f.as, TRUE, TRUE))
                       ELSE watches
       /\ work' = Tail(work)

\* unmonitorDirectory: the Wd whose path is the directory (a linear scan),
\* without the autoscan's watch and, for its start point, without the
\* autoscan's descendants; then the descent into the subdirectories.
UnmonitorFrame(f) ==
    /\ \/ \E w \in DOMAIN watches :
             /\ watches[w].path = f.dir
             /\ LET t1 == RemoveDescendants(watches, w, f.as)
                IN PruneTo(RemoveWatches(t1, {w}, {x \in t1[w].wdWatches : x.as = f.as}))
       \/ /\ \A w \in DOMAIN watches : watches[w].path # f.dir
          /\ UNCHANGED <<watches, kwd>>
    /\ work' = (IF Recursive[f.as] THEN SubdirFrames("unmon", f.as, f.dir) ELSE <<>>)
               \o Tail(work)
    /\ UNCHANGED <<exists, nextWd, enospc>>

\* One call of the worker's stack runs to its next frame.
WorkerStep ==
    /\ work # <<>>
    /\ \/ Head(work).op = "mon" /\ MonitorFrame(Head(work))
       \/ Head(work).op = "ph" /\ PlaceholderFrame(Head(work))
       \/ Head(work).op = "unmon" /\ UnmonitorFrame(Head(work))
    /\ UNCHANGED <<kq, monitorQueue, unmonitorQueue, registry, wpc, batch, cookies,
                   shutdownFlag, mounted, cmds, fsOps>>

\* Drain both queues under the mutex; monitors run before unmonitors.  The
\* loop head leaves the thread once shutdown() has set the flag.
Drain ==
    /\ wpc = "drain" /\ work = <<>>
    /\ IF shutdownFlag
          THEN /\ wpc' = "stopped"
               /\ UNCHANGED <<monitorQueue, unmonitorQueue, work>>
          ELSE /\ work' = [i \in 1..Len(monitorQueue) |-> RootFrame("mon", monitorQueue[i])]
                          \o [i \in 1..Len(unmonitorQueue) |-> RootFrame("unmon", unmonitorQueue[i])]
               /\ monitorQueue' = <<>>
               /\ unmonitorQueue' = <<>>
               /\ wpc' = "read"
    /\ UNCHANGED <<kernelVars, kq, registry, watches, batch, cookies, shutdownFlag, enospc, cmds, fsOps>>

\* The read with a timeout returns nothing (timeout) or the events queued
\* so far up to what its buffer holds: any non-empty prefix, so the events
\* of one rename may be split over two reads.  A new drain cycle starts
\* with an empty cookie map: the last cycle's unpaired MOVED_FROMs were
\* degraded to removals, which only reach the ContentManager.
Read ==
    /\ wpc = "read" /\ work = <<>>
    /\ \/ /\ kq = <<>>
          /\ wpc' = "drain"
          /\ UNCHANGED batch
       \/ /\ kq # <<>>
          /\ batch' \in 1..Len(kq)
          /\ wpc' = "dispatch"
    /\ cookies' = {}
    /\ UNCHANGED <<kernelVars, kq, monitorQueue, unmonitorQueue, registry, watches,
                   work, shutdownFlag, enospc, cmds, fsOps>>

\* Whether IN_CREATE of a directory installs the autoscan's watches on it.
CreateMonitorsNever(x) == FALSE

CreateMonitors(x) == Recursive[x.as]

\* A new entry c in the Wd's directory, from table t: if create (IN_CREATE
\* of a directory) monitor it for every recursive autoscan of the Wd; then
\* recheckNonexistingMonitors: each placeholder whose next segment is c
\* leaves the Wd and re-resolves its path, becoming the real autoscan if
\* the root exists now or a placeholder on the deepest existing part.
NewEntry(t, wd, c, create) ==
    LET node == t[wd]
        mons == IF create THEN {x \in node.wdWatches : ~x.ph /\ CreateMonitors(x)}
                ELSE {}
        phs  == {x \in node.wdWatches :
                   x.ph /\ c \in {AutoscanRoot[x.as]} \cup Ancestors(AutoscanRoot[x.as])}
        recheck(x) == IF AutoscanRoot[x.as] \in exists THEN RootFrame("mon", x.as)
                      ELSE Frame("ph", x.as, DeepestExisting(AutoscanRoot[x.as]), TRUE)
    IN /\ PruneTo(RemoveWatches(t, {wd}, phs))
       /\ work' = SetToSeq({Frame("mon", x.as, c, FALSE) : x \in mons})
                  \o SetToSeq({recheck(x) : x \in phs})

OnCreate(wd, c) == NewEntry(watches, wd, c, TRUE)

\* IN_DELETE_SELF, IN_MOVE_SELF and IN_UNMOUNT: the Wd is removed, with its
\* WatchMoves and the descendants of its start points; each autoscan that
\* started there is monitored again from its root (monitorNonexisting if
\* the root is gone).
OnDeleteSelf(wd) ==
    LET starts == {x \in watches[wd].wdWatches : x.start}
        D == UNION {x.desc : x \in starts}
        t1 == RemoveWatches(watches, D,
                            {y \in WatchesOf(watches, D) :
                               ~y.start /\ \E x \in starts : x.as = y.as})
    IN /\ PruneTo([RemoveWatches(t1, {wd}, t1[wd].wdWatches) EXCEPT ![wd].moves = {}])
       /\ work' = SetToSeq({RootFrame("mon", x.as) : x \in starts})

\* IN_MOVED_FROM of entry d: the cookie is kept for this drain cycle with
\* the Wd of d if d is a watched directory, which gets a WatchMove.
OnMovedFrom(d, c) ==
    LET moved == {v \in DOMAIN watches : watches[v].path = d}
    IN \/ \E v \in moved :
             /\ watches' = [watches EXCEPT ![v].moves = @ \cup {v}]
             /\ cookies' = cookies \cup {[cookie |-> c, wd |-> v]}
       \/ /\ moved = {}
          /\ cookies' = cookies \cup {[cookie |-> c, wd |-> 0]}
          /\ UNCHANGED watches

\* IN_MOVED_TO of entry d2: paired with a MOVED_FROM of this cycle it is a
\* move (the WatchMove expires, the ContentManager moves the object) and
\* only the placeholders are rechecked; unpaired it is handled as IN_CREATE.
DropMoveWatch(t, v) ==
    IF v \in DOMAIN t THEN [t EXCEPT ![v].moves = @ \ {v}] ELSE t

OnMovedTo(wd, d2, c) ==
    LET paired == {p \in cookies : p.cookie = c}
    IN IF paired # {}
          THEN /\ NewEntry(DropMoveWatch(watches, (CHOOSE p \in paired : TRUE).wd), wd, d2, FALSE)
               /\ cookies' = cookies \ paired
          ELSE /\ OnCreate(wd, d2)
               /\ UNCHANGED cookies

\* Dispatch the next event of the read; one for a descriptor not in the
\* table is discarded.  So is IN_Q_OVERFLOW (wd -1) as far as the table
\* goes: its rescan of every autoscan is a ContentManager call (spec.md 4.7).
\* Whether the event being dispatched is the last one of the read's buffer.
LastOfBatchAtZero(b) == b = 0

LastOfBatch(b) == b = 1

Dispatch ==
    /\ wpc = "dispatch" /\ work = <<>> /\ batch > 0
    /\ LET e == Head(kq)
       IN \/ /\ e.wd \notin DOMAIN watches
             /\ UNCHANGED <<watches, kwd, work, cookies>>
          \/ /\ e.wd \in DOMAIN watches /\ e.ev = "CREATE"
             /\ OnCreate(e.wd, e.name)
             /\ UNCHANGED cookies
          \/ /\ e.wd \in DOMAIN watches /\ e.ev \in {"DELETE_SELF", "MOVE_SELF", "UNMOUNT"}
             /\ OnDeleteSelf(e.wd)
             /\ UNCHANGED cookies
          \/ /\ e.wd \in DOMAIN watches /\ e.ev = "MOVED_FROM"
             /\ OnMovedFrom(e.name, e.cookie)
             /\ UNCHANGED <<kwd, work>>
          \/ e.wd \in DOMAIN watches /\ e.ev = "MOVED_TO" /\ OnMovedTo(e.wd, e.name, e.cookie)
    /\ kq' = Tail(kq)
    /\ batch' = batch - 1
    /\ wpc' = IF LastOfBatch(batch) THEN "drain" ELSE "dispatch"
    /\ UNCHANGED <<exists, nextWd, monitorQueue, unmonitorQueue, registry,
                   shutdownFlag, enospc, mounted, cmds, fsOps>>

-----------------------------------------------------------------------------
Init ==
    /\ exists \in {S \in SUBSET Dirs : Top \in S /\ \A d \in S : Ancestors(d) \subseteq S}
    /\ kwd = [d \in Dirs |-> 0]
    /\ nextWd = 1
    /\ kq = <<>>
    /\ monitorQueue = <<>>
    /\ unmonitorQueue = <<>>
    /\ registry = {}
    /\ watches = <<>>
    /\ work = <<>>
    /\ wpc = "drain"
    /\ batch = 0
    /\ cookies = {}
    /\ mounted = Mounts \cap exists
    /\ shutdownFlag = FALSE
    /\ enospc = FALSE
    /\ cmds = 0
    /\ fsOps = 0

Next ==
    \/ \E a \in Autoscans : Monitor(a) \/ Unmonitor(a)
    \/ Shutdown
    \/ \E d \in Dirs : Mkdir(d) \/ Rmdir(d) \/ Unmount(d)
    \/ \E r \in Renames : Rename(r[1], r[2])
    \/ Drain \/ Read \/ Dispatch \/ WorkerStep

\* The worker is one thread that blocks only in its read, and the read
\* returns within its short timeout (spec.md section 4.1, step 3, and
\* section 6): each of its steps, once enabled, is taken.  Callers, other
\* processes and shutdown need not act.
WorkerFairness ==
    /\ WF_vars(Drain) /\ WF_vars(Read) /\ WF_vars(Dispatch) /\ WF_vars(WorkerStep)

Spec == Init /\ [][Next]_vars /\ WorkerFairness

-----------------------------------------------------------------------------
\* Every variable holds a value of its type; the table is keyed by
\* descriptors the kernel handed out.
TypeOK ==
    /\ exists \subseteq Dirs /\ Top \in exists
    /\ kwd \in [Dirs -> 0..nextWd - 1]
    /\ DOMAIN watches \subseteq 1..nextWd - 1
    /\ \A w \in DOMAIN watches :
          /\ watches[w].path \in Dirs
          /\ \A x \in watches[w].wdWatches :
                /\ x.as \in Autoscans /\ x.start \in BOOLEAN /\ x.ph \in BOOLEAN
                /\ x.desc \subseteq 1..nextWd - 1
          /\ watches[w].moves \subseteq 1..nextWd - 1
    /\ cookies \subseteq [cookie : 1..MaxFsOps, wd : 0..nextWd - 1]
    /\ mounted \subseteq Mounts \cap exists
    /\ wpc \in {"drain", "read", "dispatch", "stopped"}
    /\ registry \subseteq Autoscans

\* The worker has caught up: no command queued, no event unread, no call
\* in progress.
Settled ==
    /\ wpc \in {"drain", "read"}
    /\ work = <<>> /\ kq = <<>>
    /\ monitorQueue = <<>> /\ unmonitorQueue = <<>>

\* Once the worker has caught up, its table and the kernel agree: every
\* kernel watch is a Wd of the table for that directory (none is leaked,
\* holding a slot of max_user_watches for nothing), and every Wd is a
\* live kernel watch on its path (IN_DELETE_SELF removed the others).
KernelWatchesTracked ==
    Settled =>
        /\ \A d \in LiveWatches : kwd[d] \in DOMAIN watches /\ watches[kwd[d]].path = d
        /\ \A w \in DOMAIN watches : kwd[watches[w].path] = w

\* Descendant closure (spec.md section 8): once the worker has caught up,
\* and no inotify_add_watch ran out of watches, every existing directory
\* below the root of a recursive autoscan's start point is watched for that
\* autoscan and is one of the start point's descendants, however the tree
\* changed while the worker walked it.
SubtreeWatched ==
    (Settled /\ ~enospc) =>
        \A w \in DOMAIN watches : \A s \in watches[w].wdWatches :
            (s.start /\ ~s.ph /\ Recursive[s.as]) =>
                \A d \in Below(watches[w].path) \cap exists :
                    \E v \in s.desc \cap DOMAIN watches :
                        watches[v].path = d /\ HasAutoscan(watches[v], s.as)

\* The watches follow the registered autoscans (spec.md sections 4.2, 4.6
\* and 8, "clean unmonitor"): once the worker has caught up, no Wd holds a
\* watch of an autoscan that was unmonitored, and a monitored autoscan
\* whose root exists is watched there as a start point.
WatchesMatchRegistry ==
    Settled =>
        \A a \in Autoscans :
            /\ a \notin registry =>
                  \A w \in DOMAIN watches : \A x \in watches[w].wdWatches : x.as # a
            /\ (a \in registry /\ AutoscanRoot[a] \in exists /\ ~enospc) =>
                  \E w \in DOMAIN watches :
                      /\ watches[w].path = AutoscanRoot[a]
                      /\ \E x \in watches[w].wdWatches : x.as = a /\ x.start /\ ~x.ph

\* The watch table follows the registered autoscans and the directory tree
\* (spec.md sections 4.2, 4.6 to 4.9 and 8): once the worker has caught
\* up, both WatchesMatchRegistry and SubtreeWatched hold, whatever other
\* processes did meanwhile, renames, unmounts and an overflowing
\* event queue included.
WatchesFollowAutoscans == WatchesMatchRegistry /\ SubtreeWatched


\* The worker keeps catching up (spec.md sections 4.1 and 8): however
\* commands, directory changes, renames and unmounts interleave with it,
\* its recursive walks end, every event read is dispatched and the loop
\* returns to the drain, so it comes back again and again to a state with
\* nothing queued, unread or in progress, or it has stopped after shutdown.
WorkerCatchesUp == []<>(Settled \/ wpc = "stopped")

=============================================================================
