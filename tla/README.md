# TLA+ models of the media server (MediaTomb / Gerbera sources)

This directory holds TLA+ models of the concurrent and stateful parts of the
server in `src/`, the TLC configurations that check them, and `PROJECT.json`,
which maps every model definition to the source lines it translates.

## 1. Inventory

| Component | Source | State it keeps | Operations | Interacts with |
|---|---|---|---|---|
| UpdateManager | `src/src/update_manager.cc` | `objectIDHash` (ids of changed containers), `lastContainerChanged` (single-slot cache), `flushPolicy`, `shutdownFlag`, `lastUpdate`; one mutex and one condition variable | `containerChanged`, `containersChanged`, `shutdown`, worker `threadProc` | caller threads (ContentManager, web UI); `Storage::incrementUpdateIDs`; `ContentDirectoryService::subscription_update`; sends `kill(0, SIGINT)` on fatal errors, which reaches `signal_handler` in `main.cc` |
| Main / signal handling | `src/src/main.cc` | `shutdown_flag`, `restart_flag`, `main_thread_id`, global mutex/cond, signal mask | option parsing, home/config resolution, `signal_handler`, the wait loop, shutdown | every signal, including the UpdateManager's `kill(0, SIGINT)`; `Server::upnp_init`; `SingletonManager::shutdown` |
| Server | `src/src/server.cc` | `server_shutdown_flag`, device handle, `storage`, services | `upnp_init` (a chain of fallible libupnp calls), `shutdown`, `upnp_callback` → `upnp_actions` / `upnp_subscriptions` | libupnp callbacks (one device-wide mutex); ConnectionManager and ContentDirectory services |
| ConnectionManager actions | `src/src/upnp_cm_actions.cc` | none (writes the request's response and error code) | `process_action_request` and three actions | called from `Server::upnp_actions`; `Storage::getMimeTypes` |
| MemIOHandler | `src/src/mem_io_handler.cc` | `buffer`, `length`, `pos`, `atEOF` | `open`, `read`, `seek` | libupnp's virtual-file callbacks |
| Process helpers | `src/src/process.cc` | temp files, child process | `run_simple_process`, `is_alive`, `kill_proc` | the file system, child processes |
| mxml Element | `src/src/mxml/element.cc`, `element.h` | attribute list, child list | set/get attribute, child lookup and removal, `removeWhitespace`, `indent`, `setText`, `getText` | used by every XML producer (web pages, UPnP responses) |
| web::edit_load | `src/src/web/edit_load.cc` | none | `process` (builds one XML item) | Storage, Element |
| AutoscanInotify | `src/src/autoscan_inotify.h` (the `.cc` is not in the repository; `spec.md` describes it) | WD table, watches per wd, monitor/unmonitor queues, `shutdownFlag` | `monitor`, `unmonitor`, worker loop dispatching inotify events | ContentManager (fire-and-forget), the kernel |
| SQLStorage, ConfigOptions, XPath, TaskProcessor | headers only | — | declarations | — |

### What is hard, per component

* **UpdateManager.** Several caller threads and one worker share a hash under a
  mutex. The worker sleeps either untimed (nothing to do) or timed (waiting
  for `SPEC_INTERVAL`), and wakes on `notify_one`, on a timeout, or
  spuriously. Callers decide *whether to signal* from the state they saw when
  they took the mutex. `containersChanged` may release and retake the mutex in
  an overload loop until the worker has flushed, so one call is split around a
  flush. Flushing may fail (`incrementUpdateIDs` or `subscription_update`
  throws) and then the worker sends `SIGINT` to its process group and retries.
  Correctness: no reported container is lost (the cache must never hide an
  id the hash does not hold), the worker never sleeps untimed with work
  pending (no lost wakeup), every reported id is eventually flushed, and a
  `FLUSH_ASAP` report is not held back for the interval.
* **Main.** The command line and environment decide the home path and
  configuration directory handed to `ConfigManager`. A signal handler runs
  on the main thread between the test of `shutdown_flag` and `cond.wait`;
  it counts signals and exits hard on the third. Correctness: the options
  mean what `--help` says; one SIGINT/SIGTERM leads to a clean shutdown;
  the exit status tells success from failure.
* **Server.** `upnp_init` and `shutdown` are sequences of calls any of which
  may fail, with no rollback. Correctness: what is registered is unregistered.
* **MemIOHandler.** A cursor with an `atEOF` flag that `seek` does not
  maintain. Correctness: it behaves as a file cursor over the buffer.
* **Process helpers.** A child that may exit at any moment, reaped by the very
  check that looks at it; temp files created before a failing step.
* **Element.** Index arithmetic while removing from the list being iterated.
* **AutoscanInotify.** Commands from other threads, kernel events in any order,
  moves split over two events, placeholders for non-existent paths.

## 2. Plan and status

| # | Module(s) | Part | Status |
|---|---|---|---|
| 1 | `UpdateManager`, `MC_UpdateManager` | worker thread and callers of `update_manager.cc` | done |
| 2 | `Main`, `MC_Main` | option parsing, home/cfgdir resolution, signal mask, `signal_handler`, main wait loop | done |
| 3 | `FileCursor`, `MemIOHandler`, `MC_MemIOHandler` | abstract cursor contract and the in-memory IOHandler refining it | done |
| 4 | `Process`, `MC_Process` | `run_simple_process`, `kill_proc`/`is_alive` | done |
| 5 | `Element`, `MC_Element` | the list-rewriting loops of `mxml::Element` against reference definitions | done |
| 6 | `Server`, `MC_Server` | `upnp_init` steps, `shutdown`, `upnp_callback` dispatch with ConnectionManager actions | done |
| 6b | `MainServer`, `MC_MainServer` | `main` driving `Server::upnp_init`, the exception kinds, `--add` failure, callbacks during startup | done |
| 7 | `AutoscanInotify`, `MC_AutoscanInotify` | inotify watcher worker from `spec.md` and the header | done (file events only reach ContentManager) |
| 8 | `MainUpdate`, `MC_MainUpdate` | `main`'s wait loop composed with the UpdateManager worker, whose fatal errors send `kill(0, SIGINT)` | done |

Open: an abstract specification for `AutoscanInotify` ("the watched set
is the union of the existing subtrees of the monitored roots"). The
worker could refine it only at its settled states, and `ai_registry`
shows that even those differ from it, so today it is stated as the
invariants `WatchesFollowAutoscans` and `SubtreeWatched`, and
`WorkerCatchesUp` says the settled states keep coming.

## 3. Modules and runs

### UpdateManager.tla (src/src/update_manager.cc)

State: `objectIDHash`, `lastContainerChanged`, `flushPolicy`, `shutdownFlag`
as in the code; `intervalElapsed` abstracts `lastUpdate` and the clock (has
`SPEC_INTERVAL` passed since the last successful send?); `wpc` is where the
worker thread is; `cpc`, `cIds`, `cSignal`, `cSplit`, `cAsap` are the locals
of a caller suspended in the overload loop of `containersChanged`; `calls`
and `sigints` count calls and `kill(0, SIGINT)`s; `pending` and
`asapPending` are history variables (ids reported since their last flush).

Every stretch of code run while the mutex is held is one action. The mutex is
released only in `cond.wait`/`cond.wait_for`, around `subscription_update`,
and in the overload loop, so these are the interleaving points:

| Action | Code |
|---|---|
| `ContainerChanged(c, id, p)` | `containerChanged`, lines 139-176 (INVALID id → early return) |
| `ContainersChanged(c, ids, p)` / `Continue` / `Scan` | `containersChanged` up to the first unlock of the overload loop, or to the end |
| `SpinRelock(c)` | one turn of the overload loop (lines 120-126) and the rest of the call |
| `WorkerRelock` / `LoopHead` | the worker taking the mutex and running the loop head: exit, untimed wait, timed wait, or flush |
| `WorkerRelockTimed` | return from `wait_for`: flush on `no_timeout`, loop on `timeout` or shutdown |
| `SendUpdates` | lines 222-241: reset cache and policy, `incrementUpdateIDs` (may throw: hash kept, SIGINT) |
| `AfterSend` | lines 241-261: `subscription_update` without the mutex (may throw), `lastUpdate` |
| `Timeout`, `SpuriousWakeup`, `Tick` | the condition variable and the clock |
| `Shutdown` | `shutdown()` up to the join |

Fairness: weak fairness on the worker's steps and on `SpinRelock` — these
threads only wait for a mutex that every holder releases, and `wait_for`
returns at its deadline. Callers, shutdown, spurious wakeups and time get no
fairness.

Runs:

| Run | Checks | Result |
|---|---|---|
| `um_check` | `TypeOK`, `NoLostUpdate`, `EventualFlush` | pass: the cache `lastContainerChanged` never hides an id missing from the hash, across flushes, failed flushes and the overload loop; and when no call overloads the hash every reported id is flushed unless the manager shuts down |
| `um_overload` | `WorkerWaitMatchesWork` | **violation** (lines 100 and 226): the overload loop lets the worker flush and go to its untimed wait, after which the rest of the batch enters the empty hash without a signal; and the forced flush resets `FLUSH_ASAP`, so the rest waits out `SPEC_INTERVAL` |

Bounds: three ids, two callers, `MAX_OBJECT_IDS = 2` and an overload of 1,
so that a batch of two onto a hash of two enters the overload loop (the
code's 1000/30 only change how many ids that takes); three calls; one fatal
storage/send failure in `um_check`. Fairness: weak fairness on the worker's
steps and on `SpinRelock`: these threads only wait for a mutex that every
holder releases, and `wait_for` returns at its deadline. Callers, shutdown,
spurious wakeups and time get none.

### Main.tla (src/src/main.cc, `main` and `signal_handler`)

State: the main thread's position `mpc`, whether signals are masked, the
set of pending signals (pending instances of one signal coalesce),
`shutdown_flag`, `restart_flag`, a count of signals sent, the history
variable `termWhileMasked`, the command line `argv` and environment `env`,
the `home` and `cfgdir` passed to `ConfigManager`, and the exit status.

A command line is a record: how `options.parse` ends (success, an unknown
option, which is caught, or a missing/ill-typed argument, which is not),
whether an informational option (`--help`, `--version`, `--compile-info`)
is given, and the strings main reads from `--pidfile`, `--home`,
`--cfgdir` and `--config`, `""` standing for an absent option (what
cxxopts' `as<string>()` gives then). The environment is
`XDG_CONFIG_HOME` and `HOME`, `""` for unset. The option phase is four
actions: `ParseOptions` (lines 121-152), `WritePidFile` (169-184, the
write may fail), `ResolveHome` (186-227, with the home path read through
`HomeOption`, i.e. from `--pidfile` as line 186 does) and `LoadConfig`
(244-265, which may throw, and then masks all signals). Before line 267 no
handler is installed, so a signal delivered in this phase kills the
process (default action).

The handler runs on the main thread (every other thread inherits the full
mask), so delivering a signal is one action between two main-thread steps;
unmasking delivers all pending signals in one step. The loop
`while (!shutdown_flag) cond.wait(lock)` is split into the read of the
flag (`Test`), the decision to wait (`Wait`) and the blocked state, with
spurious wakeups. In `Main` alone `upnp_init` is one step that succeeds,
throws `UpnpException` or throws another `Exception`; `MainServer` refines
that choice with the server's steps.

Fairness: weak fairness on the main thread's steps and on delivery of each
pending unmasked signal (the kernel delivers on return to user space).

| Run | Checks | Result |
|---|---|---|
| `main_options` | `CommandLineHonoured` | **violation** (lines 124, 186, 215): an ill-typed option value aborts the process; `--pidfile`'s path becomes the home and `-m` is ignored; `-f` is replaced by `"gerbera"` when `XDG_CONFIG_HOME` is set |

Bounds: `main_options` enumerates all 96 command-line shapes (three parse
outcomes, informational option or not, each of the four path options given
or not) against four environments, with no signals; each of the three
defects is reached separately (checked by splitting the invariant into its
conjuncts).

### MainServer.tla (main.cc lines 286-406 with Server.tla)

`M == INSTANCE Main` and `S == INSTANCE Server` share their variables.
While `mpc = "init"` the main thread performs the server's `upnp_init`
steps (`ServerInit`); which step failed (`FailedStep`) decides the path:
`checkAddress` and `checkWebRoot` throw a plain `Exception` and main exits
at once with signals still masked (`InitFailExit`), every libupnp step
throws `UpnpException` and main unmasks, calls
`singletonManager->shutdown` and exits (`InitFailUpnp`,
`FailShutdownDone`). A server that is running may still make main exit
because an `--add` file fails (lines 319-334). libupnp's callbacks are
steps of their own while the device is registered and the process lives.
Nothing in the repository calls `Server::shutdown` (main holds the server
in a local `shared_ptr`, `exit()` runs no destructor), so main's shutdown
leaves the server's state alone; the `SingletonManager` may throw, which
sets the exit status to `EXIT_FAILURE`.

Fairness is `Main`'s, with the server's init steps counted as main-thread
steps (they run on it); callbacks and spurious wakeups get none.

| Run | Checks | Result |
|---|---|---|
| `main_server` | `TypeOK`, `CleanExit`, `TermDuringStartupHonoured` | pass: over every init failure point and both exception kinds, with requests delivered also before `upnp_init` returns, a SIGINT/SIGTERM sent during startup ends the process; a zero exit status only follows an informational option or a full start stopped by a signal |

Bounds: a command line with and without `--pidfile` (so the pid file write
can fail), `HOME` set, two signals and one callback (96 request shapes,
three handler outcomes). Two signals suffice for the startup property (one
terminating signal while masked); the third-signal `exit(1)` is left to
the wiring of `Main` alone. Three signals here take 95 s and leave no margin for
the mutation runs.

### MainUpdate.tla (main.cc with update_manager.cc)

`M == INSTANCE Main` and `U == INSTANCE UpdateManager WITH pending <-
idPending` (both modules name a variable `pending`: the signal set and the
worker's flush flag). The worker and its callers only step while main is
in `UpdateRunning` (from the end of `upnp_init`, which creates the
UpdateManager, until the process is gone). A worker step that raises
`sigints` (a failed flush, "Forcing MediaTomb shutdown.", lines 236-239
and 251-253) also makes SIGINT pending for the process (`M!Send`); the
worker, like every thread, inherited main's full mask, so the signal is
handled on the main thread. `UpdateShutdown` lets `SingletonManager`
(not in the repository) call `UpdateManager::shutdown` while main is in
its own shutdown. Every signal comes from the worker: no outside signal
is sent. Fairness is the union of both modules': the main thread's steps,
delivery of unmasked pending signals, and the worker's and callers'
non-blocked steps and timed wait.

| Run | Checks | Result |
|---|---|---|
| `main_update_signal` | `FatalErrorHonoured` | **violation** (main.cc line 343): the worker's SIGINT is handled on the main thread after it read `shutdown_flag` and before `cond.wait`; nobody notifies, the next flush succeeds, and the server runs on with the flag set although the worker announced a forced shutdown |

Bounds: one caller, one object id, batches of one, two calls, and one
flush failure (a transient storage error; `MaxFailures = 1`), one plain
command line and environment. The lost wakeup needs only one signal;
more failures make more signals, whose third one calls `exit(1)`.

### FileCursor.tla, MemIOHandler.tla (src/src/mem_io_handler.cc)

`FileCursor` is the contract of a seekable read cursor over a buffer:
`open`, `read(n)` returns `min(n, len - cur)` bytes and advances, `seek`
to an offset from `SET`/`CUR`/`END` in range (else an exception).
`MemIOHandler` models the code: `pos`, `length`, the `atEOF` flag (left
uninitialised by both constructors, so a nondeterministic boolean),
`seek`'s signed/unsigned comparisons modulo `2^WIDTH`. `MC_MemIOHandler`
instantiates `FileCursor WITH len <- length, cur <- pos` and checks it as a
property.

| Run | Checks | Result |
|---|---|---|
| `mem_refines` | `TypeOK`, `ImplementsFileCursor` | pass, with `SeekAfterRead = FALSE`: for libupnp's use (open, seek, then reads) every step of the handler is a step of the cursor contract, including the size_t wrap-around in the range checks |

With `SeekAfterRead = TRUE` (a reader seeking back after reaching the end)
`read` keeps returning 0 because `atEOF` is never cleared by `seek`, and
TLC finds `ImplementsFileCursor` violated; this
is recorded as a hazard, not a run, because libupnp does not read that way.
`WIDTH = 8` keeps the modular arithmetic exact for the lengths and offsets
used while making wrap-around reachable with negative offsets.

### Process.tla (src/src/process.cc)

Two independent activities in one module. `run_simple_process` is its
sequence of system calls (open input, write, open output, `system`,
`fopen`/read), each able to fail.  The type of `input.length()`
(`zmm::String`) is not in the repository, so for a `write` returning -1 the
short-write test `ret < input.length()` may go either way (`ShortWrite`):
a signed length makes it true, a `size_t` one makes it false.
`kill_proc` escalates SIGTERM, SIGINT, SIGKILL with an `is_alive`
(`waitpid(WNOHANG)`, which reaps) before each, while the child may exit at
any step.

| Run | Checks | Result |
|---|---|---|
| `proc_kill` | `TypeOK`, `NoSignalToReapedPid`, `KillResultTruthful` | pass: `kill_proc` never signals a reaped pid and its result agrees with the child's state and the signals sent |
| `proc_run` | `RunSimpleProcessSound` | **violation** (line 73 and the unlinks of 129-130): every error path leaves `mt_in_`/`mt_out_` behind |

### Element.tla (src/src/mxml/element.cc)

The child list as a sequence of abstract nodes (element by name, text as
"blank"/"word"/"padded", comment with its newline flag), every mutating
operation as an action, and the loops of `removeWhitespace`, `indent` and
`removeElementChild` as RECURSIVE operators that follow the code's index
arithmetic (`removeChild(i--)`, `--numChildren`, `insertChild(i++)`).
Texts also carry their `mxml_value_type` (`ValueTypes`: string and int;
bool behaves as int for these loops): `setText` gives a new text its type
and keeps the type of an existing one (`Text::setText`), and
`getVTypeText`'s loop is the RECURSIVE `VTypeFrom`. `getAttribute` is the
query `GetAttribute`; attributes' own value types are left out.

| Run | Checks | Result |
|---|---|---|
| `el_loops` | `RemoveWhitespaceCorrect`, `IndentCorrect`, `RemoveAllCorrect`, `VTypeTextCorrect`, `SetAttributeRead` | pass: on every child list reachable with up to three children the loops compute the reference results (declarative definitions with `SelectSeq`/`FlattenSeq`, and "the type all texts share, else string"); with two attributes, which `addAttribute` may give the same name, `setAttribute` updates the attribute `getAttribute` reads (the first) |

### Server.tla (src/src/server.cc, src/src/upnp_cm_actions.cc)

`upnp_init` as its eight fallible steps, `shutdown` (which throws when the
root device was never registered), and `upnp_callback` under the device
mutex as one step per delivered request: null, action, subscription or
other event, for our or another UDN, to CM, CDS or another service, with
the handler ending normally, with `UpnpException` or with another
`Exception` Actions are routed by `upnp_actions` (`Route`), subscriptions
by `upnp_subscriptions` (`RouteSubscription`, which tests CDS before CM).

| Run | Checks | Result |
|---|---|---|
| `main_server` (see MainServer) | `TypeOK` | pass: the routing actions fire in every startup state; nothing unregisters the device after a failed `upnp_init`, so requests keep reaching services whose setup was skipped (a hazard, not a property) |
| `srv_callback` | `CallbackAnswers` | **violation** (lines 303, 314): a non-UPnP exception in an action handler leaves the event without error code or response; one in a subscription handler escapes `upnp_callback` |

### AutoscanInotify.tla (spec.md section 4; src/src/autoscan_inotify.h)

Only the header is under `src/`; the worker's behaviour is modelled from
`spec.md` and marked `spec_modelled` in the map (so are `AttachWatch` and `OnMovedFrom`,
whose logic lives in the worker), while `WatchRecord` and `AddDescendant`
translate the header's inline classes.
The filesystem is a fixed directory tree (`Dirs`, `ParentDir`), of which
`exists` is the present part; the kernel's watches are `kwd` with a counter
that never reuses a descriptor; events waiting for `read` are `kq`. The
worker's state is the `watches` table (wd -> path and its watch records:
autoscan, start-point flag, descendants, placeholder), the two command
queues and an explicit call stack `work` for the recursive
`monitorDirectory`/`unmonitorDirectory`/placeholder processing. Its loop is
drain the queues (monitors first), read one batch of events, dispatch them
(`IN_CREATE` on a dir: monitor it for recursive autoscans and recheck
placeholders; `IN_DELETE_SELF`: drop the wd and descendant watches), and
back. `monitorNonexisting` is split into its `stat` and its
`inotify_add_watch`, so that the directory can be created between them.
External actors: `monitor`/`unmonitor` calls, `mkdir`/`rmdir` in the tree,
renames (`Renames`) and unmounts (`Mounts`), `shutdown`.

A rename (`Rename`) of a directory without subdirectories queues
`IN_MOVED_FROM` on the old parent's watch, `IN_MOVED_TO` on the new
parent's, and `IN_MOVE_SELF` on its own, and the kernel watch stays
on the directory under its new name. `Read` takes any non-empty prefix of the
queue, so a rename's events can be split between two reads. The cookie map
(`cookies`) lives for one read (spec.md 4.8). `OnMovedFrom` adds the
WatchMove and records the cookie. A paired
`OnMovedTo` drops the WatchMove and rechecks placeholders. An unpaired one is
`IN_CREATE`. `IN_MOVE_SELF` and `IN_UNMOUNT` are handled as
`IN_DELETE_SELF` (spec.md 4.7). `Unmount` removes what was below the mount
point and queues `IN_UNMOUNT` on every watch of the unmounted filesystem,
including the mount point's own.

The kernel's event queue is bounded by `MaxQueued` (`max_queued_events`).
`Enqueue` drops an event that would go past the limit and queues one
`IN_Q_OVERFLOW` (wd -1), unless one is still unread. As far as the table
goes, dispatch discards it: its rescan is a ContentManager call
(spec.md 4.7). `ai_check` sets `MaxQueued` to 12, more than its four
filesystem operations can queue (at most three events each). `ai_registry`
sets it to 1.

The invariants are stated for a settled worker (`Settled`: no queued
commands, no events, no frames).

Fairness (`WorkerFairness`): weak fairness on the worker's four steps
(`Drain`, `Read`, `Dispatch`, `WorkerStep`). The worker is one thread that
blocks only in its inotify read, which returns within a short timeout
(spec.md 4.1 step 3; 6). Callers, other processes and `shutdown` get
none. Under it `WorkerCatchesUp` states that the worker returns again and
again to `Settled`, or stops after `shutdown`: its recursive walks end
even while directories appear under them, and every read's batch is
dispatched back to the drain.

| Run | Checks | Result |
|---|---|---|
| `ai_check` | `TypeOK`, `KernelWatchesTracked`, `SubtreeWatched`, `WorkerCatchesUp` | pass: every kernel watch is in the table and vice versa, every existing directory under a monitored recursive root is watched for that autoscan, and the worker always catches up again (about a minute, most of it the liveness check) |
| `ai_registry` | `WatchesFollowAutoscans` (`WatchesMatchRegistry` and `SubtreeWatched`) | **violation**: seven spec gaps. (1) header line 187: a root created between `stat` and `add_watch` is never picked up. (2) line 177: unmonitoring a root that does not exist leaves its placeholder. (3) line 80: `unmonitor(d)` then `monitor(d)` in one tick run in the opposite order. (4) line 194: a paired `IN_MOVED_TO` installs no watch, and the `IN_MOVE_SELF` after it removes the moved directory's watch, so a directory renamed within or into a recursive autoscan is unwatched. (5) line 192: a rename split across two reads becomes a create, which gets the inode's existing descriptor, and then a move-self that removes it. (6) line 71: after an unmount the mount point stays an unwatched directory of the autoscan. (7) line 71: a directory whose `IN_CREATE` was dropped at queue overflow is never watched, because the overflow only triggers a content rescan. Gaps 4 to 6 were each confirmed with `mkdir` disabled and one autoscan, which rules out gaps 1 to 3; gap 5 with every read returning one event. Gap 7 was confirmed with one autoscan, its root present from the start and no `rmdir`, which also rules out gaps 1 to 3 |

Bounds: tree `T/A/B` plus `T/O` (`ai_check`) or `A/C` (`ai_registry`),
two recursive autoscans rooted at `A` and `B`, two watches, and `MaxFsOps`
filesystem operations (4 in `ai_check`, 3 in `ai_registry`). `ai_check`
renames `B` only out of both autoscans, to `O`, and unmounts `A`. Any rename
that can be paired into a recursive autoscan, or an unmount below one,
breaks `SubtreeWatched` by gaps 4 to 6. `ai_registry` renames `B` to `C`
inside `A`, and mounts filesystems on `A` and on `B`. `ai_check` allows two commands: with three, the same-tick
reordering of the third gap also breaks `SubtreeWatched`, which is the
finding of `ai_registry` and not a second one.

## 4. Not modelled

* `web::edit_load`: builds XML text; nothing a property could be about.
* `sql_storage.h`, `xpath.h`, `task_processor.h`: declarations, with
  one-line inline accessors (`SQLRow::col`, `mapBool`, `cacheOn`); the
  code they declare is not in the repository.
* `config_options.h`: a typed value holder. Each option class keeps the
  value it was built with and returns it from its own getter, and every
  other getter throws "Wrong option type". There is no state change and no
  sequence of calls for a property to be about.
* `UpdateManager::init` (thread creation) and the join in `shutdown`; the
  content of update strings; the exact duration of `SPEC_INTERVAL`.
* `main.cc`: logging setup, the `--ip`, `--interface`, `--port` and
  `--logfile` values (handed on unread), `MEDIATOMB_DATADIR` and
  `MEDIATOMB_MAGIC_FILE`, and the commented-out SIGHUP restart branch.
  An environment variable set to the empty string is not told apart from
  an unset one.
* `AutoscanInotify`: renames of directories that have subdirectories (the
  events are the same; only the subtree's descendants would move with it),
  and file (non-dir) events. The content scans the events trigger are not modelled either.
* Bytes of buffers, XML text and command output: abstracted to lengths or
  small sets everywhere.
