# TLA+ models of zflserviced

`log/ZflTestTool/service` is `zflserviced`, a daemon on an Android device that
collects logs for testers. It is the only system in this repository; the rest is
study notes, saved web pages, patches for the Android framework and single
programs. This directory holds TLA+ models of its core, the TLC configurations
that check them, and proofs for TLAPS. Paths below are relative to
`log/ZflTestTool/service`.

## The system

| Part | State it keeps | Operations | Talks to |
|---|---|---|---|
| daemon (`main.c`, `table.c`, `server.c`) | table of services: listening socket and port of each, under `table_lock` | boot, accept loop, `check_service`, `run_service`, `thread_main`, `send_command_to_service` | clients over TCP on 127.0.0.1; one thread for each running service |
| logger control (`logctl.c`) | `loggers_global_state`, state bits of each logger under `lock_logger`, error, restart and low-space counters | `:run:`, `:stop:`, mount events, the monitor cycle, signals | main thread, monitor thread, killer thread, logger threads |
| loggers (`logdevice.c`, `logradio.c`, `logevents.c`, `logkmsg.c`, `logrpm.c`, `lognet.c`, ...) | child process, router thread, pipe, `log_filename`, `pipeinfo` | start, stop, update_state, rotate_and_limit | logger control calls them under `lock_logger`; a child writes to the pipe, the router to the file |
| log index (`logctl.c`, `common.h`) | the file `.<prefix>data.stt`: header and ring of 5000 entries | open (or rebuild), add, limit, remove | loggers; `:movelog:` and the killer unlink files behind its back |
| storage (`logctl.c`, `lib/src/dir.c`) | table of storages: mount point, excluded mask, sizes, under `lock_storage` | update, select by priority | logger control |
| session (`logctl.c`) | session number, serial number of each logger, a file | load, save, next | file names of the loggers |
| local uevents (`uevent.c`) | four slots, a pipe each, under `uevent_lock` | register, unregister, dispatch | ghost, logbattery, displaytest read; the uevent thread of main writes |
| ghost (`ghost.c`) | two directories, their inotify watches, a drop list under `data_lock` | monitor thread, `:mount:`, `:wait:` | local uevents, clients, the applications that write the files |
| recorders (`logmem.c`, `logfs.c`, `logkey.c`, `logoom.c`, `logprocrank.c`, `logrpm.c`, `logbattery.c`) | handle of a worker, `done`, what wakes it | `:run:`, `:stop:`, `:endserver:`, the worker | clients; devices, the local uevent bus |
| configuration (`lib/src/conf.c`, `pub/db.c`) | an ordered list of pairs and its file | get, set, load, save | nearly all |
| other services | own globals | their own commands | clients, devices |

`PROJECT.json` lists every part of the repository with its status.

What makes each part correct:

- daemon: one thread for a service; a table that tells the truth; a command reaches the
  service it names, or fails; nobody waits for an answer that cannot come.
- logger control: state and loggers agree in the end; a stop holds; a logger in error is
  restarted; loggers leave a storage that goes away; the daemon exits when told to.
- log index: files leave oldest first, the one being logged last; the total is the sum of
  the sizes; no file is without an entry; an operation ends.
- loggers: a stopped logger has no process, thread or pipe left; a router appends only to
  the file it was told to open.
- storage: the selected storage is available and no other has a higher priority; limits
  and reserves fit the storage.
- session: numbers stay in 1..9999 and do not repeat before they wrap, over restarts too.
- local uevents: a service reads the pipe of its own slot; a dispatch waits only for one
  who does not read; nobody waits on a bus that is gone.
- ghost: when all events are handled the two directories hold the same, but for what could
  not be copied; ghost does not react to its own copies.
- recorders: one worker at a time; `:stop:` and `:endserver:` come back; a worker does not
  end by a flag meant for another.
- configuration: what is saved is what is loaded.

### What is hard

- Two threads of logctl start and stop loggers through sequences of short
  critical sections; no lock spans a whole start or stop.
- The monitor acts on a state it has read earlier.
- The index is written slot first, header last, without a lock against the
  router, the killer or `:movelog:`, and the daemon may die in between.
- A service leaves its accept loop before its table entry says so.
- A system call that fails leaves what was done before it in place.
- A signal handler takes a lock that the interrupted thread may hold.
- Dispatch of local uevents blocks on a full pipe with a lock held.
- Ghost copies while events are on their way, ignores its own by counting kinds, and may
  be cut off in a copy by a storage that is full.
- A recorder's worker may be about to wait when it is woken, or not there any more.
- The session file is rewritten in place, and its number has a fixed range.

`PROJECT.json` lists each hazard at its line, with the properties that are about it.

## Modules

| Module | Models |
|---|---|
| `LogData` | the log index and the log files of one logger, at the granularity of single writes to the index |
| `LogFifo` | what the index promises: a bounded queue of files |
| `LogDataFifo` | the refinement from `LogData` to `LogFifo` |
| `LogData_proofs`, `LogDataFifo_proofs` | theorems about `LogData`, with the sums they need, and about the refinement |
| `LoggerControl` | main and monitor thread of logctl, loggers, storages and clients; a step is a critical section of `lock_logger` |
| `LoggerControl_proofs` | theorems about `LoggerControl` |
| `ServiceTable` | the daemon: table of services, accept loop, service threads and clients |
| `ServiceTable_proofs` | theorems about `ServiceTable` |
| `Session` | session number, its file and the names of new log files, with a daemon that may die between two writes |
| `LocalUevent` | the local uevent bus, the uevent thread and the three services that register |
| `Recorder` | the seven recorder services: service thread, worker, what wakes and ends it |
| `GhostSync` | the ghost service: two directories, inotify events, drop list, re-mounts |
| `Session_proofs`, `LocalUevent_proofs`, `Recorder_proofs`, `GhostSync_proofs` | theorems about these four |
| `MCLogData`, `MCLoggerControl`, `MCServiceTable` | symmetry and constants for TLC |

The modules do not share variables. `LoggerControl` sees a logger as a
process state and calls its start and stop; `LogData` is what one logger does in
`log_start` (`CreateFile` ... `Commit`), in `loggers_process_rotation_and_limitation`
(`LimitBegin` ... `Commit`) and in `log_stop` (`Stop`). logctl itself is one of
the services of `ServiceTable`; its `:endserver:` is `Handle` with `asked` there and
`CommandEnd`, `Join` here. Each of the others is about one service or thread of the
daemon. `Session` names the files that `LogData` assumes fresh. `LocalUevent` has a
battery logger and a ghost monitor of its own, as far as they use the bus; in
`Recorder` the battery logger's bus is what it polls, and `GhostSync` leaves
the bus out.

### LogData

`hdr` is the header in memory, `dhdr` and `slot` the file, `linked` whether it is in the
directory under its name, `ok` whether it is and passes the checks of
`logger_common_logdata_open`. `stopped` is the STOPPED bit of the logger: `Stop` empties
`log_filename` (`logging`) only if logcat is alive. `pc` is the place in the
operation that holds `lock_logger`. `CreateFile` to `RebuildCommit` are
`generate_new_file` and `logdata_open`; `AddEvict` and `AddPut` are `add_file`,
`LimitRefresh` to `LowFreeDone` are `limit_size`; `Commit` is the write of the
header that ends both. `RouterOpen` and `RouterWrite` are the router thread,
`Unlink` the killer and `:movelog:`, `UnlinkIndex` `:movelog:` of an index. These three hold
no lock and come between any two steps of an operation, which then goes on with an index
file that has no name. A scan that fills every slot makes the file valid before it is
padded (`LeftValid`).

Sizes are small integers (`MB` units to a megabyte), a name is a model value and
always fresh, as a name holds session, serial number and time. `NamesApart` of
`Session` says when that is so.

### LoggerControl

All enabled loggers are started in one section and stopped in one, so STARTED is
one flag. LOGGING and the error bits are sets of loggers (`logging`, `fatal`,
`other`). `proc` is the truth about each process; `UpdateState` copies it into the
bits, as `log_update_state` does. `pc[t]` is the next critical section of a thread,
`back[t]` where `loggers_global_start` or `loggers_global_stop` returns to.
`seen` is the monitor's `local_state`, `snap` the copy of the storage that
`handle_local_command_mount` works with, `wanted` (history) what a client last
asked for. Time is left out: the monitor may wake at any moment and "every 120
cycles" is "at some cycle". `Rotate` is what `do_rotate` does to a logger whose process is
dead: it starts it again, on its own and without touching the bits.

Two simplifications. `IfStorage` reads the storage once, where the code looks it up under
`lock_storage` several times in a row; the decision is taken on one copy, and the sizes are
refreshed just before it, so a storage that changes in between is one that changes before the step or
after it. The lookup of a storage by path (`storage_get_by_name_or_path_nolock`, a match of
the longer name's beginning, `logctl.c:787`) is equality here: no mount point is taken to be
the beginning of another storage's path. When a path on the selected storage cannot be made
(`CANNOT_GET_LOG_PATH`), `StartAll` sets the storage and starts nothing.

### ServiceTable

`socket` and `port` are the two fields of an entry, `serving` and `returned` count
its threads before and after the return of its `proc`. `Serve` is a request to
the daemon, `Handle` one to a service. `queue` is the backlog of a service: the
kernel completes a connection before anyone accepts it. Its length, and the
daemon's own backlog, are not bounded, while `listen` gets 1: a client that finds
it full waits in `connect` and is not `waiting` in the model. A connection to the
daemon carries one request.

### Session

`file` is `.session`: a number, or that there is none, that it is empty, or that it
cannot be used. `Load` is `session_init` with `session_load_nolock`, `Start`, `Save` and
`Begin` are `session_get_next_sn` and `session_save_nolock` in the start of the loggers,
`NewFile` is the name that `generate_new_file` makes. `ClearLogs`, `Unlink` and
`ResetSn` are `:clearlog:`. `Crash` may come between any two. All of them hold
`lock_logger`, so they do not interleave, and one logger is enough, as each has its
own directory of names. The clock ticks, and may be set back. Assumed: a second has
room for fewer starts and new files than there are numbers, and a relaunch of the
daemon and a re-mount of a storage take a second.

The reset of a bad file is written behind what was read, so the file stays bad
(`Repaired`) until the next number is saved.

### LocalUevent

`key` and `pipe` are the slots. `DispatchSlot` is one round of the loop in
`local_uevent_dispatch`, which holds `uevent_lock` and waits at a full pipe; `Register`
and `Unregister` are each one critical section. `at[u]` is what a service does with its
registration, `fd[u]` the slot whose pipe it reads. `Read` takes up to `ReadMax`
events out of the pipe and looks at the first. What an event says is "power" or
"other"; "end" is the daemon's.

Left out: a message split across two reads, and a descriptor that the kernel gives to
somebody else after it was closed. The display test ends without unregistering, as the
code does.

### Recorder

`kind` says which of the services runs; logmem and logfs are the same here. The services
are one model because they are one pattern written several times, and what differs
(`Wake`, `Begin`, `Exit`, `Ending`) is where they go wrong. `working` and `timegen` are
the handles, `thread` the truth about each thread, `done` the flag. `wake` is a break
byte, a semaphore token or a signal, and is lost where the code loses it. A thread can
always be created. The handles of logprocrank and logrpm are static: after `:endserver:` they
are those of joined threads (`EndJoin`) until the next command forgets them (`Lost`,
`Looks`). What `pthread_kill` says of such a handle is undefined; it is taken to say that
there is no such thread, as it does unless the handle's memory is given to a new one.
`OpenFails` is a logrpm worker that does not get as far as its first poll. `time_lock` follows `logmem.c`: the server locks it, the worker waits on
a condition with it. A handle that is dropped because its thread has ended frees its number.

### GhostSync

`queue` holds the unread inotify events, merged as the kernel merges them, `batch` those
of one read, `drops` how many of each kind are in the drop list. `Look`, `Sync`,
`MakeFolder` and `Watch` are the steps of a re-mount under `data_lock`, at the start and by
`:mount:`, which looks at the watch (`AskMount`) before it has the lock (`Mount`);
`Connect` sets the path for each connection. `Read`, `Handle` and `HandleIgnored` are the
monitor. `AppChange`, `Tamper`, `RemoveFolder`, `Plug` and `Fail` are done by others, and
events of a removed watch are stale.

While `failing`, a storage is full or broken, and any call on a file may fail. `copy_file` then
has three ends that the rest of the code tells apart:

| `copy_file` | the target | its echo | it returns | drop list |
|---|---|---|---|---|
| cannot open a file | as before | none | -1 | - |
| fails with nothing copied (`Empty`) | opened "wb": emptied | IN_CLOSE_WRITE | -1 | no entry |
| fails later (`Cut`) | cut short | IN_CLOSE_WRITE | 0 | one entry |

A cut and an emptied file are both `Short`. `copy_dir` stops at the first file that fails,
while `sync_src_and_dst` goes on with the next one it restores; `CopyDir` lets any of the files
fail, which includes both. Deletions, new folders and new watches fail as well. Nothing is
retried: a failed copy is looked at again when the next event names the file.

Three variables are history. `missed` holds the names whose change nobody watched or that others
changed in the copy, `failed` those whose last copy or deletion failed, `unlisted` counts the
events of the watched copy that have no entry in the drop list: changes by others, and the echoes of
copies that failed with nothing copied.

A write of an application is one step, at its close, and so is the copy of one file. The
directory on the phone always exists. `.nomedia` and `:wait:` are left out, and so are errors of
poll, of the read of events and of `inotify_init`.

## Runs

| Run | Bounds | Shows |
|---|---|---|
| `LogData_ring` | 3 slots, 5 names, sizes to 2, files moved or expired | `NoneOutside`, `TotalIsSum`, `EveryFileListed`, refinement to `LogFifo` |
| `LogData_crash` | 2 slots, 4 names, 2 crashes, files and index moved, files expired | `LoggingIsHead`, `LoggingFileKept`, `OperationEnds` |
| `LogData_faults` | 2 slots, 4 names, all faults but crashes | `NoHole` |
| `LoggerControl_safety` | 2 loggers, 2 commands, 1 fault, signals, expiry | `ChangingEnds`, `StopHolds` |
| `LoggerControl_repair` | 1 logger, log path "auto" or fixed, 1 command (run, stop, mount, end), 1 fault | `StartedRight`, `StoppedRight`, `Recovers`, `LeavesStorage`, `EjectedAvoided` |
| `LoggerControl_undo` | 3 commands, no fault | violates `StopHolds` |
| `LoggerControl_sigterm` | a signal | violates `ExitsOnSignal` |
| `ServiceTable_races` | 2 services, 2 clients, 3 ports, 1 fault | `OneThread`, `PortServed`, `RightService`, `NoneWaits` |
| `Session_files` | 2 storages, session numbers to 3, serial numbers to 2, 2 seconds, the clock set back once, all failures of the file | `SavedIsUsed`, `NumbersApart`, `NamesApart` |
| `LocalUevent_bus` | 2 slots for 3 services, pipes of 2 events, reads of 2 | `OwnPipe`, `BlockedByIdle`, `ShutdownEnds`, `ReadersLeave` |
| `Recorder_threads` | each of the services, 4 threads, workers that give up | `OneWorker`, `FreshStart`, `StopReturns`, `EndReturns` |
| `GhostSync_files` | 2 names, 2 contents and the short one, 2 storages, 3 changes by others or of a storage that fails or recovers | `InSync`, `EchoesDropped`, `Settles` |

Two things the runs taught about the index. `NoneOutside` needs an index that opens: when
the last write of a rebuild fails, or the daemon dies before it, the padded index
validates with a zero header, and its entries are out of the limiter's reach until the
head comes round to their slots. `NoHole` survives that, but not a crash between the
clearing of a slot and the write of the header.

Why the bounds are enough. A ring of two or three slots wraps, fills up, pushes its
tail and is left with one entry; five names let a file be listed, evicted, open in the
router and being created at once. Two storages with different priorities, two
loggers of which one fails, and a retry limit, error tolerance and low-space count of
two reach every branch of the monitor. Overlaps of start and stop need one command
and one monitor cycle; a stop that falls into the monitor's window needs two
commands, the run that fools the recheck three. Two clients suffice for every race on
one entry, and a second service for a port that changes hands.

A mount event and a fault that changes a storage, an end of the service and a logger
that dies meanwhile, are all within one command and one fault.

Fewer slots than services make `local_uevent_register` fail and slots change hands; a pipe of
two events fills up, and a read of two hides the second. In `Session` numbers and
serial numbers wrap within the run, and names do come back when the clock is set back
over a wrap. Four threads are a worker, its time thread and two that have not been
joined. Three changes let an event be merged, one be stale and one come between a copy
and its event; a storage that fails, a change and its recovery are three as well. A third
name or storage adds no new order of events.

Deadlock is checked where the system does not stop: in `LogData`, in `LocalUevent` and in the runs of
`LoggerControl` without signals and expiry. The others end with the process, or hang in
its signal handler. `Session_files` and `GhostSync_files` stop when their bounds are used
up; `Recorder_threads` where
logmem is started again (see below).

### What is found

- `LoggerControl_undo`: `:stop:`, `:run:` between two readings of the monitor make it
  restart loggers that run; a `:stop:` during that restart is undone.
- `LoggerControl_sigterm`: SIGTERM in a critical section leaves a daemon that
  waits for itself.

`LoggerControl_undo` needs three commands, with loggers that start automatically. Without
`systemloggers.AutoStart` a `:run:` and a `:stop:` do: a monitor that woke before the `:run:`
reads "stopped", finds that a logger logs and stops what is just being started
(`AgainIfOne`); the state then says "started", and the next cycle restarts the loggers
while the `:stop:` comes. (The same configuration with `AutoStart = FALSE` and
`MaxCommands = 2` shows it.)

What the code does elsewhere, in the models, without a line of the repository that says otherwise:

- `logctl.c:3899`: when the index cannot be opened the new file gets no entry, and the
  size of an older file is "brought up to date" in its place.
- `logctl.c:1316`: a fatal error bit survives the restart that repaired it and causes a
  second restart.
- `logctl.c:3081`: with no other storage, loggers go back to the storage that is being
  ejected. `EjectedAvoided` is about the case in which there is another.
- `main.c:294`: after a failed `pthread_create` an entry stays "running" without a thread;
  `PortServed` is checked and proved for runs in which that does not happen.
- `logmem.c:705`, `logfs.c`: the worker waits on a condition with `time_lock`, which the
  server has locked and the worker has not, and which it then has when it ends. If the
  service is ended while it records, the next start waits for that lock for ever
  (`logmem.c:740`, `logfs.c:308`). "A service that is started comes to its loop"
  is violated in `Recorder`, and is the deadlock its run allows.
- `logoom.c`: `done` stays set after `:stop:`, so that the next worker ends at once;
  `FreshStart` leaves it out.
- `logbattery.c:618`: a `:stop:` before the worker has registered does not wake it, and
  waits for the next uevent; `StopReturns` leaves that moment out.
- `ghost.c:869`: each connection sets `path_dst` again under watches set for the old one, so
  that a `:mount:` of the USB storage may be ignored.
- `ghost.c:137`, `ghost.c:662`: a copy that fails with nothing copied is closed after writing all the
  same. Its echo finds no entry in the drop list, so ghost takes it for a change by someone
  else and copies the file again, with the same end while the storage stays full or the source
  cannot be read: it is never quiet. TLC shows it as a violation of `<>[]Settled`; `Settles` is about
  storages that recover in the end.
- `ghost.c:156`: a copy that fails later counts as done, and the short file stays in the copy until
  its source changes again or a re-mount. The other way round, `sync_src_and_dst` may leave a short file
  on the phone, which then is copied over the whole one (`ghost.c:352`, `360`). `InSync` leaves out
  the files whose last copy failed, since nothing repairs them.
- `ghost.c:784`: merged and stale events leave entries in the drop list; each hides a
  change of the copy by someone else. Changes between a copy and its watch are missed
  (`missed`), and `ghost.c:342` may overwrite a file that was created meanwhile.
- `uevent.c:92`: a registrant that does not read stops the dispatch, with the lock held.

`RightService` is checked with `ReusesPorts` FALSE: a client keeps a port it was told, and
if the kernel gives that port to another service meanwhile, the command goes there; nothing
in the protocol could notice. `OneThread` does not need the assumption, nor that system
calls succeed: the theorem covers both.

Some limits are stated in the properties themselves rather than as findings. `StoppedRight`
asks nothing about processes that outlive an `:endserver:`, which the service started again does
not take for its own (`logctl.c:3650`). `LeavesStorage` is checked with one fault: a storage that is low
for a while and recovers, and so starts the count again, needs two. `StopReturns` and `EndReturns` leave
out the workers that nobody wakes. `Recovers`
leaves out a logger whose start failed before it had a process, which
`log_update_state` takes for one without an error; and it asks nothing while the
monitor is not there. `LoggingFileKept` admits that a file listed twice, or found by a
rebuild, is unlinked.

## Fairness

`LogData`: the thread that holds `lock_logger` runs on; nothing is assumed of the
router or the other threads. `LoggerControl`: both threads run. The lock is held for a
bounded time and the monitor's wait has a timeout. No fairness is assumed of clients,
signals and faults, and all three are bounded, so that the properties of the form
`<>[]` say what holds once they have ceased. `ServiceTable`: main and the service
threads run, clients go on with a command once begun and close their connection to
the daemon after the answer. `Accept` is strongly fair for each client: the backlog is
served in order of arrival, which the model does not keep. `LocalUevent`: the threads run,
kernel events keep coming (the battery sends them), and what a client has commanded is
carried out; nothing says that the display test reads. `Recorder`: the service's thread and
the worker run, an event need not come; `Woken` of a timed wait is the timeout.
`GhostSync`: only ghost's own threads run, among them a `:mount:` that waits for the lock; no
storage has to recover, which is why `Settles` has a premise. `Session` has no liveness to state.

## Proofs

TLAPS checks these for every value of the constants that satisfies the assumptions in
the modules. Every invariant and every safety property of a passing run is
a theorem; where one needs a hypothesis on what may fail, the bullet names it. Each
inductive invariant was checked by TLC on a run's constants before it was proved.

**Types.** `TypeCorrect` of every component: `TypeOK`. In `LogData` it is inductive with
`Named` (an operation runs only for a logger with a log file). In `LoggerControl` it needs to
know where each thread may return to (`Placed`) and that no restart is counted while the
monitor checks (`Counted`, `Restarting`). In `Session` the loggers run only with a number of
the row and on a storage that is mounted (`StorageTyped`).

**Log index** (`LogData_proofs`).

- `HeadCorrect`: `LoggingIsHead`, under `IndexReliable` (`logdata_open` does not fail and
  no index is moved after logging began: without an entry the head is another file). The strengthening
  names, for each place of an operation, which header and which slot already speak of
  the new file.
- `KeptCorrect`: `LoggingFileKept` follows step by step: of the actions that unlink,
  only the removal loops matter, and these stop at the head, which is the logging file.
- `HoleCorrect`: `NoHole`, without crashes, and `OutsideCorrect`: `NoneOutside`, without crashes
  and failing opens. `HoleInv` and `OutsideInv` say of each place of an operation which header
  counts: the file's at rest, the one in memory while an operation runs, and for a rebuild
  that the slots below the head are filled and those from it on empty. `WindowMoves` and
  `WindowShrinks` are the arithmetic of the ring.
- `TotalCorrect`: `TotalIsSum`, under the same hypothesis. `TotalInv` adds that an empty slot has
  size zero, and that between the two writes of `add_file` the total lacks the entry that
  the head's slot still holds. That no entry is larger than the sum shows that the clamp in
  `Less` never applies.
- `ListedCorrect`: `EveryFileListed`, if files are only moved or expire (`Harmless`). It rests on
  all of the above (`IndexInv`): the slot that an eviction takes must be the one whose file it
  unlinks, and the file being logged must be at the head.
- `FifoImplemented` (`LogDataFifo_proofs`): `LogData` implements `LogFifo`, under `Harmless`. One
  lemma for each step that moves head or tail, fills the head's slot or commits a rebuild; `ScannedOnce`
  says that a rebuild scans no file twice.

The sum over the slots is a recursive function of the library. `SumReplaces` - the sum when one
value is replaced - is proved from its definition: that the function exists
(`SumsExist`), and that the order of taking out does not matter (`SumTakeOut`), each by a
minimal counterexample among the subsets (`MinimalSubset`). That is induction in the form of a set that
has a least element, which needs no operator parameter; `Least` of `LoggerControl_proofs` is the same for
numbers.

**Logger control** (`LoggerControl_proofs`).

- `ChangingCorrect`: `ChangingEnds`. A thread that sets CHANGING is
  between two labels at which it will replace it; whoever overlaps it either sets it
  again or has replaced it. Signals move a thread, so the strengthening follows `back`.
- `EjectedCorrect`: `EjectedAvoided`. `EjectInv` says that main, from the unmount to the end of the start,
  is bound for a storage that is not the one that goes and can be selected
  (`SomeSelected`: there is one of highest priority), and that an event is over when the service
  ends. The proof is why `CommandEnd` forgets the event: a relaunch does not handle it.
- `StopHoldsCorrect`: `StopHolds`, for clients that only stop (`OnlyStops`: no `:run:`, mount event or
  `:endserver:`, and at least one logger), any number of them. `Calm` says that the loggers
  are started once, before the monitor exists, after which the state never says "started"
  again; a monitor that finds no logger logging therefore fails its second
  reading. So it does not start anything at all until something fails. For clients that run loggers
  again, the property is model-checked for two commands and violated with three.

**Service table** (`ServiceTable_proofs`).

- `OneThreadCorrect`: `OneThread`: a thread exists only with a socket
  in its entry, and only an entry without one is started.
- `PortCorrect`: `PortServed`, if `get_port` and `pthread_create` do not fail;
  a failed one leaves the entry of a service that nobody serves.
- `RightServiceCorrect`: `RightService`, if no port is reused while a client knows it
  (`~ReusesPorts`, as in the run). Sockets have distinct ports (`SocketInv`), and whoever has the
  port that a client was told is the service it asked for (`ClientOf`).

**Session** (`Session_proofs`).

- `UsedCorrect`: `SavedIsUsed`. The file is written after the number is
  taken and before the loggers start; the invariant says so for the step in between.
- `ApartCorrect`: `NumbersApart`. The strengthening `RowInv` says that the numbers handed
  out are a row on the circle of numbers that ends at the file's, at most one number short of the
  whole circle, and that the number in memory is the file's or the next. A crash forgets
  the memory and `Load` reads the row's end again. `LongerRow` extends the row, `NextIsNew`
  is the arithmetic of the circle.
- `NamesCorrect`: `NamesApart`, by two invariants, one for each guard. `SecondInv`: unless the clock was
  set back, the names of the current second are of the last few sessions or serial numbers,
  fewer than it takes to come round. `OrderInv`: while no number has wrapped and the row is whole, every
  name is of a session behind the one in use.

**The others.**

- `OwnPipeCorrect` (`LocalUevent_proofs`): `OwnPipe`, with the facts that a service that is out has
  no descriptor, and nobody has one before the slots are allocated.
- `OneWorkerCorrect` (`Recorder_proofs`): `OneWorker`: every path to a new worker has first joined the old
  one or found it dead, and a service that is down has no worker, whatever handle it keeps.
- `FreshCorrect` (`Recorder_proofs`): `FreshStart`. `FreshInv` says of each kind when the flag and the
  wake-up are clear: wherever the server is not stopping a worker, a busy worker has seen neither.
- `EchoesCorrect`, `InSyncCorrect` (`GhostSync_proofs`): `EchoesDropped` and `InSync`. Lemmas about counting and
  finding events in a queue that grows at the end, merges and is read in batches; `SrcInv`
  says that the newest event of a file tells whether the file is there, `WatchInv` that ghost is
  told once that its watch has gone, `SyncInv` that a file is the same in both
  places or has an event on its way, or is still to be copied, or could not be copied. Neither has a
  hypothesis: storages may fail at any step and for any time. `EchoesDropped` bounds the events on
  their way by the entries and the `unlisted` ones: a cut copy is in the list (`Cut`), an empty one is
  counted as its event is queued and discounted as it is read (`With`, `Without`).

Only model-checked: liveness (`OperationEnds`, `StartedRight`, `StoppedRight`, `Recovers`,
`LeavesStorage`, `NoneWaits`, and those of `LocalUevent`, `Recorder` and
`GhostSync`), which is out of the reach of the provers, and `StopHolds` for clients that run
loggers again within the bounds of its run. The hypotheses on faults are not
weaknesses of the proofs: each fault they exclude breaks the property in the model of the code. TLC
finds `NoHole` violated after a crash, `NoneOutside`, `TotalIsSum` and `EveryFileListed` after a crash and
after an open that fails, `EveryFileListed` when `:movelog:` takes the index from under a logger, and
`RightService` when a port is reused.

## Not modelled

- Sizes and masks of storages: how much room `storage_update` leaves, in which units.
  `LoggerControl` sees that a storage is low or not.
- The inside of one logger's start: child process, pipe and router are the states of
  `proc`. The kmsg logger's watchdog, `lognet`, the sniffer and `logmeminfo` drive a
  process or sample in a thread by the same calls.
- `logtouch`, whose threads live as long as the service.
- Configuration (`conf.c`, `db.c`) and lists (`glist.c`): sequential data structures.
- `:wait:` of ghost, compression of rotated files, notifications, commands that only read,
  the start of the process.
- Byte routing and access to devices (tty, modem, displays, benchmarks, properties,
  sockets, JNI): no state a model would add to.
- The rest of the repository: study notes and single programs. The JavaScript files,
  which by count are most of its lines, are parts of third-party web pages saved under
  `log/WebDoc` ("..._files/*.js": blog widgets and page scripts). They are no part
  of a program here, and nothing of them is mapped. The program is C.

`PROJECT.json` gives the reason for each part.

## Plan

The modules above cover the threads, files and protocols of the daemon that are worth a model
of their own, and their safety properties are proved. What is left:

1. `StopHolds` for clients that also run loggers: a history variable for "a `:run:` overlapped
   this cycle of the monitor" would replace the bound on the commands.
2. `NoHole` and `TotalIsSum` after a crash: what the next full turn of the ring repairs.
3. `RightService` and `NoneWaits` with a bounded backlog.
