--------------------------- MODULE LoggerControl ---------------------------
(***************************************************************************)
(* The logctl service: how loggers are started, stopped and supervised.    *)
(*                                                                         *)
(* Two threads act on the loggers: "main", which serves the commands of    *)
(* clients one after the other, and "monitor", which wakes up every ten    *)
(* seconds.  Both call loggers_global_start and loggers_global_stop.  Each *)
(* is a sequence of critical sections of lock_logger, and nothing but the  *)
(* value CHANGING of loggers_global_state, which only the monitor looks at *)
(* and only when it wakes up, keeps the two sequences apart.  A step of    *)
(* the model is one critical section.                                      *)
(*                                                                         *)
(* All enabled loggers are started in one section and stopped in one, so   *)
(* that STARTED is one flag; the bits that log_update_state recomputes are *)
(* sets of loggers.                                                        *)
(***************************************************************************)
EXTENDS Naturals

CONSTANTS
  Loggers,    \* the enabled loggers
  Storages,   \* the storages of the device
  None,       \* no storage
  AutoPath,   \* the log path "auto"
  LogPaths,   \* what systemloggers.LogPath may be: AutoPath or a storage
  AutoStart,  \* systemloggers.AutoStart
  Priority,   \* priority of each storage
  RunPaths,   \* log paths that clients name in :run:
  Tolerant,   \* LOGGER_ERROR_TOLERANT_COUNT
  Retries,    \* restarts that may fail before the monitor gives up
  LowCycles,  \* cycles of low free space before it restarts the loggers
  Commands,   \* which of CommandKinds clients send
  MaxCommands,\* bound: commands sent
  MaxFaults   \* bound: faults of the environment

(***************************************************************************)
(* The commands that change state, with ":stop:shutdown" apart; a signal   *)
(* that ends the daemon, and the end of the time it may be used.           *)
(***************************************************************************)
CommandKinds == {"run", "stop", "shutdown", "mount", "look", "end", "kill", "expire"}

MaxInt == 2147483647  \* the largest priority, which is an int

ASSUME LoggerControlAssumption ==
  /\ None \notin Storages /\ AutoPath \notin Storages /\ AutoPath # None
  /\ LogPaths \subseteq Storages \cup {AutoPath} /\ RunPaths \subseteq Storages \cup {AutoPath}
  /\ AutoStart \in BOOLEAN
  /\ Priority \in [Storages -> 0 .. MaxInt]
  /\ Tolerant \in Nat \ {0} /\ Retries \in Nat \ {0} /\ LowCycles \in Nat \ {0}
  /\ Commands \subseteq CommandKinds
  /\ MaxCommands \in Nat /\ MaxFaults \in Nat

VARIABLES
  gstate,   \* loggers_global_state
  started,  \* the STARTED bit of the loggers, not the STOPPED one
  logging,  \* loggers with the LOGGING bit
  fatal,    \* loggers with an OPEN, READ or WRITE error bit
  other,    \* loggers with a PRSTAT, ZOMBIE, DEFUNCT or MISSING error bit
  at,       \* loggers_global_storage
  errors,   \* loggers_error_counter
  shutdown, \* stop_by_shutdown
  done,     \* main asks the monitor to end
  proc,     \* the process and router thread of each logger
  failed,   \* loggers whose pipeinfo.error is set
  avail,    \* what statfs and the mount table say of each storage
  logPath,  \* systemloggers.LogPath
  pc,       \* the next critical section of each thread
  back,     \* where it returns to from a start or a stop
  path,     \* the log path it starts the loggers on
  seen,     \* local_state of the monitor
  restart,  \* restart_counter
  low,      \* lowfreespace_counter
  event,    \* the mount event that main handles
  snap,     \* its copy of the logging storage
  wanted,   \* what the last :run: or :stop: asked for
  commands, faults  \* how many there have been

bits == <<started, logging, fatal, other>>
shared == <<gstate, at, errors, shutdown, done>>
world == <<proc, failed, avail, logPath>>
locals == <<back, path, seen, restart, low, event, snap>>
counts == <<wanted, commands, faults>>
vars == <<bits, shared, world, pc, locals, counts>>

Threads == {"main", "monitor"}
NoEvent == [mounted |-> FALSE, storage |-> None]

(***************************************************************************)
(* A logger's process: none, one that logs, one that logs but is a zombie  *)
(* or whose log file or pipe is missing, one whose router thread has       *)
(* ended, and one that is gone while its pid is still recorded.            *)
(***************************************************************************)
ProcStates == {"none", "alive", "sick", "deaf", "dead"}
Running == {"alive", "sick", "deaf"}

Init ==
  /\ gstate = "stopped" /\ started = FALSE /\ logging = {} /\ fatal = {} /\ other = {}
  /\ at = None /\ errors = 0 /\ shutdown = FALSE /\ done = FALSE
  /\ proc = [l \in Loggers |-> "none"] /\ failed = {}
  /\ avail \in [Storages -> {"ok", "gone"}] /\ logPath \in LogPaths
  /\ pc = [main |-> "off", monitor |-> "gone"]
  /\ back = [t \in Threads |-> "off"] /\ path = [t \in Threads |-> logPath]
  /\ seen = "stopped" /\ restart = 0 /\ low = 0 /\ event = NoEvent /\ snap = None
  /\ wanted = "stop" /\ commands = 0 /\ faults = 0

\* loggers_logging_one, loggers_logging_all
LoggingOne == started /\ logging # {}
LoggingAll == started /\ Loggers # {} /\ logging = Loggers

\* storage_select_logging_path: the storages it may select; "auto" compares
\* their priorities with zero first.
Candidates(p, excluded) ==
  {s \in Storages \ {excluded} :
     avail[s] = "ok" /\ IF p = AutoPath THEN Priority[s] > 0 ELSE p = s}
Selected(p, excluded) ==
  {s \in Candidates(p, excluded) :
     \A r \in Candidates(p, excluded) : Priority[r] <= Priority[s]}

Goto(t, label) == pc' = [pc EXCEPT ![t] = label]

\* Call loggers_global_stop or loggers_global_start, and then go on at a label.
CallStop(t, label) ==
  /\ Goto(t, "stop") /\ back' = [back EXCEPT ![t] = label] /\ UNCHANGED path
CallStart(t, p, label) ==
  /\ Goto(t, "start") /\ back' = [back EXCEPT ![t] = label]
  /\ path' = [path EXCEPT ![t] = p]
-----------------------------------------------------------------------------
\* loggers_update_state: pipeinfo.error adds a bit, the other bits are recomputed.
UpdateState ==
  /\ logging' = {l \in Loggers : proc[l] \notin {"deaf", "dead"}}
  /\ other' = {l \in Loggers : proc[l] \in {"sick", "deaf", "dead"}}
  /\ fatal' = fatal \cup failed
  /\ UNCHANGED started

\* loggers_stop: error bits stay, and the pid of a process that is gone.
StopLoggers ==
  /\ started' = FALSE /\ logging' = {} /\ at' = None
  /\ proc' = [l \in Loggers |-> IF proc[l] \in Running THEN "none" ELSE proc[l]]
  /\ UNCHANGED <<fatal, other, failed, avail, logPath>>

(***************************************************************************)
(* loggers_start on storage s; the log_start of the loggers in bad fails,  *)
(* before or after it has a process.  log_start of a logger whose process  *)
(* runs closes the pipe under its router and does no more.                 *)
(***************************************************************************)
StartLoggers(s, bad) ==
  /\ started' = TRUE /\ logging' = {} /\ at' = s /\ errors' = 0
  /\ \E early \in SUBSET bad :
       proc' = [l \in Loggers |-> IF proc[l] \in Running THEN "deaf"
                                  ELSE IF l \notin bad THEN "alive"
                                  ELSE IF l \in early THEN proc[l] ELSE "none"]
  /\ failed' = {l \in failed : proc[l] \in Running \/ l \in bad}
  /\ UNCHANGED <<fatal, other, avail, logPath>>
-----------------------------------------------------------------------------
(***************************************************************************)
(* loggers_global_stop                                                     *)
(***************************************************************************)
StopMark(t) ==
  /\ pc[t] = "stop" /\ Goto(t, "stopUpdate")
  /\ gstate' = "changing"
  /\ UNCHANGED <<bits, at, errors, shutdown, done, world, locals, counts>>

StopUpdate(t) ==
  /\ pc[t] = "stopUpdate" /\ Goto(t, "stopAll")
  /\ UpdateState
  /\ UNCHANGED <<shared, world, locals, counts>>

StopAll(t) ==
  /\ pc[t] = "stopAll" /\ Goto(t, "stopDone")
  /\ StopLoggers
  /\ UNCHANGED <<gstate, errors, shutdown, done, locals, counts>>

StopDone(t) ==
  /\ pc[t] = "stopDone" /\ Goto(t, back[t])
  /\ gstate' = "stopped"
  /\ UNCHANGED <<bits, at, errors, shutdown, done, world, locals, counts>>

(***************************************************************************)
(* loggers_global_start                                                    *)
(***************************************************************************)
StartMark(t) ==
  /\ pc[t] = "start" /\ Goto(t, "startClear")
  /\ gstate' = "changing"
  /\ UNCHANGED <<bits, at, errors, shutdown, done, world, locals, counts>>

StartClear(t) ==
  /\ pc[t] = "startClear" /\ Goto(t, "startUpdate")
  /\ fatal' = {} /\ other' = {}
  /\ UNCHANGED <<started, logging, shared, world, locals, counts>>

StartUpdate(t) ==
  /\ pc[t] = "startUpdate" /\ Goto(t, "startIfAll")
  /\ UpdateState
  /\ UNCHANGED <<shared, world, locals, counts>>

StartIfAll(t) ==
  /\ pc[t] = "startIfAll" /\ Goto(t, IF LoggingAll THEN "startDone" ELSE "startIfOne")
  /\ UNCHANGED <<bits, shared, world, locals, counts>>

StartIfOne(t) ==
  /\ pc[t] = "startIfOne" /\ Goto(t, IF LoggingOne THEN "startStop" ELSE "startAll")
  /\ UNCHANGED <<bits, shared, world, locals, counts>>

StartStop(t) ==
  /\ pc[t] = "startStop" /\ Goto(t, "startAll")
  /\ StopLoggers
  /\ UNCHANGED <<gstate, errors, shutdown, done, locals, counts>>

StartAll(t) ==
  /\ pc[t] = "startAll"
  /\ \/ /\ Selected(path[t], None) = {}
        /\ Goto(t, "startFailed")
        /\ UNCHANGED <<bits, at, errors, world, faults>>
     \/ \E s \in Selected(path[t], None) : \* there is no making its log directory
          /\ faults < MaxFaults /\ faults' = faults + 1
          /\ at' = s
          /\ Goto(t, "startFailed")
          /\ UNCHANGED <<bits, errors, world>>
     \/ \E s \in Selected(path[t], None), bad \in SUBSET Loggers :
          /\ bad = {} \/ faults < MaxFaults
          /\ faults' = IF bad = {} THEN faults ELSE faults + 1
          /\ StartLoggers(s, bad)
          /\ Goto(t, "startDone")
  /\ UNCHANGED <<gstate, shutdown, done, locals, wanted, commands>>

Outcome_Kept(label) == IF label = "startDone" THEN "started" ELSE gstate
Outcome(label) == IF label = "startDone" THEN "started" ELSE "stopped"

StartDone(t) ==
  /\ pc[t] \in {"startDone", "startFailed"} /\ Goto(t, back[t])
  /\ gstate' = Outcome(pc[t])
  /\ UNCHANGED <<bits, at, errors, shutdown, done, world, locals, counts>>

GlobalStop(t) == StopMark(t) \/ StopUpdate(t) \/ StopAll(t) \/ StopDone(t)
GlobalStart(t) ==
  \/ StartMark(t) \/ StartClear(t) \/ StartUpdate(t) \/ StartIfAll(t) \/ StartIfOne(t)
  \/ StartStop(t) \/ StartAll(t) \/ StartDone(t)
-----------------------------------------------------------------------------
(***************************************************************************)
(* thread_monitor_main: one cycle, from the wait to the next.              *)
(***************************************************************************)
Monitor == "monitor"
AtMonitor(label) == pc[Monitor] = label

MonitorTop ==
  /\ AtMonitor("top") /\ Goto(Monitor, IF done THEN "gone" ELSE "asleep")
  /\ UNCHANGED <<bits, shared, world, locals, counts>>

MonitorWake ==
  /\ AtMonitor("asleep")
  /\ seen' = gstate
  /\ Goto(Monitor, IF gstate = "changing" THEN "top" ELSE "update")
  /\ UNCHANGED <<bits, shared, world, back, path, restart, low, event, snap, counts>>

MonitorUpdate ==
  /\ AtMonitor("update")
  /\ UpdateState
  /\ \/ seen = "stopped" /\ restart > 0 /\ CallStart(Monitor, logPath, "retried")
        /\ UNCHANGED restart
     \/ seen = "stopped" /\ restart = 0 /\ Goto(Monitor, "againIfOne")
        /\ UNCHANGED <<restart, back, path>>
     \/ seen # "stopped" /\ restart' = 0 /\ Goto(Monitor, "ifFatal")
        /\ UNCHANGED <<back, path>>
     \/ "expire" \in Commands /\ Goto(Monitor, "expired") /\ UNCHANGED <<restart, back, path>>
  /\ UNCHANGED <<shared, world, seen, low, event, snap, counts>>

Expired ==
  /\ AtMonitor("expired")
  /\ IF LoggingOne THEN CallStop(Monitor, "exit")
                   ELSE Goto(Monitor, "exit") /\ UNCHANGED <<back, path>>
  /\ UNCHANGED <<bits, shared, world, seen, restart, low, event, snap, counts>>

\* The loggers cannot be started: after some attempts the monitor gives up.
NextRetry_Endless == IF gstate # "stopped" THEN 0 ELSE restart + 1
NextRetry == IF gstate # "stopped" \/ restart + 1 >= Retries THEN 0 ELSE restart + 1

Retried ==
  /\ AtMonitor("retried") /\ Goto(Monitor, "top")
  /\ restart' = NextRetry
  /\ UNCHANGED <<bits, shared, world, back, path, seen, low, event, snap, counts>>

AgainIfOne_Not ==
  /\ AtMonitor("againIfOne") /\ Goto(Monitor, "top")
  /\ UNCHANGED <<bits, shared, world, locals, counts>>
AgainIfOne ==
  /\ AtMonitor("againIfOne")
  /\ IF LoggingOne THEN CallStop(Monitor, "top")
                   ELSE Goto(Monitor, "top") /\ UNCHANGED <<back, path>>
  /\ UNCHANGED <<bits, shared, world, seen, restart, low, event, snap, counts>>

\* The test of one cause for a restart, and where to go on without it.
RestartIf(cause, label) ==
  IF cause THEN CallStop(Monitor, "restart")
           ELSE Goto(Monitor, label) /\ UNCHANGED <<back, path>>

IfFatal ==
  /\ AtMonitor("ifFatal") /\ RestartIf(fatal # {}, "ifError")
  /\ errors' = IF fatal # {} THEN 0 ELSE errors
  /\ UNCHANGED <<bits, gstate, at, shutdown, done, world, seen, restart, low, event, snap, counts>>

\* loggers_have_error
HaveError_FatalOnly == fatal # {}
HaveError == fatal \cup other # {}

TooManyErrors == HaveError /\ errors + 1 >= Tolerant

IfError ==
  /\ AtMonitor("ifError") /\ RestartIf(TooManyErrors, "ifBark")
  /\ errors' = IF ~HaveError \/ TooManyErrors THEN 0 ELSE errors + 1
  /\ UNCHANGED <<bits, gstate, at, shutdown, done, world, seen, restart, low, event, snap, counts>>

\* Every 120 cycles: log_watchdog of some logger may tell that it is stuck.
IfBark ==
  /\ AtMonitor("ifBark")
  /\ \E bark \in BOOLEAN :
       /\ bark => faults < MaxFaults
       /\ faults' = IF bark THEN faults + 1 ELSE faults
       /\ RestartIf(bark, "ifOne")
  /\ UNCHANGED <<bits, shared, world, seen, restart, low, event, snap, wanted, commands>>

IfOne ==
  /\ AtMonitor("ifOne") /\ Goto(Monitor, IF LoggingOne THEN "ifStorage" ELSE "recheck")
  /\ UNCHANGED <<bits, shared, world, locals, counts>>

Recheck_Always ==
  /\ AtMonitor("recheck") /\ RestartIf(TRUE, "top")
  /\ UNCHANGED <<bits, shared, world, seen, restart, low, event, snap, counts>>
Recheck_Not ==
  /\ AtMonitor("recheck") /\ RestartIf(FALSE, "top")
  /\ UNCHANGED <<bits, shared, world, seen, restart, low, event, snap, counts>>
Recheck ==
  /\ AtMonitor("recheck") /\ RestartIf(gstate = "started", "top")
  /\ UNCHANGED <<bits, shared, world, seen, restart, low, event, snap, counts>>

LeaveStorage_LowOnly == avail[at] = "low" /\ low + 1 >= LowCycles
LeaveStorage == avail[at] = "gone" \/ (avail[at] = "low" /\ low + 1 >= LowCycles)

IfStorage ==
  /\ AtMonitor("ifStorage")
  /\ IF at = None
     THEN Goto(Monitor, "top") /\ UNCHANGED <<low, back, path>>
     ELSE /\ low' = IF avail[at] = "low" /\ ~LeaveStorage THEN low + 1 ELSE 0
          /\ RestartIf(LeaveStorage, "rotation")
  /\ UNCHANGED <<bits, shared, world, seen, restart, event, snap, counts>>

(***************************************************************************)
(* loggers_process_rotation_and_limitation.  A logger whose process is     *)
(* gone, and whose file is large enough to rotate, is started again, on    *)
(* its own and without its bits; its log_start may fail like any other.    *)
(***************************************************************************)
Rotate ==
  /\ AtMonitor("rotation") /\ Goto(Monitor, "top")
  /\ \E again \in SUBSET {l \in Loggers : started /\ proc[l] = "dead"} :
       \E bad \in SUBSET again :
         /\ bad = {} \/ faults < MaxFaults
         /\ faults' = IF bad = {} THEN faults ELSE faults + 1
         /\ \E early \in SUBSET bad :
              proc' = [l \in Loggers |-> IF l \in early \/ l \notin again THEN proc[l]
                                         ELSE IF l \in bad THEN "none" ELSE "alive"]
         /\ failed' = failed \ (again \ bad)
  /\ UNCHANGED <<bits, shared, avail, logPath, locals, wanted, commands>>

Restart ==
  /\ AtMonitor("restart") /\ CallStart(Monitor, logPath, "restarted")
  /\ UNCHANGED <<bits, shared, world, seen, restart, low, event, snap, counts>>

Restarted ==
  /\ AtMonitor("restarted") /\ Goto(Monitor, "top")
  /\ restart' = IF gstate = "stopped" THEN restart + 1 ELSE 0
  /\ UNCHANGED <<bits, shared, world, back, path, seen, low, event, snap, counts>>

MonitorStep ==
  \/ MonitorTop \/ MonitorWake \/ MonitorUpdate \/ Expired \/ Retried \/ AgainIfOne
  \/ IfFatal \/ IfError \/ IfBark \/ IfOne \/ Recheck \/ IfStorage \/ Rotate \/ Restart \/ Restarted
  \/ GlobalStop(Monitor) \/ GlobalStart(Monitor)
-----------------------------------------------------------------------------
(***************************************************************************)
(* logctl_main: the service starts, serves commands, and ends.             *)
(***************************************************************************)
Main == "main"
AtMain(label) == pc[Main] = label

\* loggers_init: the STARTED bits are gone, loggers_global_state is not.
Launch ==
  /\ AtMain("off")
  /\ started' = FALSE /\ logging' = {} /\ fatal' = {} /\ other' = {} /\ at' = None
  /\ IF AutoStart
     THEN /\ CallStart(Main, logPath, "ran")
          /\ shutdown' = FALSE /\ wanted' = "run"
     ELSE Goto(Main, "ready") /\ UNCHANGED <<back, path, shutdown, wanted>>
  /\ UNCHANGED <<gstate, errors, done, world, seen, restart, low, event, snap, commands, faults>>

\* The monitor is created once the loggers that start automatically have.
Spawn ==
  /\ AtMain("ready") /\ AtMonitor("gone")
  /\ Goto(Monitor, "top")
  /\ restart' = 0 /\ low' = 0 /\ seen' = "stopped"
  /\ UNCHANGED <<bits, shared, world, back, path, event, snap, counts>>

Receive(kind) ==
  /\ AtMain("ready") /\ ~AtMonitor("gone")
  /\ kind \in Commands /\ commands < MaxCommands
  /\ commands' = commands + 1 /\ UNCHANGED faults

CommandStop(kind) ==
  /\ Receive(kind) /\ kind \in {"stop", "shutdown"}
  /\ CallStop(Main, IF kind = "shutdown" THEN "noteShutdown" ELSE "ready")
  /\ wanted' = "stop"
  /\ UNCHANGED <<bits, shared, world, seen, restart, low, event, snap>>

NoteShutdown ==
  /\ AtMain("noteShutdown") /\ Goto(Main, "ready")
  /\ shutdown' = TRUE
  /\ UNCHANGED <<bits, gstate, at, errors, done, world, locals, counts>>

CommandRun(p) ==
  /\ Receive("run")
  /\ CallStart(Main, p, "ran")
  /\ shutdown' = FALSE /\ wanted' = "run" /\ event' = NoEvent
  /\ UNCHANGED <<bits, gstate, at, errors, done, world, seen, restart, low, snap>>

Ran ==
  /\ AtMain("ran") /\ Goto(Main, IF gstate = "stopped" THEN "ready" ELSE "files")
  /\ UNCHANGED <<bits, shared, world, locals, counts>>

\* No logger has the name of a log file: taken as a failure.  A log_start that
\* failed may have left one.
Files ==
  /\ AtMain("files")
  /\ \/ Goto(Main, "ready") /\ UNCHANGED <<back, path>>
     \/ (\A l \in Loggers : proc[l] = "none") /\ CallStop(Main, "ready")
  /\ UNCHANGED <<bits, shared, world, seen, restart, low, event, snap, counts>>

\* :islogging: and :getpath: refresh the bits.
CommandLook ==
  /\ Receive("look") /\ UpdateState
  /\ UNCHANGED <<shared, world, pc, locals, wanted>>

\* :endserver: the monitor is joined; the loggers go on.  The mount event was
\* handled before, and is not what a new service starts its loggers for.
CommandEnd ==
  /\ Receive("end") /\ Goto(Main, "join")
  /\ done' = TRUE /\ event' = NoEvent
  /\ UNCHANGED <<bits, gstate, at, errors, shutdown, world, back, path, seen, restart, low, snap,
                 wanted>>

Join ==
  /\ AtMain("join") /\ AtMonitor("gone") /\ Goto(Main, "off")
  /\ done' = FALSE
  /\ UNCHANGED <<bits, gstate, at, errors, shutdown, world, locals, counts>>
-----------------------------------------------------------------------------
(***************************************************************************)
(* handle_local_command_mount: a storage was mounted, or is about to be    *)
(* unmounted.                                                              *)
(***************************************************************************)
CommandMount(s, mounted) ==
  /\ Receive("mount") /\ Goto(Main, "mountUpdate")
  /\ event' = [mounted |-> mounted, storage |-> s]
  /\ UNCHANGED <<bits, shared, world, back, path, seen, restart, low, snap, wanted>>

MountUpdate ==
  /\ AtMain("mountUpdate") /\ Goto(Main, "mountIfOne")
  /\ UpdateState
  /\ UNCHANGED <<shared, world, locals, counts>>

MountIfOne ==
  /\ AtMain("mountIfOne") /\ Goto(Main, IF LoggingOne THEN "mountSnap" ELSE "mount")
  /\ snap' = None
  /\ UNCHANGED <<bits, shared, world, back, path, seen, restart, low, event, counts>>

MountSnap ==
  /\ AtMain("mountSnap") /\ Goto(Main, "mount")
  /\ snap' = at
  /\ UNCHANGED <<bits, shared, world, back, path, seen, restart, low, event, counts>>

\* With the log path "auto": is it to change?
MountChanges ==
  IF ~LoggingOne THEN AutoStart
  ELSE IF event.mounted THEN snap # None /\ Priority[event.storage] > Priority[snap]
  ELSE snap \in {None, event.storage}

MountRuns == event.mounted /\ AutoStart /\ ~LoggingOne /\ logPath = event.storage
MountStops == ~event.mounted /\ LoggingOne /\ snap = event.storage

Mount ==
  /\ AtMain("mount")
  /\ \/ /\ ~shutdown /\ logPath # AutoPath /\ MountRuns
        /\ CallStart(Main, logPath, "ran") /\ wanted' = "run"
     \/ /\ ~shutdown /\ logPath # AutoPath /\ MountStops
        /\ CallStop(Main, "ready") /\ wanted' = "stop"
     \/ /\ ~shutdown /\ logPath = AutoPath /\ MountChanges
        /\ Goto(Main, "mountChange") /\ UNCHANGED <<back, path, wanted>>
     \/ /\ shutdown \/ ~(IF logPath = AutoPath THEN MountChanges ELSE MountRuns \/ MountStops)
        /\ Goto(Main, "ready") /\ UNCHANGED <<back, path, wanted>>
  /\ UNCHANGED <<bits, shared, world, seen, restart, low, event, snap, commands, faults>>

MountChange ==
  /\ AtMain("mountChange")
  /\ IF LoggingOne THEN CallStop(Main, "mountRun")
                   ELSE Goto(Main, "mountRun") /\ UNCHANGED <<back, path>>
  /\ UNCHANGED <<bits, shared, world, seen, restart, low, event, snap, counts>>

MountPaths_All ==
  LET selected == Selected(AutoPath, None) IN IF selected = {} THEN {AutoPath} ELSE selected

\* When no storage can be selected the path stays what it was: "auto".
MountPaths ==
  LET selected == Selected(AutoPath, IF event.mounted THEN None ELSE event.storage)
  IN IF selected = {} THEN {AutoPath} ELSE selected

MountRun ==
  /\ AtMain("mountRun")
  /\ \E p \in MountPaths : CallStart(Main, p, "ran")
  /\ shutdown' = FALSE /\ wanted' = "run"
  /\ UNCHANGED <<bits, gstate, at, errors, done, world, seen, restart, low, event, snap,
                 commands, faults>>

MainStep ==
  \/ NoteShutdown \/ Ran \/ Files \/ Spawn \/ Join
  \/ MountUpdate \/ MountIfOne \/ MountSnap \/ Mount \/ MountChange \/ MountRun
  \/ GlobalStop(Main) \/ GlobalStart(Main)

Command ==
  \/ Launch \/ CommandLook \/ CommandEnd
  \/ \E kind \in {"stop", "shutdown"} : CommandStop(kind)
  \/ \E p \in RunPaths : CommandRun(p)
  \/ \E s \in Storages, mounted \in BOOLEAN : CommandMount(s, mounted)
-----------------------------------------------------------------------------
(***************************************************************************)
(* SIGTERM or SIGHUP: sig_exit runs loggers_global_stop on the thread that *)
(* is interrupted.  lock_logger is not recursive: a thread that is         *)
(* interrupted inside a critical section never leaves it.                  *)
(***************************************************************************)
Unlocked == {"top", "asleep", "restart", "ready", "join", "noteShutdown", "mountRun"}
Handling == {"stop", "stopUpdate", "stopAll", "stopDone"}

Signal(t) ==
  /\ "kill" \in Commands
  /\ pc[t] \notin {"off", "gone"} /\ \A x \in Threads : back[x] # "exit"
  /\ back' = [back EXCEPT ![t] = "exit"]
  /\ \/ Goto(t, "stop")
     \/ pc[t] \notin Unlocked /\ Goto(t, "stuck")
  /\ UNCHANGED <<bits, shared, world, path, seen, restart, low, event, snap, counts>>

Exit(t) ==
  /\ pc[t] = "exit" /\ pc' = [x \in Threads |-> "exited"]
  /\ UNCHANGED <<bits, shared, world, locals, counts>>

(***************************************************************************)
(* What happens to the processes of the loggers and to the storages.       *)
(***************************************************************************)
Fault ==
  /\ faults < MaxFaults /\ faults' = faults + 1
  /\ \/ \E l \in Loggers : \* it dies, and its router may have read the end of the pipe
          /\ proc[l] \in Running /\ proc' = [proc EXCEPT ![l] = "dead"]
          /\ failed' \in {failed, failed \cup {l}}
          /\ UNCHANGED avail
     \/ \E l \in Loggers :
          /\ proc[l] = "alive" /\ proc' = [proc EXCEPT ![l] = "sick"]
          /\ UNCHANGED <<failed, avail>>
     \/ \E l \in Loggers : \* its router ends on an open, read or write error
          /\ proc[l] \in {"alive", "sick"} /\ proc' = [proc EXCEPT ![l] = "deaf"]
          /\ failed' = failed \cup {l}
          /\ UNCHANGED avail
     \/ \E s \in Storages, a \in {"ok", "low", "gone"} :
          /\ a # avail[s] /\ avail' = [avail EXCEPT ![s] = a]
          /\ UNCHANGED <<proc, failed>>
  /\ UNCHANGED <<bits, shared, logPath, pc, locals, wanted, commands>>

LockFree == \A t \in Threads : pc[t] # "stuck"

Next ==
  \/ LockFree /\ (MainStep \/ MonitorStep \/ Command)
  \/ \E t \in Threads : (LockFree /\ Signal(t)) \/ Exit(t)
  \/ Fault

(***************************************************************************)
(* Both threads run: lock_logger is held for a bounded time, and the wait  *)
(* of the monitor has a timeout.  Nothing is assumed of clients, signals   *)
(* and faults.                                                             *)
(***************************************************************************)
Fairness ==
  /\ WF_vars(LockFree /\ MainStep)
  /\ WF_vars(LockFree /\ MonitorStep)
  /\ \A t \in Threads : WF_vars(Exit(t))

Spec == Init /\ [][Next]_vars /\ Fairness
-----------------------------------------------------------------------------
StopLabels == {"stopUpdate", "stopAll", "stopDone"}
StartLabels == {"startClear", "startUpdate", "startIfAll", "startIfOne", "startStop", "startAll",
                "startDone", "startFailed"}
MainLabels == {"off", "ready", "noteShutdown", "ran", "files", "join", "mountUpdate", "mountIfOne",
               "mountSnap", "mount", "mountChange", "mountRun"}
MonitorLabels == {"gone", "top", "asleep", "update", "expired", "retried", "againIfOne", "ifFatal", "ifError",
                  "ifBark", "ifOne", "recheck", "ifStorage", "rotation", "restart",
                  "restarted"}
Labels == {"stop", "start", "exit", "stuck", "exited"} \cup StopLabels \cup StartLabels

\* Types of all variables, and which steps each thread may be at.
TypeOK ==
  /\ gstate \in {"stopped", "changing", "started"} /\ seen \in {"stopped", "changing", "started"}
  /\ started \in BOOLEAN /\ logging \subseteq Loggers /\ fatal \subseteq Loggers
  /\ other \subseteq Loggers /\ failed \subseteq Loggers
  /\ at \in Storages \cup {None} /\ snap \in Storages \cup {None}
  /\ errors \in 0 .. Tolerant /\ restart \in 0 .. Retries /\ low \in 0 .. LowCycles
  /\ shutdown \in BOOLEAN /\ done \in BOOLEAN
  /\ proc \in [Loggers -> ProcStates] /\ avail \in [Storages -> {"ok", "low", "gone"}]
  /\ logPath \in LogPaths
  /\ pc \in [Threads -> Labels \cup MainLabels \cup MonitorLabels]
  /\ pc[Main] \notin MonitorLabels /\ pc[Monitor] \notin MainLabels
  /\ back \in [Threads -> {"exit"} \cup MainLabels \cup MonitorLabels]
  /\ back[Main] \notin MonitorLabels
  /\ back[Monitor] \in {"off", "exit"} \cup MonitorLabels
  /\ path \in [Threads -> Storages \cup {AutoPath}]
  /\ event \in [mounted : BOOLEAN, storage : Storages \cup {None}]
  /\ wanted \in {"run", "stop"} /\ commands \in 0 .. MaxCommands /\ faults \in 0 .. MaxFaults

Changing(t) == pc[t] \in StopLabels \cup StartLabels

(***************************************************************************)
(* The state says CHANGING only while a thread is about to say otherwise,  *)
(* however starts and stops overlap: the monitor, which skips its cycle    *)
(* when it reads CHANGING, does not skip for ever.                         *)
(***************************************************************************)
ChangingEnds ==
  gstate = "changing" =>
    \E t \in Threads : Changing(t) \/ pc[t] \in {"stop", "stuck", "exited"}

(***************************************************************************)
(* The monitor never undoes a stop that has stopped the loggers.  It reads *)
(* the state, then whether a logger logs, and has to read the state again  *)
(* not to take a stop in between for a failure.  That is enough until      *)
(* something fails, if no stop and run fall between its two readings, and  *)
(* if it has not stopped itself what a run was just starting.              *)
(***************************************************************************)
StopHolds ==
  [][StartAll(Monitor) /\ started' /\ faults' = 0 =>
       wanted = "run" \/ pc[Main] \in {"stop", "stopUpdate", "stopAll"}]_vars

(***************************************************************************)
(* Starts and stops of the two threads may overlap and leave the state at  *)
(* odds with the loggers.  The monitor repairs that ("loggers stopped      *)
(* abnormally", "should be stopped but someone is still logging").         *)
(***************************************************************************)
StartedRight == <>[](gstate = "started" => started)
StoppedRight ==
  <>[](gstate = "stopped" => ~started \/ \A l \in Loggers : proc[l] \notin {"alive", "sick"})

(***************************************************************************)
(* Loggers are restarted until all those that have a process log without   *)
(* an error, or are stopped, as long as the service is there to do it.     *)
(* One that failed to start has none, and is not noticed:                  *)
(* log_update_state takes no pid for no error.                             *)
(***************************************************************************)
Recovers ==
  <>[](gstate = "started" /\ ~AtMonitor("gone") =>
         \A l \in Loggers : proc[l] \in {"alive", "none"})

(***************************************************************************)
(* A storage that is unmounted or stays low on space does not go on being  *)
(* logged to, as long as the service is there to notice.                   *)
(***************************************************************************)
LeavesStorage ==
  <>[](gstate = "started" /\ ~AtMonitor("gone") => at # None /\ avail[at] = "ok")

(***************************************************************************)
(* Loggers that are moved off a storage about to be unmounted do not come  *)
(* back to it, although it may still be mounted, if there was another to   *)
(* select; loggers_start selects once more, without the exclusion, only    *)
(* for the path "auto", or if the storage has gone in between.             *)
(***************************************************************************)
EjectedAvoided ==
  [][StartAll(Main) /\ event # NoEvent /\ ~event.mounted /\ faults = 0 =>
       at' # event.storage \/ Candidates(AutoPath, event.storage) = {}]_vars

\* The daemon exits on SIGTERM.
ExitsOnSignal == \A t \in Threads : back[t] = "exit" ~> pc[t] = "exited"
=============================================================================
