------------------------------ MODULE Session -------------------------------
(***************************************************************************)
(* The session number of logctl: every start of the loggers takes the next *)
(* number, which is kept in memory and in the file .session.  A log file's *)
(* name is its storage, the session number, a serial number that restarts  *)
(* with the session, and the time; generate_new_file opens that name       *)
(* without O_EXCL, so only the name keeps an older log from being          *)
(* overwritten.                                                            *)
(*                                                                         *)
(* The operations hold lock_logger, so they do not interleave; the daemon  *)
(* may be killed between any two of their writes.                          *)
(***************************************************************************)
EXTENDS Integers, Sequences, SequencesExt

CONSTANTS
  Storages,   \* where logs may be kept
  Removable,  \* the ones that come and go
  MaxSn,      \* 9999: the last session number
  MaxSerial,  \* 9999: the last serial number
  PerSecond,  \* starts and new files in one second
  MaxTime,    \* bound: the seconds of a run
  Turns,      \* bound: how often the clock is set back
  Failures    \* "save", "load", "tear": what may go wrong with the file

ASSUME SessionAssumption ==
  /\ Removable \subseteq Storages /\ Failures \subseteq {"save", "load", "tear"}
  /\ MaxSn \in Nat \ {0, 1} /\ MaxSerial \in Nat /\ PerSecond \in Nat
  /\ PerSecond < MaxSn /\ PerSecond <= MaxSerial
  /\ MaxTime \in Nat \ {0} /\ Turns \in Nat

Nowhere == "nowhere"
None == -1    \* there is no file
Empty == -2   \* the file is empty
Bad == -3     \* the file has another size, another magic, or a number out of range

VARIABLES
  pc,       \* where the daemon is between two writes
  file,     \* .session: its number, or None, Empty or Bad
  session,  \* session.entry_count
  path,     \* loggers_global_logpath
  serial,   \* the logger's serialno
  names,    \* the log files there are
  mounted,  \* the storages there are
  time, spent, turns,  \* the clock, and what this second was used for
  saved,    \* the last write of the file went through
  lost,     \* the row of session numbers was broken from outside
  wrapped,  \* a number has wrapped
  recent    \* the last MaxSn - 1 numbers that were handed out

daemon == <<pc, session, path, serial>>
clock == <<time, spent, turns>>
ghosts == <<saved, lost, wrapped, recent>>
vars == <<daemon, file, names, mounted, clock, ghosts>>

Init ==
  /\ pc = "down" /\ file = None /\ session = 0 /\ path = Nowhere /\ serial = 0
  /\ names = {} /\ mounted = Storages
  /\ time = 1 /\ spent = 0 /\ turns = 0
  /\ saved = TRUE /\ lost = FALSE /\ wrapped = FALSE /\ recent = <<>>
-----------------------------------------------------------------------------
(***************************************************************************)
(* The file.  session_load_nolock resets a file it cannot use, but writes  *)
(* the reset behind what it has read: only an empty file is mended.        *)
(***************************************************************************)
Numbered == file \in 0..MaxSn
Repaired == IF file \in {None, Empty} THEN 0 ELSE file
Written_Behind(n) == IF file \in {None, Empty} THEN n ELSE file
Written(n) == n   \* session_save_nolock writes over the start of the file

\* session_init at the start of the daemon.
Load ==
  /\ pc = "down" /\ pc' = "stopped"
  /\ \/ /\ session' = (IF Numbered THEN file ELSE 0)
        /\ file' = Repaired
        /\ UNCHANGED <<saved, lost>>
     \/ /\ "load" \in Failures   \* neither opened nor reset
        /\ session' = 0 /\ saved' = FALSE /\ lost' = TRUE
        /\ UNCHANGED file
     \/ /\ "load" \in Failures   \* opened, not read: reset from the start
        /\ session' = 0 /\ lost' = TRUE /\ file' = 0
        /\ UNCHANGED saved
  /\ UNCHANGED <<path, serial, names, mounted, clock, wrapped, recent>>
-----------------------------------------------------------------------------
(***************************************************************************)
(* Start and stop.                                                         *)
(***************************************************************************)
Busy == spent < PerSecond /\ spent' = spent + 1 /\ UNCHANGED <<time, turns>>

NextSn_Late(n) == IF n > MaxSn THEN 1 ELSE n + 1
NextSn_Early(n) == IF n + 2 > MaxSn THEN 1 ELSE n + 1
NextSerial_Not(n) == 1
NextSn(n) == IF n + 1 > MaxSn THEN 1 ELSE n + 1
NextSerial(n) == IF n + 1 > MaxSerial THEN 1 ELSE n + 1
CurrentSn == IF session \in 1..MaxSn THEN session ELSE 1

\* loggers_start up to the opened session file; monitor restarts come here too.
Start(p) ==
  /\ pc \in {"stopped", "logging"} /\ p \in mounted /\ Busy
  /\ session' = NextSn(session) /\ path' = p
  /\ wrapped' = (wrapped \/ session = MaxSn)
  /\ \/ /\ pc' = "saving"
        /\ file' = IF file = None THEN Empty ELSE file
        /\ UNCHANGED <<saved, lost>>
     \/ /\ "save" \in Failures   \* the file cannot be opened
        /\ pc' = "starting" /\ saved' = FALSE /\ lost' = TRUE
        /\ UNCHANGED file
  /\ UNCHANGED <<serial, names, mounted, recent>>

Save ==
  /\ pc = "saving" /\ pc' = "starting"
  /\ recent' = Append(IF Len(recent) = MaxSn - 1 THEN Tail(recent) ELSE recent, session)
  /\ \/ file' = Written(session) /\ saved' = TRUE /\ UNCHANGED lost
     \/ "save" \in Failures /\ saved' = FALSE /\ lost' = TRUE /\ UNCHANGED file
  /\ UNCHANGED <<session, path, serial, names, mounted, clock, wrapped>>

\* The loggers are started.
Begin ==
  /\ pc = "starting" /\ pc' = "logging" /\ serial' = 0
  /\ UNCHANGED <<session, path, file, names, mounted, clock, ghosts>>

LogName == [path |-> path, sn |-> CurrentSn, serial |-> NextSerial(serial), time |-> time]

\* logger_common_generate_new_file, at the start of a logger and when it rotates.
NewFile ==
  /\ pc = "logging" /\ Busy
  /\ serial' = NextSerial(serial)
  /\ wrapped' = (wrapped \/ serial = MaxSerial)
  /\ names' = names \cup {LogName}
  /\ UNCHANGED <<pc, session, path, file, mounted, saved, lost, recent>>

Stop ==
  /\ pc = "logging" /\ pc' = "stopped" /\ path' = Nowhere
  /\ UNCHANGED <<session, serial, file, names, mounted, clock, ghosts>>
-----------------------------------------------------------------------------
(***************************************************************************)
(* :clearlog: with every logger stopped: the logs of the mounted storages  *)
(* go, then the file, then the number in memory.                           *)
(***************************************************************************)
ClearLogs ==
  /\ pc = "stopped" /\ pc' = "clearing"
  /\ names' = {n \in names : n.path \notin mounted}
  /\ UNCHANGED <<session, path, serial, file, mounted, clock, ghosts>>

Unlink ==
  /\ pc = "clearing" /\ pc' = "unlinked"
  /\ file' = None /\ saved' = TRUE /\ recent' = <<>>
  /\ lost' = (lost \/ names # {})
  /\ UNCHANGED <<session, path, serial, names, mounted, clock, wrapped>>

ResetSn ==
  /\ pc = "unlinked" /\ pc' = "stopped" /\ session' = 0
  /\ UNCHANGED <<path, serial, file, names, mounted, clock, ghosts>>
-----------------------------------------------------------------------------
(***************************************************************************)
(* What happens around the daemon.  A relaunch and a remount take longer   *)
(* than the second a log file's name tells apart.                          *)
(***************************************************************************)
Passes == time < MaxTime /\ time' = time + 1 /\ spent' = 0 /\ UNCHANGED turns

Tick == Passes /\ UNCHANGED <<daemon, file, names, mounted, ghosts>>

TurnBack ==
  /\ turns < Turns /\ turns' = turns + 1 /\ time' \in 1..(time - 1) /\ spent' = 0
  /\ UNCHANGED <<daemon, file, names, mounted, ghosts>>

\* The file is damaged: another size, another magic, a number out of range.
Tear ==
  /\ "tear" \in Failures /\ file # Bad /\ pc # "saving"
  /\ file' = Bad /\ saved' = FALSE /\ lost' = TRUE
  /\ UNCHANGED <<daemon, names, mounted, clock, wrapped, recent>>

Crash ==
  /\ pc # "down" /\ pc' = "down" /\ session' = 0 /\ path' = Nowhere /\ serial' = 0
  /\ Passes
  /\ UNCHANGED <<file, names, mounted, ghosts>>

Mount(p) ==
  /\ p \in Removable \ mounted /\ mounted' = mounted \cup {p} /\ Passes
  /\ UNCHANGED <<daemon, file, names, ghosts>>

Unmount(p) ==
  /\ p \in (Removable \cap mounted) \ {path} /\ mounted' = mounted \ {p}
  /\ UNCHANGED <<daemon, file, names, clock, ghosts>>

Next ==
  \/ Load \/ Save \/ Begin \/ NewFile \/ Stop
  \/ ClearLogs \/ Unlink \/ ResetSn
  \/ Tick \/ TurnBack \/ Tear \/ Crash
  \/ \E p \in Storages : Start(p) \/ Mount(p) \/ Unmount(p)

Spec == Init /\ [][Next]_vars
-----------------------------------------------------------------------------
(***************************************************************************)
(* Properties.                                                             *)
(***************************************************************************)

\* The types of the variables; in particular, while the loggers run the
\* session's number is one a name has room for, and the path is mounted.
TypeOK ==
  /\ pc \in {"down", "stopped", "saving", "starting", "logging", "clearing", "unlinked"}
  /\ file \in {None, Empty, Bad} \cup 0..MaxSn
  /\ session \in 0..MaxSn /\ serial \in 0..MaxSerial
  /\ path \in Storages \cup {Nowhere} /\ mounted \in SUBSET Storages
  /\ pc = "logging" => session # 0 /\ path \in mounted
  /\ names \subseteq [path : Storages, sn : 1..MaxSn, serial : 1..MaxSerial, time : 1..MaxTime]
  /\ time \in 1..MaxTime /\ spent \in 0..PerSecond /\ turns \in 0..Turns
  /\ saved \in BOOLEAN /\ lost \in BOOLEAN /\ wrapped \in BOOLEAN
  /\ recent \in BoundedSeq(1..MaxSn, MaxSn - 1)

\* A crash while the loggers run costs no number: as long as the last write of
\* the file went through, the file holds the number in use, even if it was
\* damaged or could not be loaded before (session_save_nolock writes the whole
\* header from the start).
SavedIsUsed == pc = "logging" /\ saved => file = session

\* session_get_next_sn hands a number out again only after all the others,
\* across restarts and crashes at any point, unless the file was damaged, could not be
\* accessed, or was cleared while a storage with logs was away.
NumbersApart == [][Save => session \notin ToSet(recent) \/ lost']_vars

\* Two guards keep generate_new_file from opening a log that exists: it takes
\* a broken or wrapped row of numbers and a clock that was set back to have a
\* name again.
NamesApart == [][NewFile => LogName \notin names \/ (turns > 0 /\ (lost \/ wrapped'))]_vars
=============================================================================
