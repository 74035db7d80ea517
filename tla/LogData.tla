------------------------------ MODULE LogData ------------------------------
(***************************************************************************)
(* The log index of one logger: the ring that logctl.c keeps in the file   *)
(* ".<prefix>data.stt" of a log directory, and the log files it accounts   *)
(* for.                                                                    *)
(*                                                                         *)
(* A logger owns one directory.  lock_logger serialises the two operations *)
(* on the ring:                                                            *)
(*   - generate_new_file: create a log file, open the index (rebuilding it *)
(*     from a directory scan when it does not validate) and add the file;  *)
(*   - rotate_and_limit: open the index, bring the size of the head entry  *)
(*     up to date, remove files from the tail while the total is over the  *)
(*     limit or the storage is low on space, then rotate if the file that  *)
(*     is being logged is large enough.                                    *)
(* Both copy the header to memory, write slots as they go and write the    *)
(* header back last.  The router thread, which appends to the log file,    *)
(* takes no lock and runs between any two of those writes; so do the       *)
(* killer thread and the movelog command, which unlink files.              *)
(*                                                                         *)
(* Sizes are counted in units of which MB make one megabyte.               *)
(***************************************************************************)
EXTENDS Integers, Functions

CONSTANTS
  Files,        \* names a log file may get
  None,         \* no file: an empty name
  Count,        \* LOGDATA_COUNT, the number of slots of the ring
  MB,           \* units of size in a megabyte
  Limit,        \* limited_size_mb
  RotateSize,   \* rotate_size_mb, in units
  RemoveCounts, \* how many files one low-free-space request may remove
  MaxLen,       \* bound: a log file never grows past this size
  MaxCrashes,   \* bound: how often the daemon dies
  Faults        \* which of FaultKinds the environment may produce

(***************************************************************************)
(* crash:  the daemon dies, in the middle of an operation too;             *)
(* open:   logger_common_logdata_open fails (an I/O error, no descriptor); *)
(* move:   :movelog: unlinks a file that is not being logged;              *)
(* expire: the killer thread unlinks any file, for its age;                *)
(* race:   :movelog: classified the index while nothing was logging and    *)
(*         unlinks it after the logger has started, between any two steps  *)
(*         of an operation that has it open.                               *)
(***************************************************************************)
FaultKinds == {"crash", "open", "move", "expire", "race"}

ASSUME LogDataAssumption ==
  /\ None \notin Files
  /\ Count \in Nat /\ Count >= 2
  /\ MB \in Nat \ {0}
  /\ Limit \in Nat \ {0}
  /\ RotateSize \in Nat \ {0}
  /\ RemoveCounts \subseteq Nat \ {0}
  /\ MaxLen \in Nat /\ MaxCrashes \in Nat
  /\ Faults \subseteq FaultKinds

VARIABLES
  files,    \* the log files in the directory, each with its size
  linked,   \* the index file is in the directory, under its name
  ok,       \* it is, and it passes the checks of logdata_open
  dhdr,     \* the header stored in the index file
  slot,     \* the entries stored in the index file
  pc,       \* where the operation that holds lock_logger is
  op,       \* that operation: "new" or "limit"
  hdr,      \* its copy of the header, in memory
  todo,     \* directory entries that a rebuild has still to scan
  want,     \* files it still has to remove for the sake of free space
  stopped,  \* the logger's state has the STOPPED bit
  logging,  \* log_filename
  writer,   \* the file the router thread has open
  rotated,  \* the router thread is told to (re)open log_filename
  crashes   \* how often the daemon has died

index == <<linked, ok, dhdr, slot>>
logger == <<stopped, logging, writer, rotated, crashes>>
vars == <<files, linked, ok, dhdr, slot, pc, op, hdr, todo, want, stopped, logging, writer,
          rotated, crashes>>

Idx == 0 .. Count - 1
Entry == [file : Files \cup {None}, size : Nat]
Header == [head : Idx, tail : Idx, total : Nat]

NoEntry == [file |-> None, size |-> 0]
NoSlots == [i \in Idx |-> NoEntry]
ZeroHeader == [head |-> 0, tail |-> 0, total |-> 0]

Succ(i) == IF i + 1 >= Count THEN 0 ELSE i + 1

\* total_size is decremented by an entry's size, and never below zero.
Less(total, size) == IF total > size THEN total - size ELSE 0

\* file_size(): 0 for a file that stat() does not find.
FileSize(f) == IF f \in DOMAIN files THEN files[f] ELSE 0

\* The directory after open(O_CREAT) and after unlink().
With(f) == [g \in DOMAIN files \cup {f} |-> FileSize(g)]
Without(f) == [g \in DOMAIN files \ {f} |-> files[g]]

\* The last slot written by a scan: the head never leaves the ring.
InRing_Late(head) == IF head > Count THEN Count - 1 ELSE head
InRing(head) == IF head >= Count THEN Count - 1 ELSE head

\* The tail once the head has moved to a slot: it gives way to the head.
PushTail_Not(tail, head) == tail
PushTail(tail, head) == IF head = tail THEN Succ(tail) ELSE tail

\* A total in which an entry's new size takes the place of its old one.
Resize_AddsOnly(total, old, new) == total + new
Resize(total, old, new) == Less(total, old) + new

Listed == {slot[i].file : i \in Idx} \ {None}

Init ==
  /\ files = [f \in {} |-> 0]
  /\ linked = FALSE /\ ok = FALSE /\ dhdr = ZeroHeader /\ slot = NoSlots
  /\ pc = "idle" /\ op = "new" /\ hdr = ZeroHeader /\ todo = {} /\ want = 0
  /\ stopped = TRUE /\ logging = None /\ writer = None /\ rotated = FALSE /\ crashes = 0
-----------------------------------------------------------------------------
(***************************************************************************)
(* generate_new_file, called when a logger starts and when it rotates.  A  *)
(* name holds the session, a serial number and the time: it is a new one.  *)
(***************************************************************************)
CreateFile(f) ==
  /\ pc = "rotate" \/ (pc = "idle" /\ stopped)
  /\ f \notin DOMAIN files \cup Listed \cup {logging, writer}
  /\ logging' = f /\ stopped' = FALSE
  /\ \/ files' = With(f) /\ op' = "new" /\ pc' = "open"
     \/ "open" \in Faults /\ pc' = "idle" /\ UNCHANGED <<files, op>>
  /\ UNCHANGED <<index, hdr, todo, want, writer, rotated, crashes>>

\* rotate_and_limit begins: the directory is the one log_filename is in.
LimitBegin ==
  /\ pc = "idle" /\ ~stopped
  /\ op' = "limit" /\ pc' = "open"
  /\ UNCHANGED <<files, index, hdr, todo, want, logger>>

\* Local variables die with the operation.
Abandon == pc' = "idle" /\ hdr' = ZeroHeader /\ todo' = {} /\ want' = 0

AfterOpen == IF op = "new" THEN "evict" ELSE "refresh"

OpenValid ==
  /\ pc = "open" /\ ok
  /\ hdr' = dhdr
  /\ pc' = AfterOpen
  /\ UNCHANGED <<files, index, op, todo, want, logger>>

(***************************************************************************)
(* fixdata: the index is rewritten from a scan of the directory, in the    *)
(* order readdir() yields.  The first Count files get a slot, the others   *)
(* are unlinked.  Padding gives the index file its full length, so that it *)
(* validates, before its header stops being the zero one.  A file that is  *)
(* unlinked meanwhile is written all the same, and not found again.        *)
(***************************************************************************)
OpenRebuild ==
  /\ pc = "open" /\ ~ok
  /\ linked' = TRUE
  /\ slot' = NoSlots /\ dhdr' = ZeroHeader /\ hdr' = ZeroHeader
  /\ todo' = DOMAIN files
  /\ pc' = "scan"
  /\ UNCHANGED <<files, ok, op, want, logger>>

ScanFile(f) ==
  /\ pc = "scan" /\ f \in todo
  /\ todo' = todo \ {f}
  /\ IF hdr.head < Count
     THEN /\ slot' = [slot EXCEPT ![hdr.head] = [file |-> f, size |-> FileSize(f)]]
          /\ hdr' = [hdr EXCEPT !.head = @ + 1, !.total = @ + FileSize(f)]
          /\ UNCHANGED files
     ELSE files' = Without(f) /\ UNCHANGED <<slot, hdr>>
  /\ UNCHANGED <<linked, ok, dhdr, pc, op, want, logger>>

\* A rebuild that is cut off leaves a valid index once every slot is written.
LeftValid == ok \/ (pc = "scan" /\ linked /\ hdr.head = Count)

ScanPad ==
  /\ pc = "scan" /\ todo = {}
  /\ ok' = linked
  /\ hdr' = [hdr EXCEPT !.head = InRing(@)]
  /\ pc' = "rebuilt"
  /\ UNCHANGED <<files, linked, dhdr, slot, todo, op, want, logger>>

RebuildCommit ==
  /\ pc = "rebuilt"
  /\ dhdr' = hdr
  /\ pc' = AfterOpen
  /\ UNCHANGED <<files, linked, ok, slot, todo, op, hdr, want, logger>>

(***************************************************************************)
(* A new file is then used without an entry; a rotate_and_limit gives up.  *)
(* Once every slot is written nothing can fail but the header.             *)
(***************************************************************************)
OpenFails ==
  /\ "open" \in Faults
  /\ pc \in {"open", "scan", "rebuilt"} /\ (pc = "scan" => hdr.head < Count)
  /\ Abandon
  /\ rotated' = (op = "new" \/ rotated)
  /\ UNCHANGED <<files, index, op, stopped, logging, writer, crashes>>
-----------------------------------------------------------------------------
(***************************************************************************)
(* logger_common_logdata_add_file.  The head moves on unless its slot is   *)
(* empty; the slot it moves to may hold the oldest entry of a full ring,   *)
(* whose file is unlinked.                                                 *)
(***************************************************************************)
AddEvict ==
  /\ pc = "evict"
  /\ IF slot[hdr.head].file = None
     THEN UNCHANGED <<hdr, files>>
     ELSE LET head == Succ(hdr.head)
          IN /\ hdr' = [head  |-> head,
                        tail  |-> PushTail(hdr.tail, head),
                        total |-> Less(hdr.total, slot[head].size)]
             /\ files' = Without(slot[head].file)
  /\ pc' = "put"
  /\ UNCHANGED <<index, todo, op, want, logger>>

AddPut ==
  /\ pc = "put"
  /\ slot' = [slot EXCEPT ![hdr.head] = [file |-> logging, size |-> FileSize(logging)]]
  /\ hdr' = [hdr EXCEPT !.total = @ + FileSize(logging)]
  /\ pc' = "commit"
  /\ UNCHANGED <<files, linked, ok, dhdr, todo, op, want, logger>>
-----------------------------------------------------------------------------
(***************************************************************************)
(* logger_common_logdata_limit_size.                                       *)
(***************************************************************************)
LimitRefresh ==
  /\ pc = "refresh"
  /\ LET entry == slot[hdr.head]
         size  == FileSize(entry.file)
     IN IF entry.file = None
        THEN UNCHANGED <<slot, hdr>>
        ELSE /\ slot' = [slot EXCEPT ![hdr.head].size = size]
             /\ hdr' = [hdr EXCEPT !.total = Resize(@, entry.size, size)]
  /\ pc' = "trim"
  /\ UNCHANGED <<files, linked, ok, dhdr, todo, op, want, logger>>

\* logger_common_logdata_remove_file: nothing to remove when head = tail.
RemoveFile_LastToo ==
  LET entry == slot[hdr.tail]
  IN /\ files' = Without(entry.file)
     /\ slot' = [slot EXCEPT ![hdr.tail] = NoEntry]
     /\ hdr' = [hdr EXCEPT !.tail = IF hdr.head = @ THEN @ ELSE Succ(@),
                           !.total = Less(@, entry.size)]
RemoveFile_Keeps ==
  LET entry == slot[hdr.tail]
  IN /\ hdr.head # hdr.tail
     /\ slot' = [slot EXCEPT ![hdr.tail] = NoEntry]
     /\ hdr' = [hdr EXCEPT !.tail = Succ(@), !.total = Less(@, entry.size)]
     /\ UNCHANGED files
RemoveFile_Stays ==
  LET entry == slot[hdr.tail]
  IN /\ hdr.head # hdr.tail
     /\ files' = Without(entry.file)
     /\ slot' = [slot EXCEPT ![hdr.tail] = NoEntry]
     /\ hdr' = [hdr EXCEPT !.total = Less(@, entry.size)]
RemoveFile ==
  LET entry == slot[hdr.tail]
  IN /\ hdr.head # hdr.tail
     /\ files' = Without(entry.file)
     /\ slot' = [slot EXCEPT ![hdr.tail] = NoEntry]
     /\ hdr' = [hdr EXCEPT !.tail = Succ(@), !.total = Less(@, entry.size)]

OverLimit == hdr.total \div MB >= Limit

TrimSize ==
  /\ pc = "trim" /\ OverLimit
  /\ RemoveFile
  /\ UNCHANGED <<linked, ok, dhdr, todo, pc, op, want, logger>>

\* Free space is below the reserve, or another logger found that it is.
TrimDone ==
  /\ pc = "trim" /\ (OverLimit => hdr.head = hdr.tail)
  /\ want' \in {0} \cup RemoveCounts
  /\ pc' = "lowfree"
  /\ UNCHANGED <<files, index, todo, op, hdr, logger>>

LowFree ==
  /\ pc = "lowfree" /\ want > 0
  /\ RemoveFile
  /\ want' = want - 1
  /\ UNCHANGED <<linked, ok, dhdr, todo, pc, op, logger>>

LowFreeDone ==
  /\ pc = "lowfree" /\ (want > 0 => hdr.head = hdr.tail)
  /\ want' = 0
  /\ pc' = "commit"
  /\ UNCHANGED <<files, index, todo, op, hdr, logger>>

(***************************************************************************)
(* The header is written back.  After generate_new_file the router is told *)
(* to open the file; after limit_size the logger rotates if need_rotate.   *)
(***************************************************************************)
WriteBack_Not == dhdr
WriteBack == IF ok THEN hdr ELSE dhdr

Commit ==
  /\ pc = "commit"
  /\ dhdr' = WriteBack
  /\ IF op = "new"
     THEN pc' = "idle" /\ rotated' = TRUE
     ELSE /\ pc' = IF FileSize(logging) >= RotateSize THEN "rotate" ELSE "idle"
          /\ UNCHANGED rotated
  /\ hdr' = ZeroHeader
  /\ UNCHANGED <<files, linked, ok, slot, todo, op, want, stopped, logging, writer, crashes>>
-----------------------------------------------------------------------------
(***************************************************************************)
(* logger_common_pipe_router_thread: opens log_filename with O_CREAT and   *)
(* appends to the file it has open, which rotation changes under it.       *)
(***************************************************************************)
RouterOpen ==
  /\ rotated
  /\ rotated' = FALSE
  /\ writer' = logging
  /\ files' = With(logging)
  /\ UNCHANGED <<index, todo, pc, op, hdr, want, stopped, logging, crashes>>

RouterWrite ==
  /\ writer \in DOMAIN files /\ files[writer] < MaxLen
  /\ files' = [files EXCEPT ![writer] = @ + 1]
  /\ UNCHANGED <<index, todo, pc, op, hdr, want, logger>>

\* The logger is stopped and its router joined; only if logcat is alive is log_filename emptied.
Stop ==
  /\ pc = "idle" /\ ~stopped
  /\ stopped' = TRUE
  /\ logging' \in {None, logging} /\ writer' = None /\ rotated' = FALSE
  /\ UNCHANGED <<files, index, todo, pc, op, hdr, want, crashes>>

\* :clearlog: of a stopped logger: its log files and its index go.
Clear ==
  /\ pc = "idle" /\ stopped
  /\ files' = [f \in {} |-> 0]
  /\ linked' = FALSE /\ ok' = FALSE /\ slot' = NoSlots /\ dhdr' = ZeroHeader
  /\ UNCHANGED <<todo, pc, op, hdr, want, logger>>

\* :movelog: copies a file elsewhere and unlinks it; the killer unlinks it.
Unlink(f) ==
  /\ \/ "move" \in Faults /\ f # logging
     \/ "expire" \in Faults
  /\ f \in DOMAIN files
  /\ files' = Without(f)
  /\ UNCHANGED <<index, todo, pc, op, hdr, want, logger>>

\* :movelog: copies the index elsewhere and unlinks it, under the operation that has it open.
UnlinkIndex ==
  /\ \/ "move" \in Faults /\ logging = None
     \/ "race" \in Faults
  /\ linked
  /\ linked' = FALSE /\ ok' = FALSE
  /\ UNCHANGED <<files, dhdr, slot, todo, pc, op, hdr, want, logger>>

Crash ==
  /\ "crash" \in Faults /\ crashes < MaxCrashes
  /\ crashes' = crashes + 1
  /\ Abandon
  /\ ok' = LeftValid
  /\ stopped' = TRUE /\ logging' = None /\ writer' = None /\ rotated' = FALSE
  /\ UNCHANGED <<files, linked, dhdr, slot, op>>
-----------------------------------------------------------------------------
Operation ==
  \/ OpenValid \/ OpenRebuild \/ (\E f \in Files : ScanFile(f)) \/ ScanPad \/ RebuildCommit
  \/ AddEvict \/ AddPut
  \/ LimitRefresh \/ TrimSize \/ TrimDone \/ LowFree \/ LowFreeDone
  \/ Commit

Next ==
  \/ \E f \in Files : CreateFile(f) \/ Unlink(f)
  \/ LimitBegin \/ Operation \/ OpenFails
  \/ RouterOpen \/ RouterWrite \/ Stop \/ Clear \/ UnlinkIndex \/ Crash

(***************************************************************************)
(* The thread that holds lock_logger runs on; rotation follows at once in  *)
(* the code, and can only be stuck in the model for want of a fresh name.  *)
(***************************************************************************)
Spec == Init /\ [][Next]_vars /\ WF_vars(Operation)
-----------------------------------------------------------------------------
\* Types of all variables; head is one past the ring only while a rebuild scans.
TypeOK ==
  /\ files = [f \in DOMAIN files |-> files[f]]
  /\ DOMAIN files \subseteq Files /\ \A f \in DOMAIN files : files[f] \in Nat
  /\ linked \in BOOLEAN /\ ok \in BOOLEAN /\ dhdr \in Header /\ slot \in [Idx -> Entry]
  /\ pc \in {"idle", "open", "scan", "rebuilt", "evict", "put",
             "refresh", "trim", "lowfree", "commit", "rotate"}
  /\ op \in {"new", "limit"}
  /\ hdr \in [head : 0 .. Count, tail : Idx, total : Nat]
  /\ pc # "scan" => hdr.head \in Idx
  /\ todo \subseteq Files /\ want \in Nat
  /\ stopped \in BOOLEAN /\ (stopped \/ logging # None)
  /\ logging \in Files \cup {None} /\ writer \in Files \cup {None}
  /\ rotated \in BOOLEAN /\ (rotated => logging # None)
  /\ crashes \in 0 .. MaxCrashes

\* The slots from the tail to the head, round the end of the ring.
InWindow(h, i) ==
  IF h.tail <= h.head THEN h.tail <= i /\ i <= h.head ELSE h.tail <= i \/ i <= h.head

(***************************************************************************)
(* No entry is outside the slots from tail to head: limit_size walks from  *)
(* the tail and remove_file never looks past the head, so such an entry    *)
(* would only be reclaimed once the head comes round.                      *)
(***************************************************************************)
NoneOutside ==
  pc \in {"idle", "rotate"} /\ ok =>
    \A i \in Idx : slot[i].file # None => InWindow(dhdr, i)

(***************************************************************************)
(* The slots from tail to head hold entries, but for the head of an empty  *)
(* ring: remove_file takes what is at the tail for the oldest file and     *)
(* counts it as removed.  That is so whatever is unlinked under the index  *)
(* and wherever an open fails, even if a rebuild is cut off with its zero  *)
(* header still in place.                                                  *)
(***************************************************************************)
NoHole ==
  pc \in {"idle", "rotate"} /\ ok =>
    \A i \in Idx : InWindow(dhdr, i) /\ i # dhdr.head => slot[i].file # None

(***************************************************************************)
(* total_size is the sum of the recorded sizes, so the clamp at zero never *)
(* hides a drift and the size limitation compares the right number.        *)
(***************************************************************************)
TotalIsSum ==
  pc \in {"idle", "rotate"} /\ ok => dhdr.total = SumFunction([i \in Idx |-> slot[i].size])

(***************************************************************************)
(* While a logger logs, the head entry is its file: what limit_size calls  *)
(* "update logging file size" updates that file, and remove_file, which    *)
(* stops at the head, spares its entry.                                    *)
(***************************************************************************)
LoggingIsHead ==
  pc \in {"idle", "rotate"} /\ ok /\ logging # None => slot[dhdr.head].file = logging

(***************************************************************************)
(* Every log file in the directory has an entry: one without is neither    *)
(* counted nor ever removed.                                               *)
(***************************************************************************)
EveryFileListed ==
  pc \in {"idle", "rotate"} /\ ok => DOMAIN files \subseteq Listed

(***************************************************************************)
(* The limiter never unlinks the file being logged unless the index lists  *)
(* it twice, once at the head: remove_file stops at the head, and the head *)
(* is the logging file.  It is listed twice because of generate_new_file,  *)
(* which creates the file before it opens the index: a rebuild then finds  *)
(* it among the old ones, and may unlink it, or list it, on the spot.      *)
(***************************************************************************)
LoggingFileKept ==
  [][Operation /\ logging \in DOMAIN files /\ logging \notin DOMAIN files' =>
       \/ op = "new" /\ pc \in {"scan", "evict"}
       \/ /\ slot[hdr.head].file = logging
          /\ \E i \in Idx \ {hdr.head} : slot[i].file = logging]_vars

(***************************************************************************)
(* An operation ends: the two removal loops cannot hold lock_logger for    *)
(* ever, whatever the entries and the sizes say.                           *)
(***************************************************************************)
OperationEnds == pc \notin {"idle", "rotate"} ~> pc \in {"idle", "rotate"}
=============================================================================
