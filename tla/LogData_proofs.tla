--------------------------- MODULE LogData_proofs ---------------------------
(***************************************************************************)
(* Proofs about the log index, for any number of files and slots.          *)
(***************************************************************************)
EXTENDS LogData, FiniteSetTheorems, WellFoundedInduction, TLAPS

\* An operation on the index runs for a logger that has a log file name.
Named == pc # "idle" => ~stopped

TypeInv == TypeOK /\ Named

USE DEF Entry, Header, Idx

LEMMA SuccType == ASSUME NEW i \in Idx PROVE Succ(i) \in Idx /\ Succ(i) # i
BY LogDataAssumption DEF Succ

LEMMA NatArith ==
  ASSUME NEW t \in Nat, NEW a \in Nat, NEW b \in Nat
  PROVE  Less(t, a) \in Nat /\ Resize(t, a, b) \in Nat
BY DEF Less, Resize

LEMMA FileSizeType == ASSUME TypeOK, NEW f PROVE FileSize(f) \in Nat
BY DEF TypeOK, FileSize

\* What open(O_CREAT) and unlink() make of a directory is a directory.
LEMMA DirectoryType ==
  ASSUME TypeOK, NEW f,
         \/ f \in Files /\ files' = With(f)
         \/ files' = Without(f)
  PROVE  /\ files' = [g \in DOMAIN files' |-> files'[g]]
         /\ DOMAIN files' \subseteq Files
         /\ \A g \in DOMAIN files' : files'[g] \in Nat
<1>1. CASE f \in Files /\ files' = With(f)
  BY <1>1, FileSizeType DEF TypeOK, With
<1>2. CASE files' = Without(f)
  BY <1>2 DEF TypeOK, Without
<1> QED BY <1>1, <1>2

LEMMA EmptyDirectory ==
  ASSUME NEW F, F = [f \in {} |-> 0]
  PROVE  DOMAIN F = {} /\ F = [f \in DOMAIN F |-> F[f]]
<1>1. DOMAIN F = {}
  OBVIOUS
<1> DEFINE empty == [f \in {} |-> 0]
<1>2. empty = [f \in {} |-> F[f]]
  OBVIOUS
<1> QED BY <1>1, <1>2

LEMMA Constants ==
  /\ 0 \in Idx
  /\ NoEntry \in Entry /\ NoSlots \in [Idx -> Entry]
  /\ ZeroHeader \in Header /\ ZeroHeader \in [head : 0 .. Count, tail : Idx, total : Nat]
  /\ ZeroHeader.head \in Idx
<1>1. 0 \in Idx /\ 0 \in 0 .. Count
  BY LogDataAssumption
<1>2. NoEntry \in Entry
  BY DEF NoEntry
<1>3. NoSlots \in [Idx -> Entry]
  BY <1>2 DEF NoSlots
<1> QED BY <1>1, <1>2, <1>3 DEF ZeroHeader

LEMMA InitType == Init => TypeInv
<1> SUFFICES ASSUME Init PROVE TypeInv
  OBVIOUS
<1>1. DOMAIN files = {} /\ files = [f \in DOMAIN files |-> files[f]]
  BY EmptyDirectory DEF Init
<1>2. crashes \in 0 .. MaxCrashes
  BY LogDataAssumption DEF Init
<1> QED BY <1>1, <1>2, Constants DEF Init, TypeInv, TypeOK, Named

LEMMA HeaderFields ==
  ASSUME TypeOK
  PROVE  /\ hdr = [head |-> hdr.head, tail |-> hdr.tail, total |-> hdr.total]
         /\ hdr.head \in 0 .. Count /\ hdr.tail \in Idx /\ hdr.total \in Nat
         /\ pc # "scan" => hdr \in Header
         /\ \A i \in Idx : /\ slot[i] = [file |-> slot[i].file, size |-> slot[i].size]
                           /\ slot[i].file \in Files \cup {None} /\ slot[i].size \in Nat
<1>1. hdr \in [head : 0 .. Count, tail : Idx, total : Nat]
  BY DEF TypeOK
<1>2. pc # "scan" => hdr.head \in Idx
  BY DEF TypeOK
<1>3. ASSUME NEW i \in Idx PROVE slot[i] \in Entry
  BY <1>3 DEF TypeOK
<1> QED BY <1>1, <1>2, <1>3

LEMMA RemoveFileType ==
  ASSUME TypeOK, pc # "scan", RemoveFile
  PROVE  /\ files' = [g \in DOMAIN files' |-> files'[g]]
         /\ DOMAIN files' \subseteq Files
         /\ \A g \in DOMAIN files' : files'[g] \in Nat
         /\ slot' \in [Idx -> Entry]
         /\ hdr' \in [head : 0 .. Count, tail : Idx, total : Nat]
         /\ hdr'.head = hdr.head
<1> DEFINE entry == slot[hdr.tail]
<1>1. /\ hdr.tail \in Idx /\ hdr.head \in Idx /\ hdr.total \in Nat
      /\ hdr = [head |-> hdr.head, tail |-> hdr.tail, total |-> hdr.total]
      /\ entry \in Entry /\ entry.size \in Nat
  BY DEF TypeOK
<1>2. files' = Without(entry.file)
  BY DEF RemoveFile
<1>3. /\ files' = [g \in DOMAIN files' |-> files'[g]]
      /\ DOMAIN files' \subseteq Files
      /\ \A g \in DOMAIN files' : files'[g] \in Nat
  BY <1>2, DirectoryType
<1>4. slot' \in [Idx -> Entry]
  <2>1. slot' = [slot EXCEPT ![hdr.tail] = NoEntry]
    BY DEF RemoveFile
  <2>2. NoEntry \in Entry
    BY DEF NoEntry
  <2> QED BY <1>1, <2>1, <2>2 DEF TypeOK
<1>5. /\ hdr' \in [head : 0 .. Count, tail : Idx, total : Nat]
      /\ hdr'.head = hdr.head
  <2>1. hdr' = [hdr EXCEPT !.tail = Succ(@), !.total = Less(@, entry.size)]
    BY DEF RemoveFile
  <2>2. Succ(hdr.tail) \in Idx /\ Less(hdr.total, entry.size) \in Nat
    BY <1>1, SuccType, NatArith
  <2> QED BY <1>1, <2>1, <2>2, LogDataAssumption DEF TypeOK
<1> QED BY <1>3, <1>4, <1>5
-----------------------------------------------------------------------------
\* The conjuncts of TypeOK that speak of the directory, the ring and the header.
DirectoryOK ==
  /\ files = [f \in DOMAIN files |-> files[f]]
  /\ DOMAIN files \subseteq Files /\ \A f \in DOMAIN files : files[f] \in Nat

RingOK == dhdr \in Header /\ slot \in [Idx -> Entry]

HeaderOK ==
  /\ hdr \in [head : 0 .. Count, tail : Idx, total : Nat]
  /\ pc # "scan" => hdr.head \in Idx

\* Each step of an operation, and each step of its environment, keeps the types.
LEMMA StepType == TypeInv /\ [Next]_vars => TypeInv'
<1> SUFFICES ASSUME TypeInv, [Next]_vars PROVE TypeInv'
  OBVIOUS
<1> USE DEF TypeInv, Named
<1>0. TypeOK /\ DirectoryOK /\ RingOK /\ HeaderOK
  BY DEF TypeOK, DirectoryOK, RingOK, HeaderOK
<1>1. ASSUME NEW f \in Files, CreateFile(f) PROVE TypeInv'
  <2>1. DirectoryOK'
    BY <1>0, <1>1, DirectoryType DEF CreateFile, DirectoryOK
  <2> QED BY <1>1, <2>1, LogDataAssumption DEF CreateFile, TypeOK, DirectoryOK, index
<1>2. ASSUME NEW f \in Files, Unlink(f) PROVE TypeInv'
  <2>1. DirectoryOK'
    BY <1>0, <1>2, DirectoryType DEF Unlink, DirectoryOK
  <2> QED BY <1>2, <2>1 DEF Unlink, TypeOK, DirectoryOK, index, logger
<1>3. CASE LimitBegin
  BY <1>3 DEF LimitBegin, TypeOK, index, logger
<1>4. CASE OpenValid
  <2>1. HeaderOK'
    BY <1>4, LogDataAssumption DEF OpenValid, TypeOK, HeaderOK
  <2> QED BY <1>4, <2>1 DEF OpenValid, AfterOpen, TypeOK, HeaderOK, index, logger
<1>5. CASE OpenRebuild
  BY <1>5, Constants DEF OpenRebuild, TypeOK, logger
<1>6. ASSUME NEW f \in Files, ScanFile(f) PROVE TypeInv'
  <2>1. FileSize(f) \in Nat
    BY FileSizeType
  <2>2. DirectoryOK'
    BY <1>0, <1>6, DirectoryType DEF ScanFile, DirectoryOK
  <2>3. RingOK' /\ HeaderOK'
    <3>1. CASE hdr.head < Count
      <4>1. hdr.head \in Idx /\ hdr.head + 1 \in 0 .. Count /\ hdr.total + FileSize(f) \in Nat
        BY <3>1, <2>1, HeaderFields, LogDataAssumption
      <4>2. [file |-> f, size |-> FileSize(f)] \in Entry
        BY <2>1
      <4>3. slot' \in [Idx -> Entry]
        BY <1>6, <3>1, <4>1, <4>2 DEF ScanFile, TypeOK
      <4>4. hdr' = [head |-> hdr.head + 1, tail |-> hdr.tail, total |-> hdr.total + FileSize(f)]
        BY <1>6, <3>1, HeaderFields DEF ScanFile
      <4> QED BY <1>6, <4>1, <4>3, <4>4, HeaderFields DEF ScanFile, TypeOK, RingOK, HeaderOK
    <3>2. CASE ~(hdr.head < Count)
      BY <1>6, <3>2 DEF ScanFile, TypeOK, RingOK, HeaderOK
    <3> QED BY <3>1, <3>2
  <2> QED BY <1>6, <2>2, <2>3 DEF ScanFile, TypeOK, DirectoryOK, RingOK, HeaderOK, logger
<1>7. CASE ScanPad
  <2>1. InRing(hdr.head) \in Idx
    BY HeaderFields, LogDataAssumption DEF InRing
  <2>2. HeaderOK'
    <3>1. hdr' = [head |-> InRing(hdr.head), tail |-> hdr.tail, total |-> hdr.total]
      BY <1>7, HeaderFields DEF ScanPad
    <3>2. Idx \subseteq 0 .. Count
      BY LogDataAssumption
    <3> QED BY <2>1, <3>1, <3>2, HeaderFields DEF HeaderOK
  <2> QED BY <1>7, <2>2 DEF ScanPad, TypeOK, HeaderOK, logger
<1>8. CASE RebuildCommit
  <2>1. RingOK' /\ HeaderOK'
    BY <1>8, HeaderFields DEF RebuildCommit, TypeOK, RingOK, HeaderOK
  <2> QED BY <1>8, <2>1 DEF RebuildCommit, AfterOpen, TypeOK, RingOK, HeaderOK, logger
<1>9. CASE OpenFails
  BY <1>9, Constants DEF OpenFails, Abandon, TypeOK, index
<1>10. CASE AddEvict
  <2> DEFINE head == Succ(hdr.head)
  <2>1. /\ head \in Idx /\ slot[head].size \in Nat
        /\ PushTail(hdr.tail, head) \in Idx
        /\ Less(hdr.total, slot[head].size) \in Nat
    <3>1. hdr.head \in Idx
      BY <1>10 DEF AddEvict, TypeOK
    <3> QED BY <3>1, HeaderFields, SuccType, NatArith DEF PushTail
  <2>2. DirectoryOK'
    BY <1>0, <1>10, DirectoryType DEF AddEvict, DirectoryOK
  <2>3. HeaderOK'
    <3>1. hdr' \in {hdr, [head  |-> head, tail |-> PushTail(hdr.tail, head),
                           total |-> Less(hdr.total, slot[head].size)]}
      BY <1>10 DEF AddEvict
    <3>2. Idx \subseteq 0 .. Count
      BY LogDataAssumption
    <3>3. hdr.head \in Idx
      BY <1>10 DEF AddEvict, TypeOK
    <3> QED BY <2>1, <3>1, <3>2, <3>3, HeaderFields DEF HeaderOK
  <2> QED BY <1>10, <2>2, <2>3 DEF AddEvict, TypeOK, DirectoryOK, HeaderOK, index, logger
<1>11. CASE AddPut
  <2>1. FileSize(logging) \in Nat
    BY FileSizeType
  <2>2. [file |-> logging, size |-> FileSize(logging)] \in Entry
    BY <2>1 DEF TypeOK
  <2>3. RingOK' /\ HeaderOK'
    <3>1. hdr.head \in Idx /\ hdr.total + FileSize(logging) \in Nat
      BY <1>11, <2>1, HeaderFields DEF AddPut, TypeOK
    <3>2. hdr' = [head |-> hdr.head, tail |-> hdr.tail, total |-> hdr.total + FileSize(logging)]
      BY <1>11, HeaderFields DEF AddPut
    <3>3. slot' \in [Idx -> Entry]
      BY <1>11, <2>2, <3>1 DEF AddPut, TypeOK
    <3> QED BY <1>11, <3>1, <3>2, <3>3, HeaderFields DEF AddPut, TypeOK, RingOK, HeaderOK
  <2> QED BY <1>11, <2>3 DEF AddPut, TypeOK, RingOK, HeaderOK, logger
<1>12. CASE LimitRefresh
  <2> DEFINE entry == slot[hdr.head]
             size == FileSize(entry.file)
  <2>1. hdr.head \in Idx /\ entry \in Entry /\ size \in Nat /\ Resize(hdr.total, entry.size, size) \in Nat
    <3>1. hdr.head \in Idx
      BY <1>12 DEF LimitRefresh, TypeOK
    <3>2. size \in Nat
      BY FileSizeType
    <3>3. entry \in Entry
      BY <3>1 DEF TypeOK
    <3>4. entry.size \in Nat /\ hdr.total \in Nat
      BY <3>3, HeaderFields
    <3>5. Resize(hdr.total, entry.size, size) \in Nat
      BY <3>2, <3>4, NatArith
    <3> QED BY <3>1, <3>2, <3>3, <3>5
  <2>2. RingOK' /\ HeaderOK'
    <3>1. CASE entry.file = None
      BY <1>12, <3>1 DEF LimitRefresh, TypeOK, RingOK, HeaderOK
    <3>2. CASE entry.file # None
      <4>1. slot' = [slot EXCEPT ![hdr.head].size = size]
        BY <1>12, <3>2 DEF LimitRefresh
      <4>2. slot' \in [Idx -> Entry]
        BY <2>1, <4>1 DEF TypeOK
      <4>3. hdr' = [head |-> hdr.head, tail |-> hdr.tail,
                    total |-> Resize(hdr.total, entry.size, size)]
        BY <1>12, <3>2, HeaderFields DEF LimitRefresh
      <4>4. HeaderOK'
        BY <2>1, <4>3, HeaderFields DEF HeaderOK
      <4> QED BY <1>12, <4>2, <4>4 DEF LimitRefresh, TypeOK, RingOK
    <3> QED BY <3>1, <3>2
  <2>3. /\ pc' = "trim" /\ pc = "refresh"
        /\ UNCHANGED <<files, linked, ok, todo, op, want, stopped, logging, writer, rotated, crashes>>
    BY <1>12 DEF LimitRefresh, logger
  <2> QED BY <2>2, <2>3 DEF TypeOK, RingOK, HeaderOK
<1>13. CASE TrimSize
  <2>1. DirectoryOK' /\ RingOK' /\ HeaderOK'
    BY <1>13, RemoveFileType DEF TrimSize, TypeOK, DirectoryOK, RingOK, HeaderOK
  <2> QED BY <1>13, <2>1 DEF TrimSize, TypeOK, DirectoryOK, RingOK, HeaderOK, logger
<1>14. CASE TrimDone
  <2>1. want' \in Nat
    BY <1>14, LogDataAssumption DEF TrimDone
  <2> QED BY <1>14, <2>1 DEF TrimDone, TypeOK, index, logger
<1>15. CASE LowFree
  <2>1. DirectoryOK' /\ RingOK' /\ HeaderOK'
    BY <1>15, RemoveFileType DEF LowFree, TypeOK, DirectoryOK, RingOK, HeaderOK
  <2>2. want' \in Nat
    BY <1>15 DEF LowFree, TypeOK
  <2> QED BY <1>15, <2>1, <2>2 DEF LowFree, TypeOK, DirectoryOK, RingOK, HeaderOK, logger
<1>16. CASE LowFreeDone
  BY <1>16 DEF LowFreeDone, TypeOK, index, logger
<1>17. CASE Commit
  <2>1. WriteBack \in Header
    BY <1>17, HeaderFields DEF Commit, WriteBack, TypeOK
  <2>2. RingOK' /\ HeaderOK'
    BY <1>17, <2>1, Constants DEF Commit, TypeOK, RingOK, HeaderOK
  <2> QED BY <1>17, <2>2 DEF Commit, TypeOK, RingOK, HeaderOK
<1>18. CASE RouterOpen
  <2>1. logging \in Files
    BY <1>18 DEF RouterOpen, TypeOK
  <2>2. DirectoryOK'
    BY <1>0, <1>18, <2>1, DirectoryType DEF RouterOpen, DirectoryOK
  <2> QED BY <1>18, <2>1, <2>2 DEF RouterOpen, TypeOK, DirectoryOK, index
<1>19. CASE RouterWrite
  <2>1. DirectoryOK'
    <3>1. DOMAIN files' = DOMAIN files /\ files[writer] + 1 \in Nat
      BY <1>19 DEF RouterWrite, TypeOK
    <3>2. files' = [f \in DOMAIN files |-> IF f = writer THEN files[writer] + 1 ELSE files[f]]
      BY <1>19 DEF RouterWrite
    <3> QED BY <3>1, <3>2 DEF TypeOK, DirectoryOK
  <2> QED BY <1>19, <2>1 DEF RouterWrite, TypeOK, DirectoryOK, index, logger
<1>20. CASE Stop
  BY <1>20 DEF Stop, TypeOK, index
<1>21. CASE Clear
  <2>1. DirectoryOK'
    <3>1. files' = [f \in {} |-> 0]
      BY <1>21 DEF Clear
    <3>2. DOMAIN files' = {} /\ files' = [f \in DOMAIN files' |-> files'[f]]
      BY <3>1, EmptyDirectory
    <3> QED BY <3>2 DEF DirectoryOK
  <2> QED BY <1>21, <2>1, Constants DEF Clear, TypeOK, DirectoryOK, logger
<1>22. CASE UnlinkIndex
  BY <1>22, Constants DEF UnlinkIndex, TypeOK, logger
<1>23. CASE Crash
  <2>1. crashes' \in 0 .. MaxCrashes
    <3>1. crashes \in 0 .. MaxCrashes
      BY DEF TypeOK
    <3>2. crashes < MaxCrashes /\ crashes' = crashes + 1
      BY <1>23 DEF Crash
    <3> QED BY <3>1, <3>2, LogDataAssumption
  <2> QED BY <1>23, <2>1, Constants DEF Crash, LeftValid, Abandon, TypeOK, index
<1>24. CASE UNCHANGED vars
  BY <1>24 DEF vars, TypeOK
<1> QED
  BY <1>1, <1>2, <1>3, <1>4, <1>5, <1>6, <1>7, <1>8, <1>9, <1>10, <1>11, <1>12, <1>13,
     <1>14, <1>15, <1>16, <1>17, <1>18, <1>19, <1>20, <1>21, <1>22, <1>23, <1>24
  DEF Next, Operation

\* Every reachable state of the index has the types of TypeOK: the head is a slot
\* again whenever add_file and limit_size run, also after a scan of a full directory.
THEOREM TypeCorrect == Spec => []TypeOK
<1>1. TypeInv => TypeOK
  BY DEF TypeInv
<1> QED BY <1>1, InitType, StepType, PTL DEF Spec
-----------------------------------------------------------------------------
(***************************************************************************)
(* The head entry is the logging file.  This is not inductive: while an    *)
(* operation runs the header that counts is the one in memory.  A running  *)
(* operation has an index (HasIndex), and at each of its steps one entry   *)
(* is known to be the logging file's (HeadEntry).                          *)
(***************************************************************************)
NewSteps == {"scan", "rebuilt", "evict", "put"}
LimitSteps == {"refresh", "trim", "lowfree", "rotate"}

HasIndex ==
  /\ pc \in NewSteps => op = "new"
  /\ pc \in LimitSteps => op = "limit"
  /\ ~stopped /\ (pc = "idle" \/ op = "limit") => ok
  /\ pc = "scan" => linked
  /\ pc \in {"rebuilt", "evict", "put", "commit"} => ok

HeadEntry ==
  /\ logging # None /\ ok /\ (pc \in {"idle", "rotate"} \/ (pc = "open" /\ op = "limit"))
       => slot[dhdr.head].file = logging
  /\ pc \in {"refresh", "trim", "lowfree", "commit"} => slot[hdr.head].file = logging

HeadInv == TypeInv /\ HasIndex /\ HeadEntry

\* The index is opened each time, and :movelog: unlinks none that is in use.
IndexReliable == Faults \cap {"open", "race"} = {}

LEMMA InitHead == Init => HeadInv
BY InitType DEF Init, HeadInv, HasIndex, HeadEntry, NewSteps, LimitSteps

LEMMA StepHead == ASSUME IndexReliable, HeadInv, [Next]_vars PROVE HeadInv'
<1> SUFFICES HasIndex' /\ HeadEntry'
  BY StepType DEF HeadInv
<1> USE DEF HeadInv, HasIndex, HeadEntry, NewSteps, LimitSteps
<1>0. TypeInv /\ TypeOK /\ Named
  BY DEF TypeInv
<1>a. "open" \notin Faults /\ "race" \notin Faults
  BY DEF IndexReliable
<1>1. ASSUME NEW f \in Files, CreateFile(f) PROVE HasIndex' /\ HeadEntry'
  BY <1>a, <1>1 DEF CreateFile, index
<1>2. ASSUME NEW f \in Files, Unlink(f) PROVE HasIndex' /\ HeadEntry'
  BY <1>2 DEF Unlink, index, logger
<1>3. CASE LimitBegin
  BY <1>3 DEF LimitBegin, index, logger
<1>4. CASE OpenValid
  BY <1>0, <1>4 DEF OpenValid, AfterOpen, TypeOK, Named, index, logger
<1>5. CASE OpenRebuild
  BY <1>0, <1>5 DEF OpenRebuild, TypeOK, Named, logger
<1>6. ASSUME NEW f \in Files, ScanFile(f) PROVE HasIndex' /\ HeadEntry'
  BY <1>6 DEF ScanFile, logger
<1>7. CASE ScanPad
  BY <1>7 DEF ScanPad, logger
<1>8. CASE RebuildCommit
  BY <1>8 DEF RebuildCommit, AfterOpen, logger
<1>9. CASE OpenFails
  BY <1>a, <1>9 DEF OpenFails
<1>10. CASE AddEvict
  BY <1>10 DEF AddEvict, index, logger
<1>11. CASE AddPut
  <2>1. hdr.head \in Idx /\ hdr'.head = hdr.head
    BY <1>0, <1>11, HeaderFields DEF AddPut, TypeOK
  <2>2. slot'[hdr.head].file = logging
    BY <1>0, <1>11, <2>1 DEF AddPut, TypeOK
  <2> QED BY <1>11, <2>1, <2>2 DEF AddPut, logger
<1>12. CASE LimitRefresh
  <2>1. hdr.head \in Idx /\ hdr'.head = hdr.head
    BY <1>0, <1>12, HeaderFields DEF LimitRefresh, TypeOK
  <2>2. slot'[hdr.head].file = slot[hdr.head].file
    <3>1. slot \in [Idx -> Entry] /\ slot[hdr.head] \in Entry
      BY <1>0, <2>1 DEF TypeOK
    <3>2. \/ slot' = slot
          \/ \E size : slot' = [slot EXCEPT ![hdr.head].size = size]
      BY <1>12 DEF LimitRefresh
    <3> QED BY <2>1, <3>1, <3>2
  <2>3. /\ pc' = "trim" /\ pc = "refresh"
        /\ UNCHANGED <<ok, op, stopped, logging>>
    BY <1>12 DEF LimitRefresh, logger
  <2> QED BY <2>1, <2>2, <2>3
<1>13. ASSUME pc \in {"trim", "lowfree"}, RemoveFile PROVE slot'[hdr'.head].file = logging
  <2>1. hdr.head \in Idx /\ hdr.tail \in Idx /\ hdr.head # hdr.tail
    BY <1>0, <1>13 DEF RemoveFile, TypeOK
  <2>2. hdr'.head = hdr.head
    BY <1>0, <1>13, RemoveFileType
  <2>3. slot'[hdr.head] = slot[hdr.head]
    BY <1>0, <1>13, <2>1 DEF RemoveFile, TypeOK
  <2> QED BY <1>13, <2>2, <2>3
<1>14. CASE TrimSize
  BY <1>13, <1>14 DEF TrimSize, logger
<1>15. CASE TrimDone
  BY <1>15 DEF TrimDone, index, logger
<1>16. CASE LowFree
  BY <1>13, <1>16 DEF LowFree, logger
<1>17. CASE LowFreeDone
  BY <1>0, <1>17 DEF LowFreeDone, Named, index, logger
<1>18. CASE Commit
  <2>1. ok /\ dhdr' = hdr /\ slot' = slot /\ UNCHANGED <<stopped, logging, ok, op>>
    BY <1>18 DEF Commit, WriteBack
  <2>2. pc' = "idle" \/ (pc' = "rotate" /\ op = "limit")
    BY <1>0, <1>18 DEF Commit, TypeOK
  <2> QED BY <1>18, <2>1, <2>2 DEF Commit
<1>19. CASE RouterOpen
  BY <1>19 DEF RouterOpen, index
<1>20. CASE RouterWrite
  BY <1>20 DEF RouterWrite, index, logger
<1>21. CASE Stop
  BY <1>21 DEF Stop, index
<1>22. CASE Clear
  BY <1>22 DEF Clear, logger
<1>23. CASE UnlinkIndex
  BY <1>0, <1>a, <1>23 DEF UnlinkIndex, TypeOK, Named, logger
<1>24. CASE Crash
  BY <1>24 DEF Crash, LeftValid, Abandon
<1>25. CASE UNCHANGED vars
  BY <1>25 DEF vars
<1> QED
  BY <1>1, <1>2, <1>3, <1>4, <1>5, <1>6, <1>7, <1>8, <1>9, <1>10, <1>11, <1>12, <1>14,
     <1>15, <1>16, <1>17, <1>18, <1>19, <1>20, <1>21, <1>22, <1>23, <1>24, <1>25
  DEF Next, Operation

\* While a logger logs, the head entry of its index is its file, whatever is unlinked
\* beside it and whenever the daemon dies, as long as opening the index does not fail.
THEOREM HeadCorrect == ASSUME IndexReliable PROVE Spec => []LoggingIsHead
<1>1. HeadInv => LoggingIsHead
  BY DEF HeadInv, HeadEntry, LoggingIsHead
<1>2. HeadInv /\ [Next]_vars => HeadInv'
  BY StepHead
<1> QED BY <1>1, <1>2, InitHead, PTL DEF Spec

LEMMA KeptStep ==
  HeadInv /\ Operation
  /\ logging \in DOMAIN files /\ logging \notin DOMAIN files' =>
    \/ op = "new" /\ pc \in {"scan", "evict"}
    \/ /\ slot[hdr.head].file = logging
       /\ \E i \in Idx \ {hdr.head} : slot[i].file = logging
<1> SUFFICES ASSUME HeadInv, Operation, logging \in DOMAIN files, logging \notin DOMAIN files'
             PROVE  \/ op = "new" /\ pc \in {"scan", "evict"}
                    \/ /\ slot[hdr.head].file = logging
                       /\ \E i \in Idx \ {hdr.head} : slot[i].file = logging
  OBVIOUS
<1>1. TypeOK /\ HasIndex /\ HeadEntry
  BY DEF HeadInv, TypeInv
<1>2. files' # files
  OBVIOUS
<1>3. CASE \E f \in Files : ScanFile(f)
  BY <1>1, <1>3 DEF ScanFile, HasIndex, NewSteps
<1>4. CASE AddEvict
  BY <1>1, <1>4 DEF AddEvict, HasIndex, NewSteps
<1>5. ASSUME pc \in {"trim", "lowfree"}, RemoveFile
      PROVE  /\ slot[hdr.head].file = logging
             /\ \E i \in Idx \ {hdr.head} : slot[i].file = logging
  <2>1. hdr.tail \in Idx \ {hdr.head} /\ files' = Without(slot[hdr.tail].file)
    BY <1>1, <1>5 DEF RemoveFile, TypeOK
  <2>2. slot[hdr.tail].file = logging
    BY <2>1 DEF Without
  <2> QED BY <1>1, <1>5, <2>1, <2>2 DEF HeadEntry
<1>6. CASE TrimSize
  BY <1>5, <1>6 DEF TrimSize
<1>7. CASE LowFree
  BY <1>5, <1>7 DEF LowFree
<1> QED
  BY <1>2, <1>3, <1>4, <1>6, <1>7
  DEF Operation, OpenValid, OpenRebuild, ScanPad, RebuildCommit, AddPut, LimitRefresh,
      TrimDone, LowFreeDone, Commit

\* The limiter unlinks the file being logged only where the index lists it twice.
THEOREM KeptCorrect == ASSUME IndexReliable PROVE Spec => LoggingFileKept
<1>1. HeadInv /\ [Next]_vars =>
        [Operation /\ logging \in DOMAIN files /\ logging \notin DOMAIN files' =>
           \/ op = "new" /\ pc \in {"scan", "evict"}
           \/ /\ slot[hdr.head].file = logging
              /\ \E i \in Idx \ {hdr.head} : slot[i].file = logging]_vars
  BY KeptStep
<1>2. HeadInv /\ [Next]_vars => HeadInv'
  BY StepHead
<1> QED BY <1>1, <1>2, InitHead, PTL DEF Spec, LoggingFileKept
-----------------------------------------------------------------------------
(***************************************************************************)
(* The window from tail to head, and the steps it takes: add_file moves    *)
(* the head and pushes the tail on, remove_file moves the tail.            *)
(***************************************************************************)
LEMMA WindowHead == ASSUME NEW h \in Header PROVE InWindow(h, h.head)
BY DEF InWindow

LEMMA WindowMoves ==
  ASSUME NEW h, NEW n, h.head \in Idx, h.tail \in Idx,
         n.head = Succ(h.head), n.tail = PushTail(h.tail, Succ(h.head)), NEW i \in Idx
  PROVE  InWindow(n, i) <=> InWindow(h, i) \/ i = n.head
BY LogDataAssumption DEF InWindow, PushTail, Succ

LEMMA WindowShrinks ==
  ASSUME NEW h, NEW n, h.head \in Idx, h.tail \in Idx, h.head # h.tail,
         n.head = h.head, n.tail = Succ(h.tail), NEW i \in Idx
  PROVE  InWindow(n, i) <=> InWindow(h, i) /\ i # h.tail
BY LogDataAssumption DEF InWindow, Succ

\* Every slot of the window but the head's holds an entry; no other slot does.
Filled(h) == \A i \in Idx : InWindow(h, i) /\ i # h.head => slot[i].file # None
Within(h) == \A i \in Idx : slot[i].file # None => InWindow(h, i)

AtRest == {"idle", "rotate", "open"}
Midway == {"rebuilt", "evict", "put", "refresh", "trim", "lowfree", "commit"}

\* The header that counts: the file's at rest, in memory while an operation runs.
HoleInv ==
  /\ pc \in AtRest /\ ok => Filled(dhdr)
  /\ pc = "scan" => ~ok /\ hdr.tail = 0 /\ \A i \in Idx : i < hdr.head => slot[i].file # None
  /\ pc \in {"scan", "rebuilt"} => dhdr = ZeroHeader
  /\ pc \in Midway => Filled(hdr)

OutsideInv ==
  /\ pc \in AtRest /\ ok => Within(dhdr)
  /\ pc = "scan" => hdr.tail = 0 /\ \A i \in Idx : i >= hdr.head => slot[i].file = None
  /\ pc \in Midway => Within(hdr)

\* What the steps of an operation do to the slots and the header in memory.
LEMMA RemovesTail ==
  ASSUME TypeOK, pc # "scan", RemoveFile
  PROVE  /\ hdr.head \in Idx /\ hdr.tail \in Idx /\ hdr.head # hdr.tail
         /\ hdr'.head = hdr.head /\ hdr'.tail = Succ(hdr.tail)
         /\ \A i \in Idx : slot'[i].file = IF i = hdr.tail THEN None ELSE slot[i].file
<1>1. /\ hdr.head \in Idx /\ hdr.tail \in Idx /\ hdr.head # hdr.tail
      /\ slot' = [slot EXCEPT ![hdr.tail] = NoEntry]
      /\ hdr' = [hdr EXCEPT !.tail = Succ(@), !.total = Less(@, slot[hdr.tail].size)]
  BY DEF RemoveFile, TypeOK
<1>2. hdr'.head = hdr.head /\ hdr'.tail = Succ(hdr.tail)
  BY <1>1, HeaderFields
<1>3. ASSUME NEW i \in Idx PROVE slot'[i].file = IF i = hdr.tail THEN None ELSE slot[i].file
  BY <1>1 DEF TypeOK, NoEntry
<1> QED BY <1>1, <1>2, <1>3

LEMMA EvictMoves ==
  ASSUME TypeOK, AddEvict
  PROVE  /\ hdr.head \in Idx /\ hdr.tail \in Idx /\ slot' = slot /\ pc = "evict" /\ pc' = "put"
         /\ \/ slot[hdr.head].file = None /\ hdr' = hdr /\ files' = files
            \/ /\ slot[hdr.head].file # None
               /\ hdr'.head = Succ(hdr.head) /\ hdr'.tail = PushTail(hdr.tail, Succ(hdr.head))
               /\ files' = Without(slot[Succ(hdr.head)].file)
BY DEF AddEvict, index, TypeOK

LEMMA PutsHead ==
  ASSUME TypeInv, AddPut
  PROVE  /\ hdr.head \in Idx /\ hdr'.head = hdr.head /\ hdr'.tail = hdr.tail
         /\ pc = "put" /\ pc' = "commit" /\ logging # None
         /\ \A i \in Idx : slot'[i].file = IF i = hdr.head THEN logging ELSE slot[i].file
<1>1. /\ pc = "put" /\ pc' = "commit" /\ hdr.head \in Idx /\ logging # None
      /\ slot' = [slot EXCEPT ![hdr.head] = [file |-> logging, size |-> FileSize(logging)]]
      /\ hdr' = [hdr EXCEPT !.total = @ + FileSize(logging)]
  BY DEF AddPut, TypeInv, TypeOK, Named
<1>2. hdr'.head = hdr.head /\ hdr'.tail = hdr.tail
  BY <1>1, HeaderFields DEF TypeInv
<1>3. ASSUME NEW i \in Idx PROVE slot'[i].file = IF i = hdr.head THEN logging ELSE slot[i].file
  BY <1>1 DEF TypeInv, TypeOK
<1> QED BY <1>1, <1>2, <1>3

LEMMA RefreshKeepsFiles ==
  ASSUME TypeOK, LimitRefresh
  PROVE  /\ hdr'.head = hdr.head /\ hdr'.tail = hdr.tail /\ pc = "refresh" /\ pc' = "trim"
         /\ \A i \in Idx : slot'[i].file = slot[i].file
<1>1. hdr.head \in Idx
  BY DEF LimitRefresh, TypeOK
<1>2. hdr'.head = hdr.head /\ hdr'.tail = hdr.tail
  BY <1>1, HeaderFields DEF LimitRefresh
<1>3. ASSUME NEW i \in Idx PROVE slot'[i].file = slot[i].file
  <2>1. slot' = slot \/ slot' = [slot EXCEPT ![hdr.head].size = FileSize(slot[hdr.head].file)]
    BY DEF LimitRefresh
  <2>2. \A e : [slot EXCEPT ![hdr.head].size = e][i].file = slot[i].file
    BY <1>1, HeaderFields DEF TypeOK
  <2> QED BY <2>1, <2>2
<1> QED BY <1>2, <1>3 DEF LimitRefresh

LEMMA ScanFills ==
  ASSUME TypeOK, NEW f \in Files, ScanFile(f)
  PROVE  /\ pc = "scan" /\ pc' = "scan" /\ ok' = ok /\ dhdr' = dhdr /\ f \in todo /\ todo' = todo \ {f}
         /\ hdr'.tail = hdr.tail
         /\ \/ /\ hdr.head \in Idx /\ hdr'.head = hdr.head + 1 /\ files' = files
               /\ \A i \in Idx : slot'[i].file = IF i = hdr.head THEN f ELSE slot[i].file
            \/ hdr.head = Count /\ hdr' = hdr /\ slot' = slot /\ files' = Without(f)
<1>1. hdr.head \in 0 .. Count
  BY DEF TypeOK
<1>2. CASE hdr.head < Count
  <2>1. hdr.head \in Idx
    BY <1>1, <1>2, LogDataAssumption
  <2>2. hdr'.head = hdr.head + 1 /\ hdr'.tail = hdr.tail
    BY <1>2, HeaderFields DEF ScanFile
  <2>3. ASSUME NEW i \in Idx PROVE slot'[i].file = IF i = hdr.head THEN f ELSE slot[i].file
    <3>1. slot' = [slot EXCEPT ![hdr.head] = [file |-> f, size |-> FileSize(f)]]
      BY <1>2 DEF ScanFile
    <3> QED BY <2>1, <3>1 DEF TypeOK
  <2> QED BY <1>2, <2>1, <2>2, <2>3 DEF ScanFile
<1>3. CASE ~(hdr.head < Count)
  BY <1>1, <1>3, LogDataAssumption DEF ScanFile
<1> QED BY <1>2, <1>3

LEMMA PadsHead ==
  ASSUME TypeOK, ScanPad
  PROVE  /\ hdr'.tail = hdr.tail /\ hdr'.head \in Idx /\ slot' = slot /\ dhdr' = dhdr
         /\ hdr'.head = IF hdr.head = Count THEN Count - 1 ELSE hdr.head
<1>1. hdr' = [hdr EXCEPT !.head = InRing(@)] /\ slot' = slot /\ dhdr' = dhdr
  BY DEF ScanPad
<1>2. hdr'.head = InRing(hdr.head) /\ hdr'.tail = hdr.tail
  BY <1>1, HeaderFields
<1>3. hdr.head \in 0 .. Count
  BY DEF TypeOK
<1> QED BY <1>1, <1>2, <1>3, LogDataAssumption DEF InRing

LEMMA NoSlotsEmpty == \A i \in Idx : NoSlots[i].file = None
BY DEF NoSlots, NoEntry
-----------------------------------------------------------------------------
(***************************************************************************)
(* The steps that leave the slots and every header alone, and those that   *)
(* only read the header into memory or write it back.                      *)
(***************************************************************************)
Still ==
  /\ UNCHANGED <<slot, dhdr, hdr>> /\ (ok' => ok)
  /\ \/ pc' = pc
     \/ pc \in {"idle", "rotate"} /\ pc' \in AtRest
     \/ pc \in Midway \ {"rebuilt", "put"} /\ pc' \in Midway \ {"rebuilt", "put"}

Emptied == ~ok' /\ slot' = NoSlots /\ dhdr' = ZeroHeader /\ pc' = pc /\ pc = "idle"

LEMMA StepKinds ==
  ASSUME TypeInv, [Next]_vars
  PROVE  \/ Still \/ Emptied
         \/ OpenFails \/ ("crash" \in Faults /\ Crash)
         \/ OpenValid \/ OpenRebuild \/ (\E f \in Files : ScanFile(f)) \/ ScanPad \/ RebuildCommit
         \/ AddEvict \/ AddPut \/ LimitRefresh \/ (TrimSize \/ LowFree) \/ Commit
<1> USE DEF Still, AtRest, Midway
<1>1. ASSUME NEW f \in Files, CreateFile(f) PROVE Still
  BY <1>1 DEF CreateFile, index
<1>2. ASSUME NEW f \in Files, Unlink(f) PROVE Still
  BY <1>2 DEF Unlink, index
<1>3. CASE LimitBegin \/ TrimDone \/ LowFreeDone
  BY <1>3 DEF LimitBegin, TrimDone, LowFreeDone, index
<1>4. CASE RouterOpen \/ RouterWrite \/ Stop \/ UNCHANGED vars
  BY <1>4 DEF RouterOpen, RouterWrite, Stop, vars, index
<1>5. CASE Clear \/ UnlinkIndex
  BY <1>5 DEF Clear, UnlinkIndex, Emptied
<1>6. CASE Crash
  BY <1>6 DEF Crash
<1> QED BY <1>1, <1>2, <1>3, <1>4, <1>5, <1>6 DEF Next, Operation

\* TrimSize and LowFree do to the index what remove_file does.
LEMMA Removes ==
  ASSUME TypeInv, TrimSize \/ LowFree
  PROVE  /\ RemoveFile /\ TypeOK /\ pc # "scan" /\ pc' = pc /\ pc \in {"trim", "lowfree"}
         /\ UNCHANGED <<ok, dhdr, op, logging, rotated>>
BY DEF TrimSize, LowFree, TypeInv, logger

LEMMA StepHole ==
  ASSUME "crash" \notin Faults, TypeInv, HoleInv, [Next]_vars
  PROVE  HoleInv'
<1> USE DEF HoleInv, AtRest, Midway
<1>0. TypeOK
  BY DEF TypeInv
<1>1. CASE Still
  BY <1>1 DEF Still, Filled
<1>2. CASE Emptied
  BY <1>2 DEF Emptied
<1>3. CASE OpenFails
  <2>1. pc' = "idle" /\ UNCHANGED <<ok, dhdr, slot>> /\ pc \in {"open", "scan", "rebuilt"}
    BY <1>3 DEF OpenFails, Abandon, index
  <2>2. Filled(ZeroHeader)
    BY DEF Filled, InWindow, ZeroHeader
  <2> QED BY <2>1, <2>2 DEF Filled
<1>4. CASE OpenValid
  BY <1>4 DEF OpenValid, AfterOpen, index, Filled
<1>5. CASE OpenRebuild
  BY <1>5 DEF OpenRebuild, ZeroHeader
<1>6. ASSUME NEW f \in Files, ScanFile(f) PROVE HoleInv'
  <2>1. \A i \in Idx : i < hdr'.head => slot'[i].file # None
    <3>1. f # None
      BY LogDataAssumption
    <3> QED BY <1>0, <1>6, <3>1, ScanFills, LogDataAssumption
  <2> QED BY <1>0, <1>6, <2>1, ScanFills
<1>7. CASE ScanPad
  <2>1. pc = "scan" /\ pc' = "rebuilt"
    BY <1>7 DEF ScanPad
  <2>2. hdr.head \in 0 .. Count /\ hdr.tail = 0
    BY <1>0, <2>1 DEF TypeOK
  <2>3. hdr'.tail = 0 /\ hdr'.head \in Idx /\ hdr'.head <= hdr.head /\ slot' = slot
    BY <1>0, <1>7, <2>2, PadsHead, LogDataAssumption
  <2>4. \A i \in Idx : i < hdr.head => slot[i].file # None
    BY <2>1
  <2>5. Filled(hdr)'
    BY <2>2, <2>3, <2>4, LogDataAssumption DEF Filled, InWindow
  <2>6. dhdr' = ZeroHeader
    BY <1>7, <2>1 DEF ScanPad
  <2> QED BY <2>1, <2>5, <2>6
<1>8. CASE RebuildCommit
  BY <1>8 DEF RebuildCommit, AfterOpen, Filled
<1>9. CASE AddEvict
  <2>1. Filled(hdr)
    BY <1>9 DEF AddEvict
  <2>2. Filled(hdr)'
    BY <1>0, <1>9, <2>1, EvictMoves, WindowMoves DEF Filled
  <2> QED BY <1>0, <1>9, <2>2, EvictMoves
<1>10. CASE AddPut
  <2>1. Filled(hdr)'
    BY <1>10, PutsHead DEF Filled, InWindow
  <2> QED BY <1>10, <2>1, PutsHead
<1>11. CASE LimitRefresh
  <2>1. Filled(hdr)'
    BY <1>0, <1>11, RefreshKeepsFiles DEF Filled, InWindow
  <2> QED BY <1>0, <1>11, <2>1, RefreshKeepsFiles
<1>12. CASE TrimSize \/ LowFree
  <2>1. Filled(hdr)
    BY <1>12, Removes
  <2>2. Filled(hdr)'
    BY <1>12, <2>1, Removes, RemovesTail, WindowShrinks DEF Filled
  <2> QED BY <1>12, <2>2, Removes
<1>13. CASE Commit
  <2>1. /\ pc' \in {"idle", "rotate"} /\ UNCHANGED <<ok, slot>> /\ Filled(hdr)
        /\ ok => dhdr' = hdr
    BY <1>13 DEF Commit, WriteBack
  <2> QED BY <2>1 DEF Filled
<1> QED
  BY <1>1, <1>2, <1>3, <1>4, <1>5, <1>6, <1>7, <1>8, <1>9, <1>10, <1>11, <1>12, <1>13, StepKinds

(***************************************************************************)
(* NoHole: the slots that remove_file walks over hold the entries it takes *)
(* them for, whatever is unlinked under the index and wherever an open     *)
(* fails, for any ring.                                                    *)
(***************************************************************************)
THEOREM HoleCorrect == ASSUME "crash" \notin Faults PROVE Spec => []NoHole
<1>1. Init => TypeInv /\ HoleInv
  BY InitType DEF Init, HoleInv, AtRest, Midway
<1>2. TypeInv /\ HoleInv /\ [Next]_vars => (TypeInv /\ HoleInv)'
  BY StepType, StepHole
<1>3. HoleInv => NoHole
  BY DEF HoleInv, AtRest, Filled, NoHole
<1> QED BY <1>1, <1>2, <1>3, PTL DEF Spec

LEMMA StepOutside ==
  ASSUME Faults \cap {"open", "crash"} = {}, TypeInv, OutsideInv, [Next]_vars
  PROVE  OutsideInv'
<1> USE DEF OutsideInv, AtRest, Midway
<1>0. TypeOK
  BY DEF TypeInv
<1>1. CASE Still
  BY <1>1 DEF Still, Within
<1>2. CASE Emptied
  BY <1>2 DEF Emptied
<1>4. CASE OpenValid
  BY <1>4 DEF OpenValid, AfterOpen, index, Within
<1>5. CASE OpenRebuild
  BY <1>5, NoSlotsEmpty DEF OpenRebuild, ZeroHeader
<1>6. ASSUME NEW f \in Files, ScanFile(f) PROVE OutsideInv'
  <2>1. \A i \in Idx : i >= hdr'.head => slot'[i].file = None
    BY <1>0, <1>6, ScanFills, LogDataAssumption
  <2> QED BY <1>0, <1>6, <2>1, ScanFills
<1>7. CASE ScanPad
  <2>1. pc = "scan" /\ pc' = "rebuilt"
    BY <1>7 DEF ScanPad
  <2>2. /\ hdr.head \in 0 .. Count /\ hdr'.tail = 0 /\ slot' = slot
        /\ hdr'.head = IF hdr.head = Count THEN Count - 1 ELSE hdr.head
        /\ \A i \in Idx : i >= hdr.head => slot[i].file = None
    BY <1>0, <1>7, <2>1, PadsHead DEF TypeOK
  <2>3. Within(hdr)'
    BY <2>2, LogDataAssumption DEF Within, InWindow
  <2> QED BY <2>1, <2>3
<1>8. CASE RebuildCommit
  BY <1>8 DEF RebuildCommit, AfterOpen, Within
<1>9. CASE AddEvict
  <2>1. Within(hdr)
    BY <1>9 DEF AddEvict
  <2>2. Within(hdr)'
    BY <1>0, <1>9, <2>1, EvictMoves, WindowMoves DEF Within
  <2> QED BY <1>0, <1>9, <2>2, EvictMoves
<1>10. CASE AddPut
  <2>1. Within(hdr)'
    BY <1>10, PutsHead, LogDataAssumption DEF Within, InWindow
  <2> QED BY <1>10, <2>1, PutsHead
<1>11. CASE LimitRefresh
  <2>1. Within(hdr)'
    BY <1>0, <1>11, RefreshKeepsFiles DEF Within, InWindow
  <2> QED BY <1>0, <1>11, <2>1, RefreshKeepsFiles
<1>12. CASE TrimSize \/ LowFree
  <2>1. Within(hdr)
    BY <1>12, Removes
  <2>2. Within(hdr)'
    BY <1>12, <2>1, Removes, RemovesTail, WindowShrinks DEF Within
  <2> QED BY <1>12, <2>2, Removes
<1>13. CASE Commit
  <2>1. /\ pc' \in {"idle", "rotate"} /\ UNCHANGED <<ok, slot>> /\ Within(hdr)
        /\ ok => dhdr' = hdr
    BY <1>13 DEF Commit, WriteBack
  <2> QED BY <2>1 DEF Within
<1> QED
  BY <1>1, <1>2, <1>4, <1>5, <1>6, <1>7, <1>8, <1>9, <1>10, <1>11, <1>12, <1>13, StepKinds
     DEF OpenFails

(***************************************************************************)
(* NoneOutside: every entry is between tail and head, where limit_size     *)
(* finds it, as long as no rebuild and no operation is cut off.            *)
(***************************************************************************)
THEOREM OutsideCorrect ==
  ASSUME Faults \cap {"open", "crash"} = {}
  PROVE  Spec => []NoneOutside
<1>1. Init => TypeInv /\ OutsideInv
  BY InitType DEF Init, OutsideInv, AtRest, Midway
<1>2. TypeInv /\ OutsideInv /\ [Next]_vars => (TypeInv /\ OutsideInv)'
  BY StepType, StepOutside
<1>3. OutsideInv => NoneOutside
  BY DEF OutsideInv, AtRest, Within, NoneOutside
<1> QED BY <1>1, <1>2, <1>3, PTL DEF Spec
-----------------------------------------------------------------------------
(***************************************************************************)
(* Every file has an entry, the one being logged perhaps not yet: it is    *)
(* created before its entry, and by the router once more.  While a rebuild *)
(* scans, what it has still to scan has none; and the entry in the slot    *)
(* that a new one is about to take does not count.                         *)
(***************************************************************************)
ListedBut(j) == {slot[i].file : i \in Idx \ {j}}

ListedInv ==
  /\ ok /\ pc \notin {"scan", "put"} => DOMAIN files \subseteq Listed \cup {logging}
  /\ pc = "scan" => DOMAIN files \subseteq Listed \cup todo \cup {logging}
  /\ pc = "put" => DOMAIN files \subseteq ListedBut(hdr.head) \cup {logging}

\* Nothing but what the file system loses.
Harmless == Faults \subseteq {"move", "expire"}

IndexInv == HeadInv /\ OutsideInv /\ HoleInv /\ ListedInv

LEMMA DirectoryDomains ==
  \A f : DOMAIN With(f) = DOMAIN files \cup {f} /\ DOMAIN Without(f) = DOMAIN files \ {f}
BY DEF With, Without

\* At rest the file being logged has its entry at the head.
LEMMA LoggingListed ==
  ASSUME HeadInv, ok, pc \in {"idle", "rotate"}
  PROVE  logging \in Listed \cup {None}
BY DEF HeadInv, HeadEntry, TypeInv, TypeOK, Listed

\* A step that does not touch the slots may add the file being logged.
LEMMA StillListed ==
  ASSUME ListedInv, UNCHANGED <<slot, hdr, todo, logging>>, ok' = ok,
         DOMAIN files' \subseteq DOMAIN files \cup {logging},
         pc' = pc \/ (pc \notin {"scan", "put"} /\ pc' \notin {"scan", "put"})
  PROVE  ListedInv'
BY DEF ListedInv, Listed, ListedBut

\* The file being logged changes only when the one before has its entry.
LEMMA NewLogging ==
  ASSUME HeadInv, ListedInv, pc \in {"idle", "rotate"}, pc' \in {"idle", "open"},
         UNCHANGED <<slot, ok>>, DOMAIN files' \subseteq DOMAIN files \cup {logging'}
  PROVE  ListedInv'
<1>1. ASSUME ok PROVE DOMAIN files \subseteq Listed
  <2>1. DOMAIN files \subseteq Files /\ None \notin Files
    BY LogDataAssumption DEF HeadInv, TypeInv, TypeOK
  <2> QED BY <1>1, <2>1, LoggingListed DEF ListedInv
<1> QED BY <1>1 DEF ListedInv, Listed

LEMMA StepListed ==
  ASSUME Harmless, IndexInv, [Next]_vars
  PROVE  ListedInv'
<1>0. /\ TypeInv /\ TypeOK /\ HeadInv /\ HasIndex /\ HeadEntry /\ OutsideInv /\ ListedInv
      /\ DOMAIN files \subseteq Files /\ None \notin Files
  BY LogDataAssumption DEF IndexInv, HeadInv, TypeInv, TypeOK
<1>1. ASSUME NEW f \in Files, CreateFile(f) PROVE ListedInv'
  <2>1. pc \in {"idle", "rotate"} /\ pc' = "open" /\ files' = With(f) /\ logging' = f /\ UNCHANGED <<slot, ok>>
    BY <1>1 DEF CreateFile, Harmless, index
  <2> QED BY <1>0, <2>1, DirectoryDomains, NewLogging
<1>2. ASSUME NEW f \in Files, Unlink(f) PROVE ListedInv'
  <2>1. files' = Without(f) /\ UNCHANGED <<slot, hdr, todo, logging, ok, pc>>
    BY <1>2 DEF Unlink, index, logger
  <2> QED BY <1>0, <2>1, DirectoryDomains, StillListed
<1>3. CASE LimitBegin \/ OpenValid \/ TrimDone \/ LowFreeDone \/ RebuildCommit \/ Commit
  <2>1. /\ UNCHANGED <<files, slot, ok, logging>>
        /\ pc \notin {"scan", "put"} /\ pc' \notin {"scan", "put"}
    BY <1>3 DEF LimitBegin, OpenValid, TrimDone, LowFreeDone, RebuildCommit, Commit, AfterOpen, index, logger
  <2> QED BY <1>0, <2>1 DEF ListedInv, Listed
<1>4. CASE OpenRebuild
  <2>1. todo' = DOMAIN files /\ files' = files /\ pc' = "scan"
    BY <1>4 DEF OpenRebuild
  <2> QED BY <2>1 DEF ListedInv
<1>5. ASSUME NEW f \in Files, ScanFile(f) PROVE ListedInv'
  <2>1. /\ pc = "scan" /\ pc' = "scan" /\ todo' = todo \ {f} /\ logging' = logging
        /\ DOMAIN files \subseteq Listed \cup todo \cup {logging}
    BY <1>0, <1>5 DEF ScanFile, ListedInv, logger
  <2>2. CASE hdr.head \in Idx /\ files' = files /\ \A i \in Idx : slot'[i].file = IF i = hdr.head THEN f ELSE slot[i].file
    <3>1. slot[hdr.head].file = None
      BY <1>0, <2>1, <2>2 DEF OutsideInv
    <3>2. Listed' = Listed \cup {f}
      BY <1>0, <2>2, <3>1 DEF Listed
    <3> QED BY <2>1, <2>2, <3>2 DEF ListedInv
  <2>3. CASE slot' = slot /\ files' = Without(f)
    <3>1. Listed' = Listed /\ DOMAIN files' = DOMAIN files \ {f}
      BY <2>3, DirectoryDomains DEF Listed
    <3> QED BY <2>1, <3>1 DEF ListedInv
  <2> QED BY <1>0, <1>5, <2>2, <2>3, ScanFills
<1>6. CASE ScanPad
  <2>1. pc = "scan" /\ pc' = "rebuilt" /\ todo = {} /\ UNCHANGED <<files, slot, logging>>
    BY <1>6 DEF ScanPad, logger
  <2> QED BY <1>0, <2>1 DEF ListedInv, Listed
<1>7. CASE AddEvict
  <2>1. /\ pc = "evict" /\ pc' = "put" /\ slot' = slot /\ logging' = logging /\ ok
        /\ hdr.head \in Idx /\ Succ(hdr.head) \in Idx
        /\ DOMAIN files \subseteq Listed \cup {logging}
    BY <1>0, <1>7, EvictMoves, SuccType DEF AddEvict, HasIndex, ListedInv, logger
  <2>2. CASE slot[hdr.head].file = None /\ hdr' = hdr /\ files' = files
    <3>1. Listed \subseteq ListedBut(hdr.head)
      BY <2>1, <2>2 DEF Listed, ListedBut
    <3> QED BY <2>1, <2>2, <3>1 DEF ListedInv, ListedBut
  <2>3. CASE hdr'.head = Succ(hdr.head) /\ files' = Without(slot[Succ(hdr.head)].file)
    <3>1. Listed \ {slot[Succ(hdr.head)].file} \subseteq ListedBut(Succ(hdr.head))
      BY <2>1 DEF Listed, ListedBut
    <3>2. DOMAIN files' = DOMAIN files \ {slot[Succ(hdr.head)].file}
      BY <2>3, DirectoryDomains
    <3> QED BY <2>1, <2>3, <3>1, <3>2 DEF ListedInv, ListedBut
  <2> QED BY <1>0, <1>7, <2>2, <2>3, EvictMoves
<1>8. CASE AddPut
  <2>1. /\ pc = "put" /\ pc' = "commit" /\ UNCHANGED <<files, logging>> /\ hdr.head \in Idx
        /\ \A i \in Idx : slot'[i].file = IF i = hdr.head THEN logging ELSE slot[i].file
        /\ DOMAIN files \subseteq ListedBut(hdr.head) \cup {logging}
    BY <1>0, <1>8, PutsHead DEF AddPut, ListedInv, logger
  <2>2. (ListedBut(hdr.head) \cup {logging}) \ {None} \subseteq Listed'
    BY <2>1 DEF ListedBut, Listed
  <2> QED BY <1>0, <2>1, <2>2 DEF ListedInv
<1>9. CASE LimitRefresh
  <2>1. /\ pc = "refresh" /\ pc' = "trim" /\ UNCHANGED <<files, logging, ok>>
        /\ \A i \in Idx : slot'[i].file = slot[i].file
    BY <1>0, <1>9, RefreshKeepsFiles DEF LimitRefresh, logger
  <2>2. Listed' = Listed
    BY <2>1 DEF Listed
  <2> QED BY <1>0, <2>1, <2>2 DEF ListedInv
<1>10. CASE TrimSize \/ LowFree
  <2>a. RemoveFile /\ pc \in {"trim", "lowfree"} /\ UNCHANGED <<logging, ok, pc>>
    BY <1>10 DEF TrimSize, LowFree, logger
  <2>b. hdr.tail \in Idx /\ \A i \in Idx : slot'[i].file = IF i = hdr.tail THEN None ELSE slot[i].file
    BY <1>0, <2>a, RemovesTail
  <2>1. /\ files' = Without(slot[hdr.tail].file) /\ hdr.tail \in Idx /\ UNCHANGED <<logging, ok, pc>>
        /\ pc \in {"trim", "lowfree"}
        /\ \A i \in Idx : slot'[i].file = IF i = hdr.tail THEN None ELSE slot[i].file
    BY <2>a, <2>b DEF RemoveFile
  <2>2. Listed \ {slot[hdr.tail].file} \subseteq Listed'
    BY <2>1 DEF Listed
  <2>3. DOMAIN files' = DOMAIN files \ {slot[hdr.tail].file}
    BY <2>1, DirectoryDomains
  <2> QED BY <1>0, <2>1, <2>2, <2>3 DEF ListedInv
<1>11. CASE RouterOpen \/ RouterWrite \/ UNCHANGED vars
  <2>1. /\ UNCHANGED <<slot, hdr, todo, logging, ok, pc>>
        /\ files' = With(logging) \/ DOMAIN files' = DOMAIN files
    BY <1>11 DEF RouterOpen, RouterWrite, vars, index, logger
  <2> QED BY <1>0, <2>1, DirectoryDomains, StillListed
<1>12. CASE Stop
  <2>1. pc \in {"idle", "rotate"} /\ pc' = "idle" /\ UNCHANGED <<slot, ok, files>>
    BY <1>12 DEF Stop, index
  <2> QED BY <1>0, <2>1, NewLogging
<1>13. CASE Clear \/ UnlinkIndex
  <2>1. ~ok' /\ pc' = "idle"
    BY <1>0, <1>13 DEF Clear, UnlinkIndex, Harmless, TypeInv, TypeOK, Named
  <2> QED BY <2>1 DEF ListedInv
<1>14. ~OpenFails /\ ~Crash
  BY DEF Harmless, OpenFails, Crash
<1> QED
  BY <1>1, <1>2, <1>3, <1>4, <1>5, <1>6, <1>7, <1>8, <1>9, <1>10, <1>11, <1>12, <1>13, <1>14
  DEF Next, Operation

\* All of it at once, for whoever needs more than one part.
LEMMA IndexInductive ==
  ASSUME Harmless
  PROVE  (Init => IndexInv) /\ (IndexInv /\ [Next]_vars => IndexInv')
<1>1. /\ IndexReliable /\ "crash" \notin Faults /\ Faults \cap {"open", "crash"} = {}
  BY DEF Harmless, IndexReliable
<1>2. Init => IndexInv
  <2> SUFFICES ASSUME Init PROVE IndexInv
    OBVIOUS
  <2>1. DOMAIN files = {}
    BY EmptyDirectory DEF Init
  <2>2. HoleInv /\ OutsideInv /\ ListedInv
    BY <2>1 DEF Init, HoleInv, OutsideInv, ListedInv, AtRest, Midway
  <2> QED BY <2>2, InitHead DEF IndexInv
<1>3. IndexInv /\ [Next]_vars => IndexInv'
  BY <1>1, StepHead, StepHole, StepOutside, StepListed DEF IndexInv, HeadInv
<1> QED BY <1>2, <1>3

(***************************************************************************)
(* EveryFileListed: no log file escapes the accounting, whatever a rebuild *)
(* finds, the ring evicts, or the router and others do to the directory    *)
(* meanwhile, as long as the index opens and no operation is cut off.      *)
(***************************************************************************)
THEOREM ListedCorrect == ASSUME Harmless PROVE Spec => []EveryFileListed
<1>1. IndexInv => EveryFileListed
  <2> SUFFICES ASSUME IndexInv, ok, pc \in {"idle", "rotate"} PROVE DOMAIN files \subseteq Listed
    BY DEF EveryFileListed
  <2>1. DOMAIN files \subseteq Files /\ None \notin Files
    BY LogDataAssumption DEF IndexInv, HeadInv, TypeInv, TypeOK
  <2>2. DOMAIN files \subseteq Listed \cup {logging} /\ logging \in Listed \cup {None}
    BY LoggingListed DEF IndexInv, ListedInv
  <2> QED BY <2>1, <2>2
<1>2. Init => IndexInv
  BY IndexInductive
<1>3. IndexInv /\ [Next]_vars => IndexInv'
  BY IndexInductive
<1> QED BY <1>1, <1>2, <1>3, PTL DEF Spec
-----------------------------------------------------------------------------
(***************************************************************************)
(* The sum of a function over a finite set of indices, as SumFunction      *)
(* computes it: an index is chosen and taken out until none is left.       *)
(***************************************************************************)
Some(s) == CHOOSE x \in s : TRUE
Others(s) == s \ {Some(s)}

Summed(g, f, S) ==
  g = [s \in SUBSET S |-> IF s = {} THEN 0 ELSE f[Some(s)] + g[Others(s)]]
Sums(f, S) == CHOOSE g : Summed(g, f, S)
Sum(f, S) == Sums(f, S)[S]

LEMMA SumIsSumFunction == ASSUME NEW f PROVE SumFunction(f) = Sum(f, DOMAIN f)
BY DEF SumFunction, SumFunctionOnSet, FoldFunctionOnSet, MapThenFoldSet, Sum, Sums, Summed, Some,
       Others

LEMMA SomeOther ==
  ASSUME NEW s, s # {}
  PROVE  Some(s) \in s /\ Others(s) \subseteq s /\ Others(s) # s
BY DEF Some, Others

\* Among some subsets of a finite set there is one that is minimal.
LEMMA MinimalSubset ==
  ASSUME NEW S, IsFiniteSet(S), NEW T \in SUBSET (SUBSET S), T # {}
  PROVE  \E m \in T : \A s \in T : s \subseteq m => s = m
<1>1. IsWellFoundedOn(StrictSubsetOrdering(S), SUBSET S)
  BY FS_StrictSubsetOrderingWellFounded, FS_FiniteSubsetsOfFinite
<1>2. PICK m \in T : \A s \in T : <<s, m>> \notin StrictSubsetOrdering(S)
  BY <1>1, WFMin
<1> QED
  BY <1>2 DEF StrictSubsetOrdering

\* There is at most one such function of the subsets,
LEMMA SummedOnce ==
  ASSUME NEW S, IsFiniteSet(S), NEW f, NEW g, NEW h, Summed(g, f, S), Summed(h, f, S)
  PROVE  \A s \in SUBSET S : g[s] = h[s]
<1> DEFINE T == {s \in SUBSET S : g[s] # h[s]}
<1> SUFFICES ASSUME T # {} PROVE FALSE
  OBVIOUS
<1>1. PICK m \in T : \A s \in T : s \subseteq m => s = m
  <2>1. T \in SUBSET (SUBSET S)
    OBVIOUS
  <2> HIDE DEF T
  <2> QED
    BY <2>1, MinimalSubset
<1>2. CASE m = {}
  BY <1>1, <1>2 DEF Summed
<1>3. CASE m # {}
  <2>1. Others(m) \in SUBSET S /\ Others(m) \subseteq m /\ Others(m) # m
    BY <1>1, <1>3, SomeOther
  <2>2. g[Others(m)] = h[Others(m)]
    BY <1>1, <2>1
  <2>3. g[m] = f[Some(m)] + g[Others(m)]
    BY <1>1, <1>3 DEF Summed
  <2>4. h[m] = f[Some(m)] + h[Others(m)]
    BY <1>1, <1>3 DEF Summed
  <2> QED
    BY <1>1, <2>2, <2>3, <2>4
<1> QED
  BY <1>2, <1>3

\* what it says of a set it says of the set's subsets,
Cut(g, R) == [s \in SUBSET R |-> g[s]]

LEMMA SummedSubset ==
  ASSUME NEW S, NEW R \in SUBSET S, NEW f, NEW g, Summed(g, f, S)
  PROVE  Summed(Cut(g, R), f, R)
<1> DEFINE h == Cut(g, R)
<1>1. ASSUME NEW s \in SUBSET R
      PROVE  h[s] = IF s = {} THEN 0 ELSE f[Some(s)] + h[Others(s)]
  <2>1. g[s] = IF s = {} THEN 0 ELSE f[Some(s)] + g[Others(s)]
    BY DEF Summed
  <2>2. s # {} => Others(s) \in SUBSET R
    BY SomeOther
  <2> QED
    BY <2>1, <2>2 DEF Cut
<1>2. h = [s \in SUBSET R |-> IF s = {} THEN 0 ELSE f[Some(s)] + h[Others(s)]]
  BY <1>1 DEF Cut
<1> QED
  BY <1>2 DEF Summed

\* and there is one.
LEMMA SumsExist ==
  ASSUME NEW S, IsFiniteSet(S), NEW f
  PROVE  \A R \in SUBSET S : Summed(Sums(f, R), f, R)
<1> DEFINE T == {R \in SUBSET S : ~Summed(Sums(f, R), f, R)}
<1> SUFFICES ASSUME T # {} PROVE FALSE
  OBVIOUS
<1>1. PICK m \in T : \A s \in T : s \subseteq m => s = m
  <2>1. T \in SUBSET (SUBSET S)
    OBVIOUS
  <2> HIDE DEF T
  <2> QED
    BY <2>1, MinimalSubset
<1>2. ASSUME NEW R \in SUBSET m, R # m PROVE Summed(Sums(f, R), f, R)
  BY <1>1, <1>2
<1>3. ASSUME NEW R \in SUBSET m, R # m, NEW s \in SUBSET R PROVE Sums(f, R)[s] = Sum(f, s)
  <2>1. Summed(Cut(Sums(f, R), s), f, s)
    BY <1>2, <1>3, SummedSubset
  <2>2. Summed(Sums(f, s), f, s)
    BY <1>2, <1>3
  <2>3. IsFiniteSet(s)
    BY <1>1, FS_Subset
  <2>4. Cut(Sums(f, R), s)[s] = Sums(f, s)[s]
    BY <2>1, <2>2, <2>3, SummedOnce
  <2> QED
    BY <2>4 DEF Sum, Cut
<1> DEFINE h == [s \in SUBSET m |-> IF s = {} THEN 0 ELSE f[Some(s)] + Sum(f, Others(s))]
<1>4. ASSUME NEW s \in SUBSET m, s # m PROVE Sum(f, s) = h[s]
  <2>1. Summed(Sums(f, s), f, s)
    BY <1>2, <1>4
  <2>2. Sums(f, s)[s] = IF s = {} THEN 0 ELSE f[Some(s)] + Sums(f, s)[Others(s)]
    BY <2>1 DEF Summed
  <2>3. s # {} => Sums(f, s)[Others(s)] = Sum(f, Others(s))
    BY <1>3, <1>4, SomeOther
  <2> QED
    BY <2>2, <2>3 DEF Sum
<1>5. ASSUME NEW s \in SUBSET m
      PROVE  h[s] = IF s = {} THEN 0 ELSE f[Some(s)] + h[Others(s)]
  <2>1. s # {} => Others(s) \in SUBSET m /\ Others(s) # m
    BY SomeOther
  <2>2. s # {} => Sum(f, Others(s)) = h[Others(s)]
    BY <1>4, <2>1
  <2> QED
    BY <2>2
<1>6. Summed(h, f, m)
  <2>1. h = [s \in SUBSET m |-> IF s = {} THEN 0 ELSE f[Some(s)] + h[Others(s)]]
    BY <1>5
  <2> QED
    BY <2>1 DEF Summed
<1>7. Summed(Sums(f, m), f, m)
  BY <1>6 DEF Sums
<1> QED
  BY <1>1, <1>7

LEMMA SumStep ==
  ASSUME NEW S, IsFiniteSet(S), NEW f, NEW R \in SUBSET S
  PROVE  Sum(f, R) = IF R = {} THEN 0 ELSE f[Some(R)] + Sum(f, Others(R))
<1>1. Summed(Sums(f, R), f, R)
  BY SumsExist
<1>2. Sums(f, R)[R] = IF R = {} THEN 0 ELSE f[Some(R)] + Sums(f, R)[Others(R)]
  BY <1>1 DEF Summed
<1>3. ASSUME R # {} PROVE Sums(f, R)[Others(R)] = Sum(f, Others(R))
  <2> DEFINE o == Others(R)
  <2>1. o \in SUBSET R
    BY <1>3, SomeOther
  <2>2. Summed(Cut(Sums(f, R), o), f, o)
    BY <1>1, <2>1, SummedSubset
  <2>3. Summed(Sums(f, o), f, o) /\ IsFiniteSet(o)
    BY <2>1, SumsExist, FS_Subset
  <2>4. Cut(Sums(f, R), o)[o] = Sums(f, o)[o]
    BY <2>2, <2>3, SummedOnce
  <2> QED
    BY <2>4 DEF Sum, Cut
<1> QED
  BY <1>2, <1>3 DEF Sum

\* The sum of natural numbers is a natural number, and zero if they are.
LEMMA SumType ==
  ASSUME NEW S, IsFiniteSet(S), NEW f, \A x \in S : f[x] \in Nat
  PROVE  \A R \in SUBSET S : Sum(f, R) \in Nat /\ ((\A x \in R : f[x] = 0) => Sum(f, R) = 0)
<1> DEFINE Good(R) == Sum(f, R) \in Nat /\ ((\A x \in R : f[x] = 0) => Sum(f, R) = 0)
           T == {R \in SUBSET S : ~Good(R)}
<1> SUFFICES ASSUME T # {} PROVE FALSE
  OBVIOUS
<1>1. PICK m \in T : \A s \in T : s \subseteq m => s = m
  <2>1. T \in SUBSET (SUBSET S)
    OBVIOUS
  <2> HIDE DEF T
  <2> QED
    BY <2>1, MinimalSubset
<1>2. m \in SUBSET S /\ ~Good(m)
  BY <1>1
<1>3. Sum(f, m) = IF m = {} THEN 0 ELSE f[Some(m)] + Sum(f, Others(m))
  BY <1>2, SumStep
<1>4. CASE m = {}
  BY <1>2, <1>3, <1>4
<1>5. CASE m # {}
  <2>1. Some(m) \in m /\ Others(m) \subseteq m /\ Others(m) # m
    BY <1>5, SomeOther
  <2>2. Good(Others(m))
    BY <1>1, <1>2, <2>1
  <2>3. f[Some(m)] \in Nat
    BY <1>2, <2>1
  <2> QED
    BY <1>2, <1>3, <1>5, <2>1, <2>2, <2>3
<1> QED
  BY <1>4, <1>5

\* It does not depend on the index that is taken out first.
LEMMA SumTakeOut ==
  ASSUME NEW S, IsFiniteSet(S), NEW f, \A x \in S : f[x] \in Nat
  PROVE  \A R \in SUBSET S : \A a \in R : Sum(f, R) = f[a] + Sum(f, R \ {a})
<1> DEFINE T == {R \in SUBSET S : \E a \in R : Sum(f, R) # f[a] + Sum(f, R \ {a})}
<1> SUFFICES ASSUME T # {} PROVE FALSE
  OBVIOUS
<1>1. PICK m \in T : \A s \in T : s \subseteq m => s = m
  <2>1. T \in SUBSET (SUBSET S)
    OBVIOUS
  <2> HIDE DEF T
  <2> QED
    BY <2>1, MinimalSubset
<1>2. PICK a \in m : Sum(f, m) # f[a] + Sum(f, m \ {a})
  BY <1>1
<1>3. m \in SUBSET S /\ m # {}
  BY <1>1, <1>2
<1> DEFINE b == Some(m)
           rest == (m \ {a}) \ {b}
<1>4. b \in m /\ Others(m) = m \ {b} /\ Sum(f, m) = f[b] + Sum(f, m \ {b})
  BY <1>3, SumStep, SomeOther DEF Others
<1> HIDE DEF b
<1>5. a # b
  BY <1>2, <1>4
<1>6. Sum(f, m \ {b}) = f[a] + Sum(f, (m \ {b}) \ {a})
  <2>1. m \ {b} \in SUBSET S /\ m \ {b} \subseteq m /\ m \ {b} # m /\ a \in m \ {b}
    BY <1>3, <1>4, <1>5
  <2>2. m \ {b} \notin T
    BY <1>1, <2>1
  <2> QED
    BY <2>1, <2>2
<1>7. Sum(f, m \ {a}) = f[b] + Sum(f, rest)
  <2>1. m \ {a} \in SUBSET S /\ m \ {a} \subseteq m /\ m \ {a} # m /\ b \in m \ {a}
    BY <1>2, <1>3, <1>4, <1>5
  <2>2. m \ {a} \notin T
    BY <1>1, <2>1
  <2> QED
    BY <2>1, <2>2
<1>8. (m \ {b}) \ {a} = rest
  OBVIOUS
<1>9. f[a] \in Nat /\ f[b] \in Nat /\ Sum(f, rest) \in Nat
  <2>1. rest \in SUBSET S /\ a \in S /\ b \in S
    BY <1>2, <1>3, <1>4
  <2> QED
    BY <2>1, SumType
<1> HIDE DEF rest
<1>10. f[b] + (f[a] + Sum(f, rest)) = f[a] + (f[b] + Sum(f, rest))
  BY <1>9
<1> QED
  BY <1>2, <1>4, <1>6, <1>7, <1>8, <1>10

\* It depends on the values at the indices only.
LEMMA SumAgrees ==
  ASSUME NEW S, IsFiniteSet(S), NEW f, NEW g, \A x \in S : f[x] = g[x]
  PROVE  \A R \in SUBSET S : Sum(f, R) = Sum(g, R)
<1> DEFINE T == {R \in SUBSET S : Sum(f, R) # Sum(g, R)}
<1> SUFFICES ASSUME T # {} PROVE FALSE
  OBVIOUS
<1>1. PICK m \in T : \A s \in T : s \subseteq m => s = m
  <2>1. T \in SUBSET (SUBSET S)
    OBVIOUS
  <2> HIDE DEF T
  <2> QED
    BY <2>1, MinimalSubset
<1>2. /\ Sum(f, m) = IF m = {} THEN 0 ELSE f[Some(m)] + Sum(f, Others(m))
      /\ Sum(g, m) = IF m = {} THEN 0 ELSE g[Some(m)] + Sum(g, Others(m))
  BY <1>1, SumStep
<1>3. ASSUME m # {} PROVE f[Some(m)] = g[Some(m)] /\ Sum(f, Others(m)) = Sum(g, Others(m))
  BY <1>1, <1>3, SomeOther
<1> QED
  BY <1>1, <1>2, <1>3

\* What a new value at one index does to the sum.
LEMMA SumReplaces ==
  ASSUME NEW S, IsFiniteSet(S), NEW f \in [S -> Nat], NEW g \in [S -> Nat], NEW i \in S,
         \A x \in S \ {i} : f[x] = g[x]
  PROVE  /\ Sum(f, S) \in Nat /\ Sum(g, S) \in Nat
         /\ Sum(f, S) >= f[i] /\ Sum(g, S) = Sum(f, S) - f[i] + g[i]
<1> DEFINE R == S \ {i}
<1>1. R \in SUBSET S /\ IsFiniteSet(R) /\ S \in SUBSET S /\ R \in SUBSET R
  BY FS_Subset
<1>2. Sum(f, S) = f[i] + Sum(f, R) /\ Sum(g, S) = g[i] + Sum(g, R)
  BY <1>1, SumTakeOut
<1>3. Sum(f, R) = Sum(g, R)
  BY <1>1, SumAgrees
<1>4. f[i] \in Nat /\ g[i] \in Nat /\ Sum(f, R) \in Nat
  BY <1>1, SumType
<1> HIDE DEF R
<1> QED
  BY <1>2, <1>3, <1>4
-----------------------------------------------------------------------------
(***************************************************************************)
(* The total of the header is the sum of the sizes the entries record,     *)
(* except between the two writes of add_file, when the head's slot still   *)
(* holds the evicted entry whose size the total has already given up.      *)
(***************************************************************************)
Sizes == [i \in Idx |-> slot[i].size]
Recorded == Sum(Sizes, Idx)

TotalInv ==
  /\ \A i \in Idx : slot[i].file = None => slot[i].size = 0
  /\ pc \in AtRest /\ ok => dhdr.total = Recorded
  /\ pc = "scan" \/ pc \in Midway \ {"put"} => hdr.total = Recorded
  /\ pc = "put" => hdr.total = Recorded - slot[hdr.head].size

\* An entry has a size no larger than the sum, which follows when it changes.
LEMMA OneResized ==
  ASSUME TypeOK, TypeOK', NEW i \in Idx,
         \A j \in Idx \ {i} : slot'[j].size = slot[j].size
  PROVE  /\ Recorded \in Nat /\ Recorded' \in Nat /\ Recorded >= slot[i].size
         /\ Recorded' = Recorded - slot[i].size + slot'[i].size
<1>1. Sizes \in [Idx -> Nat] /\ Sizes' \in [Idx -> Nat]
  BY DEF TypeOK, Sizes
<1>2. \A j \in Idx \ {i} : Sizes[j] = Sizes'[j]
  BY DEF Sizes
<1>3. IsFiniteSet(Idx)
  BY FS_Interval, LogDataAssumption
<1>4. Sizes[i] = slot[i].size /\ Sizes'[i] = slot'[i].size
  BY DEF Sizes
<1>5. /\ Recorded \in Nat /\ Recorded' \in Nat /\ Recorded >= Sizes[i]
      /\ Recorded' = Recorded - Sizes[i] + Sizes'[i]
  <2> HIDE DEF Idx
  <2> QED
    BY <1>1, <1>2, <1>3, SumReplaces DEF Recorded
<1> QED
  BY <1>4, <1>5

LEMMA NoneRecorded == ASSUME slot' = NoSlots PROVE Recorded' = 0
<1>1. \A i \in Idx : Sizes'[i] \in Nat /\ Sizes'[i] = 0
  BY DEF Sizes, NoSlots, NoEntry
<1>2. IsFiniteSet(Idx)
  BY FS_Interval, LogDataAssumption
<1> HIDE DEF Idx
<1>3. Idx \in SUBSET Idx
  OBVIOUS
<1> QED
  BY <1>1, <1>2, <1>3, SumType DEF Recorded

LEMMA SizesKept == ASSUME slot' = slot PROVE Recorded' = Recorded
BY DEF Recorded, Sizes

\* What the steps that change an entry do to its size and to the total.
LEMMA RemovesSize ==
  ASSUME TypeOK, pc # "scan", RemoveFile
  PROVE  /\ hdr'.total = Less(hdr.total, slot[hdr.tail].size)
         /\ \A i \in Idx : slot'[i].size = IF i = hdr.tail THEN 0 ELSE slot[i].size
<1>1. /\ hdr.tail \in Idx
      /\ slot' = [slot EXCEPT ![hdr.tail] = NoEntry]
      /\ hdr' = [hdr EXCEPT !.tail = Succ(@), !.total = Less(@, slot[hdr.tail].size)]
  BY DEF RemoveFile, TypeOK
<1>2. hdr'.total = Less(hdr.total, slot[hdr.tail].size)
  BY <1>1, HeaderFields
<1>3. ASSUME NEW i \in Idx PROVE slot'[i].size = IF i = hdr.tail THEN 0 ELSE slot[i].size
  BY <1>1 DEF TypeOK, NoEntry
<1> QED BY <1>2, <1>3

LEMMA PutsSize ==
  ASSUME TypeInv, AddPut
  PROVE  /\ hdr'.total = hdr.total + FileSize(logging)
         /\ \A i \in Idx : slot'[i].size = IF i = hdr.head THEN FileSize(logging) ELSE slot[i].size
<1>1. /\ hdr.head \in Idx
      /\ slot' = [slot EXCEPT ![hdr.head] = [file |-> logging, size |-> FileSize(logging)]]
      /\ hdr' = [hdr EXCEPT !.total = @ + FileSize(logging)]
  BY DEF AddPut, TypeInv, TypeOK
<1>2. hdr'.total = hdr.total + FileSize(logging)
  BY <1>1, HeaderFields DEF TypeInv
<1>3. ASSUME NEW i \in Idx
      PROVE  slot'[i].size = IF i = hdr.head THEN FileSize(logging) ELSE slot[i].size
  BY <1>1 DEF TypeInv, TypeOK
<1> QED BY <1>2, <1>3

LEMMA RefreshSize ==
  ASSUME TypeOK, LimitRefresh, slot[hdr.head].file # None
  PROVE  LET size == FileSize(slot[hdr.head].file)
         IN  /\ hdr'.total = Resize(hdr.total, slot[hdr.head].size, size)
             /\ \A i \in Idx : slot'[i].size = IF i = hdr.head THEN size ELSE slot[i].size
<1> DEFINE size == FileSize(slot[hdr.head].file)
<1>1. /\ hdr.head \in Idx
      /\ slot' = [slot EXCEPT ![hdr.head].size = size]
      /\ hdr' = [hdr EXCEPT !.total = Resize(@, slot[hdr.head].size, size)]
  BY DEF LimitRefresh, TypeOK
<1> HIDE DEF size
<1>2. hdr'.total = Resize(hdr.total, slot[hdr.head].size, size)
  BY <1>1, HeaderFields
<1>3. ASSUME NEW i \in Idx PROVE slot'[i].size = IF i = hdr.head THEN size ELSE slot[i].size
  BY <1>1, HeaderFields DEF TypeOK
<1> QED BY <1>2, <1>3 DEF size

LEMMA ScanSize ==
  ASSUME TypeOK, NEW f \in Files, ScanFile(f), hdr.head \in Idx
  PROVE  /\ hdr'.total = hdr.total + FileSize(f)
         /\ \A i \in Idx : slot'[i].size = IF i = hdr.head THEN FileSize(f) ELSE slot[i].size
<1>1. /\ slot' = [slot EXCEPT ![hdr.head] = [file |-> f, size |-> FileSize(f)]]
      /\ hdr' = [hdr EXCEPT !.head = @ + 1, !.total = @ + FileSize(f)]
  BY LogDataAssumption DEF ScanFile
<1>2. hdr'.total = hdr.total + FileSize(f)
  BY <1>1, HeaderFields
<1>3. ASSUME NEW i \in Idx PROVE slot'[i].size = IF i = hdr.head THEN FileSize(f) ELSE slot[i].size
  BY <1>1 DEF TypeOK
<1> QED BY <1>2, <1>3

LEMMA EvictSize ==
  ASSUME TypeOK, AddEvict, slot[hdr.head].file # None
  PROVE  hdr'.total = Less(hdr.total, slot[Succ(hdr.head)].size)
BY DEF AddEvict

LEMMA StepTotal ==
  ASSUME Faults \cap {"open", "crash"} = {}, TypeInv, OutsideInv, TotalInv, [Next]_vars
  PROVE  TotalInv'
<1> USE DEF TotalInv, AtRest, Midway
<1>0. TypeOK /\ TypeOK'
  BY StepType DEF TypeInv
<1>1. CASE Still
  BY <1>1, SizesKept DEF Still
<1>2. CASE Emptied
  BY <1>2 DEF Emptied, NoSlots, NoEntry
<1>3. CASE OpenValid
  BY <1>3, SizesKept DEF OpenValid, AfterOpen, index
<1>4. CASE OpenRebuild
  <2>1. slot' = NoSlots /\ hdr' = ZeroHeader /\ pc' = "scan"
    BY <1>4 DEF OpenRebuild
  <2>2. Recorded' = 0
    BY <2>1, NoneRecorded
  <2> QED BY <2>1, <2>2 DEF NoSlots, NoEntry, ZeroHeader
<1>5. ASSUME NEW f \in Files, ScanFile(f) PROVE TotalInv'
  <2>1. pc = "scan" /\ pc' = "scan" /\ hdr.total = Recorded
    BY <1>0, <1>5, ScanFills
  <2>2. CASE hdr.head \in Idx
    <3>1. slot[hdr.head].size = 0 /\ f # None
      BY <2>1, <2>2, LogDataAssumption DEF OutsideInv
    <3>2. /\ hdr'.total = hdr.total + FileSize(f)
          /\ \A i \in Idx : slot'[i].size = IF i = hdr.head THEN FileSize(f) ELSE slot[i].size
      BY <1>0, <1>5, <2>2, ScanSize
    <3>3. \A i \in Idx : slot'[i].file = IF i = hdr.head THEN f ELSE slot[i].file
      BY <1>0, <1>5, <2>2, ScanFills, LogDataAssumption
    <3>4. FileSize(f) \in Nat
      BY <1>0, FileSizeType
    <3>5. /\ Recorded \in Nat
          /\ Recorded' = Recorded - slot[hdr.head].size + slot'[hdr.head].size
      BY <1>0, <2>2, <3>2, OneResized
    <3>6. hdr'.total = Recorded'
      BY <2>1, <2>2, <3>1, <3>2, <3>4, <3>5
    <3> QED BY <2>1, <3>1, <3>2, <3>3, <3>6
  <2>3. CASE hdr.head \notin Idx
    BY <1>0, <1>5, <2>1, <2>3, ScanFills, SizesKept
  <2> QED BY <2>2, <2>3
<1>6. CASE ScanPad
  <2>1. pc = "scan" /\ pc' = "rebuilt" /\ slot' = slot /\ hdr'.total = hdr.total
    BY <1>0, <1>6, HeaderFields DEF ScanPad
  <2> QED BY <2>1, SizesKept
<1>7. CASE RebuildCommit
  BY <1>7, SizesKept DEF RebuildCommit, AfterOpen
<1>8. CASE AddEvict
  <2>1. pc = "evict" /\ pc' = "put" /\ slot' = slot /\ hdr.total = Recorded /\ hdr.head \in Idx
    BY <1>0, <1>8, EvictMoves
  <2>2. Recorded' = Recorded
    BY <2>1, SizesKept
  <2>3. CASE slot[hdr.head].file = None
    <3>1. hdr' = hdr /\ slot[hdr.head].size = 0
      BY <1>0, <1>8, <2>1, <2>3, EvictMoves
    <3>2. Recorded \in Nat
      BY <1>0, <2>1, OneResized
    <3>3. hdr'.total = Recorded' - slot'[hdr'.head].size
      BY <2>1, <2>2, <3>1, <3>2
    <3> QED BY <2>1, <3>3
  <2>4. CASE slot[hdr.head].file # None
    <3> DEFINE head == Succ(hdr.head)
    <3>1. head \in Idx /\ slot[head].size \in Nat
      BY <1>0, <2>1, SuccType, HeaderFields
    <3>2. hdr'.head = head /\ hdr'.total = Less(hdr.total, slot[head].size)
      BY <1>0, <1>8, <2>4, EvictMoves, EvictSize
    <3> HIDE DEF head
    <3>3. Recorded \in Nat /\ Recorded >= slot[head].size
      BY <1>0, <2>1, <3>1, OneResized
    <3>4. hdr'.total = Recorded - slot[head].size
      BY <2>1, <3>1, <3>2, <3>3 DEF Less
    <3> QED BY <2>1, <2>2, <3>2, <3>4
  <2> QED BY <2>3, <2>4
<1>9. CASE AddPut
  <2>1. /\ pc = "put" /\ pc' = "commit" /\ hdr.head \in Idx /\ logging # None
        /\ hdr.total = Recorded - slot[hdr.head].size
        /\ \A i \in Idx : slot'[i].file = IF i = hdr.head THEN logging ELSE slot[i].file
    BY <1>9, PutsHead
  <2>2. /\ hdr'.total = hdr.total + FileSize(logging)
        /\ \A i \in Idx : slot'[i].size = IF i = hdr.head THEN FileSize(logging) ELSE slot[i].size
    BY <1>9, PutsSize
  <2>3. FileSize(logging) \in Nat /\ slot[hdr.head].size \in Nat
    BY <1>0, <2>1, FileSizeType, HeaderFields
  <2>4. Recorded \in Nat /\ Recorded' = Recorded - slot[hdr.head].size + slot'[hdr.head].size
    BY <1>0, <2>1, <2>2, OneResized
  <2>5. hdr'.total = Recorded'
    BY <2>1, <2>2, <2>3, <2>4
  <2> QED BY <2>1, <2>2, <2>5
<1>10. CASE LimitRefresh
  <2>1. /\ pc = "refresh" /\ pc' = "trim" /\ hdr.total = Recorded /\ hdr.head \in Idx
        /\ \A i \in Idx : slot'[i].file = slot[i].file
    BY <1>0, <1>10, RefreshKeepsFiles DEF TypeOK
  <2>2. CASE slot[hdr.head].file = None
    <3>1. slot' = slot /\ hdr' = hdr
      BY <1>10, <2>2 DEF LimitRefresh
    <3> QED BY <2>1, <3>1, SizesKept
  <2>3. CASE slot[hdr.head].file # None
    <3> DEFINE size == FileSize(slot[hdr.head].file)
    <3>1. /\ hdr'.total = Resize(hdr.total, slot[hdr.head].size, size)
          /\ \A i \in Idx : slot'[i].size = IF i = hdr.head THEN size ELSE slot[i].size
      BY <1>0, <1>10, <2>3, RefreshSize
    <3>2. size \in Nat /\ slot[hdr.head].size \in Nat
      BY <1>0, <2>1, FileSizeType, HeaderFields
    <3> HIDE DEF size
    <3>3. /\ Recorded \in Nat /\ Recorded >= slot[hdr.head].size
          /\ Recorded' = Recorded - slot[hdr.head].size + slot'[hdr.head].size
      BY <1>0, <2>1, <3>1, OneResized
    <3>4. hdr'.total = Recorded'
      BY <2>1, <3>1, <3>2, <3>3 DEF Resize, Less
    <3> QED BY <2>1, <2>3, <3>1, <3>4
  <2> QED BY <2>2, <2>3
<1>11. CASE TrimSize \/ LowFree
  <2>1. /\ RemoveFile /\ pc' = pc /\ pc \in {"trim", "lowfree"} /\ hdr.total = Recorded
        /\ hdr.tail \in Idx
    BY <1>11, Removes DEF TypeOK
  <2>2. /\ hdr'.total = Less(hdr.total, slot[hdr.tail].size)
        /\ \A i \in Idx : slot'[i].size = IF i = hdr.tail THEN 0 ELSE slot[i].size
    BY <1>0, <2>1, RemovesSize
  <2>3. /\ Recorded \in Nat /\ Recorded >= slot[hdr.tail].size /\ slot[hdr.tail].size \in Nat
        /\ Recorded' = Recorded - slot[hdr.tail].size + slot'[hdr.tail].size
    BY <1>0, <2>1, <2>2, OneResized, HeaderFields
  <2>4. hdr'.total = Recorded'
    BY <2>1, <2>2, <2>3 DEF Less
  <2>5. \A i \in Idx : slot'[i].file = IF i = hdr.tail THEN None ELSE slot[i].file
    BY <1>0, <2>1, RemovesTail
  <2> QED BY <2>1, <2>2, <2>4, <2>5
<1>12. CASE Commit
  BY <1>12, SizesKept DEF Commit, WriteBack
<1> QED
  BY <1>1, <1>2, <1>3, <1>4, <1>5, <1>6, <1>7, <1>8, <1>9, <1>10, <1>11, <1>12, StepKinds
     DEF OpenFails

(***************************************************************************)
(* TotalIsSum: the total that limit_size compares with the limit is the    *)
(* sum of the recorded sizes at every rest of the index; the clamp at zero *)
(* of a removal never applies, because no entry exceeds the sum.           *)
(***************************************************************************)
THEOREM TotalCorrect ==
  ASSUME Faults \cap {"open", "crash"} = {}
  PROVE  Spec => []TotalIsSum
<1> DEFINE IInv == TypeInv /\ OutsideInv /\ TotalInv
<1>1. Init => IInv
  <2>1. Init => OutsideInv /\ TotalInv
    BY DEF Init, OutsideInv, TotalInv, AtRest, Midway, NoSlots, NoEntry
  <2> QED BY <2>1, InitType
<1>2. IInv /\ [Next]_vars => IInv'
  BY StepType, StepOutside, StepTotal
<1>3. IInv => TotalIsSum
  <2>1. DOMAIN Sizes = Idx
    BY DEF Sizes
  <2>2. SumFunction(Sizes) = Recorded
    BY <2>1, SumIsSumFunction DEF Recorded
  <2> QED BY <2>2 DEF TotalInv, AtRest, TotalIsSum, Sizes
<1> QED BY <1>1, <1>2, <1>3, PTL DEF Spec
=============================================================================
