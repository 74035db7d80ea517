------------------------- MODULE LogDataFifo_proofs -------------------------
(***************************************************************************)
(* The log index implements the queue of LogFifo, for any number of files  *)
(* and slots: the initial state is an initial state of the queue, and each *)
(* step of the index is a step of the queue or leaves it alone.            *)
(***************************************************************************)
EXTENDS LogDataFifo, LogData_proofs, SequenceTheorems

USE DEF Entry, Header, Idx

(***************************************************************************)
(* The window as a sequence of slots.                                      *)
(***************************************************************************)
LEMMA WindowSlots ==
  ASSUME NEW h, h.head \in Idx, h.tail \in Idx
  PROVE  /\ WindowLen(h) \in 1 .. Count
         /\ WindowLen(h) = 1 <=> h.head = h.tail
         /\ Nth(h, WindowLen(h)) = h.head
         /\ Nth(h, 1) = h.tail
         /\ \A k \in 1 .. WindowLen(h) :
              /\ Nth(h, k) \in Idx /\ InWindow(h, Nth(h, k))
              /\ Nth(h, k) = h.head => k = WindowLen(h)
              /\ Nth(h, k) = h.tail => k = 1
BY LogDataAssumption DEF WindowLen, Nth, InWindow

\* remove_file: the second slot becomes the first.
LEMMA TailMovesOn ==
  ASSUME NEW h, NEW n, h.head \in Idx, h.tail \in Idx, h.head # h.tail,
         n.head = h.head, n.tail = Succ(h.tail)
  PROVE  /\ n.tail \in Idx /\ WindowLen(n) = WindowLen(h) - 1
         /\ \A k \in 1 .. WindowLen(n) : Nth(n, k) = Nth(h, k + 1)
BY LogDataAssumption DEF WindowLen, Nth, Succ

\* add_file: the head moves to a slot of its own, or to the tail's in a full ring.
LEMMA HeadMovesOn ==
  ASSUME NEW h, NEW n, h.head \in Idx, h.tail \in Idx,
         n.head = Succ(h.head), n.tail = PushTail(h.tail, Succ(h.head))
  PROVE  /\ n.head \in Idx /\ n.tail \in Idx
         /\ \/ /\ WindowLen(n) = WindowLen(h) + 1
               /\ \A k \in 1 .. WindowLen(h) : Nth(n, k) = Nth(h, k)
            \/ /\ WindowLen(h) = Count /\ WindowLen(n) = Count
               /\ \A k \in 1 .. Count - 1 : Nth(n, k) = Nth(h, k + 1)
BY LogDataAssumption DEF WindowLen, Nth, Succ, PushTail
-----------------------------------------------------------------------------
(***************************************************************************)
(* What a rebuild has scanned so far: each file once, and not to be        *)
(* scanned again.  Only the queue a rebuild leaves depends on this.        *)
(***************************************************************************)
ScannedOnce ==
  pc = "scan" =>
    \A i \in Idx : i < hdr.head =>
      /\ slot[i].file \in Files \ todo
      /\ \A j \in Idx : j < hdr.head /\ slot[j].file = slot[i].file => i = j

FifoInv == IndexInv /\ ScannedOnce

LEMMA StepScanned == ASSUME TypeInv, ScannedOnce, [Next]_vars PROVE ScannedOnce'
<1>0. TypeOK
  BY DEF TypeInv
<1>1. CASE OpenRebuild
  BY <1>1 DEF OpenRebuild, ScannedOnce, ZeroHeader
<1>2. ASSUME NEW f \in Files, ScanFile(f) PROVE ScannedOnce'
  <2>1. /\ pc = "scan" /\ f \in todo /\ todo' = todo \ {f}
        /\ \/ /\ hdr.head \in Idx /\ hdr'.head = hdr.head + 1
              /\ \A i \in Idx : slot'[i].file = IF i = hdr.head THEN f ELSE slot[i].file
           \/ hdr' = hdr /\ slot' = slot
    BY <1>0, <1>2, ScanFills
  <2>2. CASE hdr' = hdr /\ slot' = slot
    BY <2>1, <2>2 DEF ScannedOnce
  <2>3. CASE /\ hdr.head \in Idx /\ hdr'.head = hdr.head + 1
             /\ \A i \in Idx : slot'[i].file = IF i = hdr.head THEN f ELSE slot[i].file
    <3>1. \A i \in Idx : i < hdr'.head <=> i < hdr.head \/ i = hdr.head
      BY <2>3
    <3>2. \A i \in Idx : i < hdr.head => i # hdr.head /\ slot'[i].file = slot[i].file
      BY <2>3
    <3>3. slot'[hdr.head].file = f
      BY <2>3
    <3> QED BY <2>1, <3>1, <3>2, <3>3 DEF ScannedOnce
  <2> QED BY <2>1, <2>2, <2>3
<1>3. CASE pc' # "scan"
  BY <1>3 DEF ScannedOnce
<1>4. CASE UNCHANGED <<pc, hdr, slot, todo>>
  BY <1>4 DEF ScannedOnce
<1>5. ASSUME NEW f \in Files, CreateFile(f) \/ Unlink(f)
      PROVE  pc' # "scan" \/ UNCHANGED <<pc, hdr, slot, todo>>
  BY <1>5 DEF CreateFile, Unlink, index, logger
<1>6. ASSUME RouterOpen \/ RouterWrite \/ Stop \/ Clear \/ UnlinkIndex \/ Crash \/ OpenFails \/ UNCHANGED vars
      PROVE  pc' # "scan" \/ UNCHANGED <<pc, hdr, slot, todo>>
  BY <1>6 DEF RouterOpen, RouterWrite, Stop, Clear, UnlinkIndex, Crash, OpenFails, Abandon, vars, index
<1>7. ASSUME LimitBegin \/ OpenValid \/ ScanPad \/ RebuildCommit \/ AddEvict \/ AddPut \/ LimitRefresh
             \/ TrimSize \/ TrimDone \/ LowFree \/ LowFreeDone \/ Commit
      PROVE  pc' # "scan"
  BY <1>7 DEF LimitBegin, OpenValid, ScanPad, RebuildCommit, AfterOpen, AddEvict, AddPut, LimitRefresh,
              TrimSize, TrimDone, LowFree, LowFreeDone, Commit
<1> QED
  BY <1>1, <1>2, <1>3, <1>4, <1>5, <1>6, <1>7 DEF Next, Operation
-----------------------------------------------------------------------------
LEMMA FunctionSeq ==
  ASSUME NEW S, NEW n \in Nat, NEW q \in [1 .. n -> S]
  PROVE  q \in Seq(S) /\ Len(q) = n
<1>1. q \in Seq(S)
  BY SeqDef
<1>2. Len(q) \in Nat /\ 1 .. Len(q) = 1 .. n
  BY <1>1, LenProperties
<1> QED BY <1>1, <1>2

LEMMA TailIs ==
  ASSUME NEW S, NEW n \in Nat \ {0}, NEW q \in [1 .. n -> S], NEW r \in [1 .. n - 1 -> S],
         \A k \in 1 .. n - 1 : r[k] = q[k + 1]
  PROVE  r = Tail(q)
<1>1. q \in Seq(S) /\ Len(q) = n /\ r \in Seq(S) /\ Len(r) = n - 1
  BY FunctionSeq
<1>2. q # <<>>
  BY <1>1, EmptySeq
<1>3. Tail(q) \in Seq(S) /\ Len(Tail(q)) = n - 1 /\ \A i \in 1 .. n - 1 : Tail(q)[i] = q[i + 1]
  BY <1>1, <1>2, HeadTailProperties
<1> QED BY <1>1, <1>3, SeqEqual

LEMMA AppendIs ==
  ASSUME NEW S, NEW n \in Nat, NEW x \in S, NEW q \in [1 .. n -> S], NEW r \in [1 .. n + 1 -> S],
         \A k \in 1 .. n : r[k] = q[k], r[n + 1] = x
  PROVE  r = Append(q, x)
<1>1. q \in Seq(S) /\ Len(q) = n /\ r \in Seq(S) /\ Len(r) = n + 1
  BY FunctionSeq
<1>2. /\ Append(q, x) \in Seq(S) /\ Len(Append(q, x)) = n + 1
      /\ \A i \in 1 .. n : Append(q, x)[i] = q[i]
      /\ Append(q, x)[n + 1] = x
  BY <1>1, AppendProperties
<1>3. \A i \in 1 .. n + 1 : r[i] = Append(q, x)[i]
  BY <1>2
<1> QED BY <1>1, <1>2, <1>3, SeqEqual

\* The queue is a sequence of the files in the slots of the window.
QueueIs ==
  /\ CurrentHeader.head \in Idx /\ CurrentHeader.tail \in Idx /\ pc # "scan"
  /\ WindowLen(CurrentHeader) \in 1 .. Count /\ QueueLen \in 0 .. Count
  /\ Queue \in [1 .. QueueLen -> Files \cup {None}]
  /\ \A k \in 1 .. QueueLen : Queue[k] = slot[Nth(CurrentHeader, k)].file
  /\ Len(Queue) = QueueLen

LEMMA QueueFacts == TypeInv /\ HoleInv /\ ok => QueueIs
<1> SUFFICES ASSUME TypeInv, HoleInv, ok PROVE QueueIs
  OBVIOUS
<1>1. CurrentHeader.head \in Idx /\ CurrentHeader.tail \in Idx /\ pc # "scan"
  BY DEF CurrentHeader, TypeInv, TypeOK, HoleInv
<1>2. /\ WindowLen(CurrentHeader) \in 1 .. Count
      /\ \A k \in 1 .. WindowLen(CurrentHeader) : Nth(CurrentHeader, k) \in Idx
  BY <1>1, WindowSlots
<1>3. QueueLen \in 0 .. Count /\ 1 .. QueueLen \subseteq 1 .. WindowLen(CurrentHeader)
  BY <1>2, LogDataAssumption DEF QueueLen
<1>4. Queue = [k \in 1 .. QueueLen |-> slot[Nth(CurrentHeader, k)].file]
  BY DEF Queue
<1>5. \A i \in Idx : slot[i].file \in Files \cup {None}
  BY HeaderFields DEF TypeInv
<1>6. Queue \in [1 .. QueueLen -> Files \cup {None}]
  BY <1>2, <1>3, <1>4, <1>5
<1>7. Len(Queue) = QueueLen
  BY <1>3, <1>6, FunctionSeq
<1> QED BY <1>1, <1>2, <1>3, <1>4, <1>6, <1>7 DEF QueueIs

\* The same queue, read from the same files in the same order.
LEMMA SameQueue ==
  ASSUME ok' = ok,
         ok => /\ QueueLen' = QueueLen
               /\ \A k \in 1 .. QueueLen :
                    slot'[Nth(CurrentHeader', k)].file = slot[Nth(CurrentHeader, k)].file
  PROVE  UNCHANGED Fifo!vars
BY DEF Queue, Fifo!vars
-----------------------------------------------------------------------------
(***************************************************************************)
(* The steps that change the queue.                                        *)
(***************************************************************************)
\* What the steps need of the invariant, in the state before and the one after.
LEMMA InvFacts ==
  ASSUME FifoInv
  PROVE  /\ TypeInv /\ TypeOK /\ HasIndex /\ HeadEntry /\ HoleInv /\ OutsideInv /\ ScannedOnce
         /\ pc \in {"scan"} \cup AtRest \cup Midway
BY DEF FifoInv, IndexInv, HeadInv, TypeInv, TypeOK, AtRest, Midway

\* A rebuild ends: the files it has listed, in the order it found them.
LEMMA PadRebuilds == ASSUME FifoInv, ScanPad, (TypeInv /\ HoleInv)' PROVE Fifo!Rebuild
<1>0. TypeOK /\ HasIndex /\ HoleInv /\ OutsideInv /\ ScannedOnce
  BY InvFacts
<1>1. pc = "scan" /\ pc' = "rebuilt" /\ ok' /\ ~ok
  BY <1>0 DEF ScanPad, HoleInv, HasIndex
<1>2. /\ hdr.head \in 0 .. Count /\ hdr'.tail = 0 /\ slot' = slot
      /\ hdr'.head = IF hdr.head = Count THEN Count - 1 ELSE hdr.head
  BY <1>0, <1>1, PadsHead DEF TypeOK, HoleInv
<1>3. CurrentHeader' = hdr'
  BY <1>1 DEF CurrentHeader
<1>4. QueueLen' = hdr.head
  <2>1. WindowLen(hdr') = hdr'.head + 1
    BY <1>2, LogDataAssumption DEF WindowLen
  <2>2. CASE hdr.head = Count
    <3>1. slot[Count - 1].file # None
      BY <1>0, <1>1, <2>2, LogDataAssumption DEF HoleInv
    <3> QED BY <1>1, <1>2, <1>3, <2>1, <2>2, <3>1, LogDataAssumption DEF QueueLen, HeadPending
  <2>3. CASE hdr.head # Count
    <3>1. hdr.head \in Idx /\ slot[hdr.head].file = None
      BY <1>0, <1>1, <1>2, <2>3, LogDataAssumption DEF OutsideInv
    <3> QED BY <1>1, <1>2, <1>3, <2>1, <2>3, <3>1, LogDataAssumption DEF QueueLen, HeadPending
  <2> QED BY <2>2, <2>3
<1>5. /\ DOMAIN Queue' = 1 .. hdr.head /\ Len(Queue') = hdr.head
      /\ \A k \in 1 .. hdr.head : Queue'[k] = slot'[Nth(hdr', k)].file
  <2>1. (TypeInv /\ HoleInv /\ ok)'
    BY <1>1
  <2>2. QueueIs'
    BY <2>1, QueueFacts, PTL
  <2> QED BY <1>3, <1>4, <2>2 DEF QueueIs
<1>6. \A k \in 1 .. hdr.head : k - 1 \in Idx /\ k - 1 < hdr.head /\ Queue'[k] = slot[k - 1].file
  BY <1>2, <1>5, LogDataAssumption DEF Nth
<1>7. \A i, j \in DOMAIN Queue' : Queue'[i] = Queue'[j] => i = j
  <2> SUFFICES ASSUME NEW i \in 1 .. hdr.head, NEW j \in 1 .. hdr.head, Queue'[i] = Queue'[j]
               PROVE  i = j
    BY <1>5
  <2>1. \A a, b \in Idx : a < hdr.head /\ b < hdr.head /\ slot[b].file = slot[a].file => a = b
    BY <1>0, <1>1 DEF ScannedOnce
  <2>2. /\ i - 1 \in Idx /\ i - 1 < hdr.head /\ Queue'[i] = slot[i - 1].file
        /\ j - 1 \in Idx /\ j - 1 < hdr.head /\ Queue'[j] = slot[j - 1].file
    BY <1>6
  <2>3. i - 1 = j - 1
    BY <2>1, <2>2
  <2> QED BY <2>3, <1>2
<1>8. \A i \in DOMAIN Queue' : Queue'[i] \in Files
  BY <1>0, <1>1, <1>5, <1>6 DEF ScannedOnce
<1> QED BY <1>1, <1>2, <1>5, <1>7, <1>8 DEF Fifo!Rebuild

\* The new entry is in its slot.
LEMMA PutAdds == ASSUME FifoInv, AddPut, (TypeInv /\ HoleInv)' PROVE \E f \in Files : Fifo!Add(f)
<1>0. TypeInv /\ TypeOK /\ HoleInv /\ HasIndex
  BY InvFacts
<1>1. /\ pc = "put" /\ pc' = "commit" /\ ok /\ ok' /\ logging # None /\ logging \in Files
      /\ hdr.head \in Idx /\ hdr.tail \in Idx /\ hdr'.head = hdr.head /\ hdr'.tail = hdr.tail
      /\ \A i \in Idx : slot'[i].file = IF i = hdr.head THEN logging ELSE slot[i].file
  BY <1>0, PutsHead DEF AddPut, HasIndex, TypeOK
<1>2. CurrentHeader = hdr /\ CurrentHeader' = hdr'
  BY <1>1 DEF CurrentHeader
<1> DEFINE n == WindowLen(hdr) - 1
<1>3. /\ n \in 0 .. Count - 1 /\ WindowLen(hdr') = n + 1
      /\ Nth(hdr, n + 1) = hdr.head /\ \A k \in 1 .. n + 1 : Nth(hdr', k) = Nth(hdr, k)
      /\ \A k \in 1 .. n : Nth(hdr, k) \in Idx /\ Nth(hdr, k) # hdr.head
  BY <1>1, WindowSlots, LogDataAssumption DEF WindowLen, Nth
<1>4. QueueLen = n /\ QueueLen' = n + 1
  BY <1>1, <1>2, <1>3 DEF QueueLen, HeadPending
<1>5. /\ Queue \in [1 .. n -> Files \cup {None}] /\ Len(Queue) = n
      /\ \A k \in 1 .. n : Queue[k] = slot[Nth(hdr, k)].file
  BY <1>0, <1>1, <1>2, <1>4, QueueFacts DEF QueueIs
<1>6. /\ Queue' \in [1 .. n + 1 -> Files \cup {None}]
      /\ \A k \in 1 .. n + 1 : Queue'[k] = slot'[Nth(hdr', k)].file
  <2>1. (TypeInv /\ HoleInv /\ ok)'
    BY <1>1
  <2>2. QueueIs'
    BY <2>1, QueueFacts, PTL
  <2> QED BY <1>2, <1>4, <2>2 DEF QueueIs
<1>7. /\ \A k \in 1 .. n : Queue'[k] = Queue[k]
      /\ Queue'[n + 1] = logging
  BY <1>1, <1>3, <1>5, <1>6
<1>8. Queue' = Append(Queue, logging)
  BY <1>1, <1>3, <1>5, <1>6, <1>7, AppendIs
<1>9. Fifo!Add(logging)
  <2>1. Len(Queue) < Count
    BY <1>3, <1>5, LogDataAssumption
  <2>2. (~ok)' = ~ok
    BY <1>1
  <2> QED BY <1>1, <1>8, <2>1, <2>2 DEF Fifo!Add
<1> QED BY <1>1, <1>9

\* remove_file takes the oldest: there is another, the one being logged.
LEMMA RemoveDrops ==
  ASSUME FifoInv, TrimSize \/ LowFree, (TypeInv /\ HoleInv)' PROVE Fifo!Drop
<1>0. TypeInv /\ TypeOK /\ HoleInv /\ HasIndex /\ HeadEntry /\ None \notin Files
  BY InvFacts, LogDataAssumption
<1>1. /\ RemoveFile /\ pc \in {"trim", "lowfree"} /\ pc' = pc /\ pc # "scan" /\ UNCHANGED <<ok, logging>>
  BY <1>0, Removes
<1>2. /\ ok /\ ok' /\ logging # None /\ slot[hdr.head].file = logging
      /\ hdr.head \in Idx /\ hdr.tail \in Idx /\ hdr.head # hdr.tail
      /\ hdr'.head = hdr.head /\ hdr'.tail = Succ(hdr.tail)
      /\ \A i \in Idx : slot'[i].file = IF i = hdr.tail THEN None ELSE slot[i].file
  <2>1. ok /\ logging # None /\ slot[hdr.head].file = logging
    BY <1>0, <1>1 DEF HasIndex, HeadEntry, LimitSteps, TypeInv, TypeOK, Named
  <2> QED BY <1>0, <1>1, <2>1, RemovesTail
<1>3. CurrentHeader = hdr /\ CurrentHeader' = hdr'
  BY <1>1 DEF CurrentHeader
<1> DEFINE n == WindowLen(hdr)
<1>4. /\ n \in 2 .. Count /\ WindowLen(hdr') = n - 1
      /\ \A k \in 1 .. n - 1 : Nth(hdr', k) = Nth(hdr, k + 1)
      /\ \A k \in 1 .. n - 1 : Nth(hdr, k + 1) \in Idx /\ Nth(hdr, k + 1) # hdr.tail
  <2>1. n \in 1 .. Count /\ n # 1
    BY <1>2, WindowSlots
  <2>2. \A k \in 1 .. n - 1 : k + 1 \in 1 .. n /\ k + 1 # 1
    BY <2>1
  <2>3. \A k \in 1 .. n - 1 : Nth(hdr, k + 1) \in Idx /\ Nth(hdr, k + 1) # hdr.tail
    BY <1>2, <2>2, WindowSlots
  <2>4. WindowLen(hdr') = n - 1 /\ \A k \in 1 .. WindowLen(hdr') : Nth(hdr', k) = Nth(hdr, k + 1)
    BY <1>2, TailMovesOn
  <2> QED BY <2>1, <2>3, <2>4, LogDataAssumption
<1>5. QueueLen = n /\ QueueLen' = n - 1
  BY <1>1, <1>2, <1>3, <1>4 DEF QueueLen, HeadPending
<1>6. /\ Queue \in [1 .. n -> Files \cup {None}] /\ Len(Queue) = n
      /\ \A k \in 1 .. n : Queue[k] = slot[Nth(hdr, k)].file
  BY <1>0, <1>2, <1>3, <1>5, QueueFacts DEF QueueIs
<1>7. /\ Queue' \in [1 .. n - 1 -> Files \cup {None}]
      /\ \A k \in 1 .. n - 1 : Queue'[k] = slot'[Nth(hdr', k)].file
  <2>1. (TypeInv /\ HoleInv /\ ok)'
    BY <1>2
  <2>2. QueueIs'
    BY <2>1, QueueFacts, PTL
  <2> QED BY <1>3, <1>5, <2>2 DEF QueueIs
<1>8. \A k \in 1 .. n - 1 : k + 1 \in 1 .. n /\ Queue'[k] = Queue[k + 1]
  BY <1>2, <1>4, <1>6, <1>7
<1>9. Queue' = Tail(Queue)
  BY <1>4, <1>6, <1>7, <1>8, TailIs
<1>10. Len(Queue) > 1 /\ (~ok)' = ~ok
  BY <1>1, <1>4, <1>6
<1> QED BY <1>9, <1>10 DEF Fifo!Drop

\* add_file makes room in a full ring, and only there.
LEMMA EvictDrops ==
  ASSUME FifoInv, AddEvict, (TypeInv /\ HoleInv)' PROVE Fifo!Drop \/ UNCHANGED Fifo!vars
<1>0. TypeInv /\ TypeOK /\ HoleInv /\ HasIndex
  BY InvFacts
<1>1. /\ pc = "evict" /\ pc' = "put" /\ ok /\ ok' = ok /\ slot' = slot
      /\ hdr.head \in Idx /\ hdr.tail \in Idx
      /\ \/ slot[hdr.head].file = None /\ hdr' = hdr
         \/ /\ slot[hdr.head].file # None
            /\ hdr'.head = Succ(hdr.head) /\ hdr'.tail = PushTail(hdr.tail, Succ(hdr.head))
  BY <1>0, EvictMoves DEF AddEvict, HasIndex, index
<1>2. CurrentHeader = hdr /\ CurrentHeader' = hdr'
  BY <1>1 DEF CurrentHeader
<1>3. QueueLen' = WindowLen(hdr') - 1
  BY <1>1, <1>2 DEF QueueLen, HeadPending
<1>4. CASE slot[hdr.head].file = None /\ hdr' = hdr
  <2>1. QueueLen = WindowLen(hdr) - 1
    BY <1>2, <1>4 DEF QueueLen, HeadPending
  <2> QED BY <1>1, <1>2, <1>3, <1>4, <2>1, SameQueue
<1>5. CASE /\ slot[hdr.head].file # None
           /\ hdr'.head = Succ(hdr.head) /\ hdr'.tail = PushTail(hdr.tail, Succ(hdr.head))
  <2>1. QueueLen = WindowLen(hdr)
    BY <1>1, <1>2, <1>5 DEF QueueLen, HeadPending
  <2>2. WindowLen(hdr) \in 1 .. Count
    BY <1>1, WindowSlots
  <2>3. CASE /\ WindowLen(hdr') = WindowLen(hdr) + 1
             /\ \A k \in 1 .. WindowLen(hdr) : Nth(hdr', k) = Nth(hdr, k)
    <3>1. QueueLen' = QueueLen
      BY <1>3, <2>1, <2>2, <2>3
    <3> QED BY <1>1, <1>2, <2>1, <2>3, <3>1, SameQueue
  <2>4. CASE /\ WindowLen(hdr) = Count /\ WindowLen(hdr') = Count
             /\ \A k \in 1 .. Count - 1 : Nth(hdr', k) = Nth(hdr, k + 1)
    <3>1. QueueLen = Count /\ QueueLen' = Count - 1
      BY <1>3, <2>1, <2>4
    <3>2. /\ Queue \in [1 .. Count -> Files \cup {None}] /\ Len(Queue) = Count
          /\ \A k \in 1 .. Count : Queue[k] = slot[Nth(hdr, k)].file
      BY <1>0, <1>1, <1>2, <3>1, QueueFacts DEF QueueIs
    <3>3. /\ Queue' \in [1 .. Count - 1 -> Files \cup {None}]
          /\ \A k \in 1 .. Count - 1 : Queue'[k] = slot'[Nth(hdr', k)].file
      <4>1. (TypeInv /\ HoleInv /\ ok)'
        BY <1>1
      <4>2. QueueIs'
        BY <4>1, QueueFacts, PTL
      <4> QED BY <1>2, <3>1, <4>2 DEF QueueIs
    <3>4. \A k \in 1 .. Count - 1 : k + 1 \in 1 .. Count /\ Queue'[k] = Queue[k + 1]
      BY <1>1, <2>4, <3>2, <3>3, LogDataAssumption
    <3>5. Queue' = Tail(Queue)
      BY <3>2, <3>3, <3>4, LogDataAssumption, TailIs
    <3>6. Len(Queue) > 1 /\ (~ok)' = ~ok
      BY <1>1, <3>2, LogDataAssumption
    <3> QED BY <3>5, <3>6 DEF Fifo!Drop
  <2> QED BY <1>1, <1>5, <2>3, <2>4, HeadMovesOn
<1> QED BY <1>1, <1>4, <1>5
-----------------------------------------------------------------------------
(***************************************************************************)
(* Every other step reads the same queue: it may read it through the other *)
(* copy of the header, but then the two are equal.                         *)
(***************************************************************************)
LEMMA OtherSteps ==
  ASSUME Harmless, FifoInv, [Next]_vars
  PROVE  \/ UNCHANGED Fifo!vars \/ Fifo!Lose
         \/ ScanPad \/ AddEvict \/ AddPut \/ TrimSize \/ LowFree
<1>0. /\ TypeInv /\ TypeOK /\ HasIndex /\ HoleInv /\ pc \in {"scan"} \cup AtRest \cup Midway
  BY InvFacts
<1>1. ASSUME UNCHANGED <<slot, ok>>, CurrentHeader' = CurrentHeader, pc = "put" <=> pc' = "put"
      PROVE  UNCHANGED Fifo!vars
  BY <1>1, SameQueue DEF QueueLen, HeadPending
<1>2. ASSUME ~ok, ok' = ok PROVE UNCHANGED Fifo!vars
  BY <1>2, SameQueue
<1>3. ASSUME NEW f \in Files, CreateFile(f) PROVE UNCHANGED Fifo!vars
  BY <1>1, <1>3 DEF CreateFile, CurrentHeader, Harmless, index
<1>4. ASSUME NEW f \in Files, Unlink(f) PROVE UNCHANGED Fifo!vars
  BY <1>1, <1>4 DEF Unlink, CurrentHeader, index
<1>5. CASE LimitBegin \/ RouterOpen \/ RouterWrite \/ Stop \/ UNCHANGED vars
  BY <1>1, <1>5 DEF LimitBegin, RouterOpen, RouterWrite, Stop, vars, CurrentHeader, index
<1>6. CASE OpenValid
  BY <1>1, <1>6 DEF OpenValid, AfterOpen, CurrentHeader, index
<1>7. CASE OpenRebuild
  BY <1>2, <1>7 DEF OpenRebuild
<1>8. ASSUME NEW f \in Files, ScanFile(f) PROVE UNCHANGED Fifo!vars
  BY <1>0, <1>2, <1>8 DEF ScanFile, HoleInv
<1>9. CASE RebuildCommit
  BY <1>1, <1>9 DEF RebuildCommit, AfterOpen, CurrentHeader
<1>10. CASE LimitRefresh
  <2>1. /\ hdr'.head = hdr.head /\ hdr'.tail = hdr.tail /\ pc = "refresh" /\ pc' = "trim" /\ ok' = ok
        /\ \A i \in Idx : slot'[i].file = slot[i].file
        /\ hdr.head \in Idx /\ hdr.tail \in Idx
    BY <1>0, <1>10, RefreshKeepsFiles DEF LimitRefresh, TypeOK
  <2>2. CurrentHeader = hdr /\ CurrentHeader' = hdr'
    BY <2>1 DEF CurrentHeader
  <2>3. QueueLen' = QueueLen
    BY <2>1, <2>2 DEF QueueLen, HeadPending, WindowLen
  <2>4. ok => \A k \in 1 .. QueueLen : Nth(hdr, k) \in Idx /\ Nth(hdr', k) = Nth(hdr, k)
    <3>1. QueueLen <= WindowLen(hdr) /\ WindowLen(hdr) \in 1 .. Count /\ QueueLen \in Nat
      BY <2>1, <2>2, WindowSlots DEF QueueLen
    <3>2. \A k \in 1 .. QueueLen : k \in 1 .. WindowLen(hdr)
      BY <3>1
    <3>3. \A k \in 1 .. WindowLen(hdr) : Nth(hdr, k) \in Idx
      BY <2>1, WindowSlots
    <3>4. \A k : Nth(hdr', k) = Nth(hdr, k)
      BY <2>1 DEF Nth
    <3> QED BY <3>2, <3>3, <3>4
  <2> QED BY <2>1, <2>2, <2>3, <2>4, SameQueue
<1>11. CASE TrimDone \/ LowFreeDone
  BY <1>1, <1>11 DEF TrimDone, LowFreeDone, CurrentHeader, index
<1>12. CASE Commit
  BY <1>0, <1>1, <1>12 DEF Commit, WriteBack, HasIndex, CurrentHeader
<1>13. CASE Clear \/ UnlinkIndex
  BY <1>13 DEF Clear, UnlinkIndex, Fifo!Lose, Queue
<1>14. ~OpenFails /\ ~Crash
  BY DEF Harmless, OpenFails, Crash
<1> QED
  BY <1>3, <1>4, <1>5, <1>6, <1>7, <1>8, <1>9, <1>10, <1>11, <1>12, <1>13, <1>14 DEF Next, Operation

(***************************************************************************)
(* The log index implements the queue: files leave it oldest first and the *)
(* one being logged last, whatever is unlinked beside it, wherever head    *)
(* and tail stand and however often the index is rebuilt.                  *)
(***************************************************************************)
THEOREM FifoImplemented == ASSUME Harmless PROVE Spec => ImplementsFifo
<1>1. Init => FifoInv /\ Fifo!Init
  <2> SUFFICES ASSUME Init PROVE FifoInv /\ Fifo!Init
    OBVIOUS
  <2>1. IndexInv
    BY IndexInductive
  <2> QED BY <2>1 DEF Init, FifoInv, ScannedOnce, Fifo!Init, Queue
<1>2. FifoInv /\ [Next]_vars => FifoInv'
  BY IndexInductive, StepScanned DEF FifoInv, IndexInv, HeadInv
<1>3. FifoInv /\ [Next]_vars => [Fifo!Next]_(Fifo!vars)
  <2> SUFFICES ASSUME FifoInv, [Next]_vars PROVE Fifo!Next \/ UNCHANGED Fifo!vars
    OBVIOUS
  <2>1. (TypeInv /\ HoleInv)'
    BY <1>2 DEF FifoInv, IndexInv, HeadInv
  <2> QED BY <2>1, OtherSteps, PadRebuilds, PutAdds, RemoveDrops, EvictDrops DEF Fifo!Next
<1> QED BY <1>1, <1>2, <1>3, PTL DEF Spec, ImplementsFifo, Fifo!Spec
=============================================================================
