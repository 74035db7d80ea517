---------------------------- MODULE LogDataFifo ----------------------------
(***************************************************************************)
(* The log index implements LogFifo: the queue is what the slots hold from *)
(* the tail to the head, read through the header in memory while an        *)
(* operation runs.  The slot at the head counts once it holds an entry,    *)
(* and while add_file fills it not yet: it may hold the evicted one still. *)
(***************************************************************************)
EXTENDS LogData, Sequences

CurrentHeader == IF pc \in {"idle", "open", "rotate"} THEN dhdr ELSE hdr

\* The slots from the tail to the head: how many, and the k-th of them.
WindowLen(h) == IF h.tail <= h.head THEN h.head - h.tail + 1 ELSE h.head - h.tail + Count + 1
Nth(h, k) == IF h.tail + k - 1 < Count THEN h.tail + k - 1 ELSE h.tail + k - 1 - Count

HeadPending == pc = "put" \/ slot[CurrentHeader.head].file = None

QueueLen == IF HeadPending THEN WindowLen(CurrentHeader) - 1 ELSE WindowLen(CurrentHeader)

Queue ==
  IF ok THEN [k \in 1 .. QueueLen |-> slot[Nth(CurrentHeader, k)].file] ELSE <<>>

Fifo == INSTANCE LogFifo WITH File <- Files, Capacity <- Count, queue <- Queue, lost <- ~ok

(***************************************************************************)
(* Files leave the index oldest first, and the one being logged last: what *)
(* the arithmetic on head and tail, the eviction of a full ring and both   *)
(* removal loops are for.                                                  *)
(***************************************************************************)
ImplementsFifo == Fifo!Spec
=============================================================================
