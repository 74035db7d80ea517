------------------------------ MODULE LogFifo ------------------------------
(***************************************************************************)
(* What the log index promises, without the ring: a queue of log files in  *)
(* the order they were opened.  A new file goes to the end, files are      *)
(* dropped from the front only, the newest is never dropped to make room,  *)
(* and there are never more than Capacity of them.  A queue that is lost   *)
(* is built anew from the files found, in any order.                       *)
(***************************************************************************)
EXTENDS Naturals, Sequences

CONSTANTS File, Capacity

VARIABLES
  queue,  \* the files, oldest first
  lost    \* there is no queue: the record of it is gone

vars == <<queue, lost>>

Init == queue = <<>> /\ lost = TRUE

Add(f) == ~lost /\ Len(queue) < Capacity /\ queue' = Append(queue, f) /\ UNCHANGED lost

Drop == Len(queue) > 1 /\ queue' = Tail(queue) /\ UNCHANGED lost

Lose == queue' = <<>> /\ lost' = TRUE

Rebuild ==
  /\ lost /\ lost' = FALSE
  /\ Len(queue') <= Capacity
  /\ \A i, j \in DOMAIN queue' : queue'[i] = queue'[j] => i = j
  /\ \A i \in DOMAIN queue' : queue'[i] \in File

Next == (\E f \in File : Add(f)) \/ Drop \/ Lose \/ Rebuild

Spec == Init /\ [][Next]_vars
=============================================================================
