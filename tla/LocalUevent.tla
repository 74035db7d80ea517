---------------------------- MODULE LocalUevent ----------------------------
(***************************************************************************)
(* The local uevent bus: one thread reads the kernel's uevents and writes  *)
(* each of them to the pipe of every service that registered.              *)
(*                                                                         *)
(* Three services register: the ghost monitor, which always reads; the     *)
(* battery logger, whose worker reads only while it has no interval; and   *)
(* the display test, which reads when a client asks it to.  register and   *)
(* unregister are critical sections of uevent_lock.  So is a dispatch, but *)
(* it writes to blocking pipes one after the other with the lock held: a   *)
(* full pipe stops the thread, and with it everyone who wants the lock.    *)
(* A read takes what is in the pipe and looks at the first event only.     *)
(***************************************************************************)
EXTENDS Integers, Sequences

CONSTANTS
  MaxSlot,   \* MAX_LOCAL_UEVENT_SLOT
  Capacity,  \* how many events a pipe holds before a write blocks
  ReadMax    \* how many events fit the buffer of a reader

ASSUME LocalUeventAssumption ==
  MaxSlot \in Nat \ {0} /\ Capacity \in Nat \ {0} /\ ReadMax \in Nat \ {0}

Users == {"ghost", "logbattery", "displaytest"}
Events == {"power", "other"}
Slots == 0 .. MaxSlot - 1

None == "none"   \* a free slot
NoFd == -1       \* ufd of a service that has not registered

VARIABLES
  up,       \* the slots are allocated
  key,      \* the service that has each slot, None when it is free
  pipe,     \* the events in each slot's pipe
  thread,   \* what the uevent thread is doing
  msg,      \* the event it dispatches
  cursor,   \* the slot it looks at next
  ue,       \* the uevent socket is open
  broken,   \* a break byte is in the socket's poll pipe
  main,     \* what main is doing
  at,       \* what each service is doing with its registration
  fd,       \* the slot whose pipe it reads
  interval, \* the battery logger has an interval
  stop      \* the battery logger was told to stop

bus == <<up, key, pipe>>
dispatcher == <<thread, msg, cursor, ue>>
service == <<at, fd, interval, stop>>
vars == <<bus, dispatcher, broken, main, service>>

Init ==
  /\ up = FALSE /\ key = [i \in Slots |-> None] /\ pipe = [i \in Slots |-> <<>>]
  /\ thread = "initial" /\ msg = "end" /\ cursor = 0 /\ ue = FALSE
  /\ broken = FALSE /\ main = "run"
  /\ at = [u \in Users |-> "out"] /\ fd = [u \in Users |-> NoFd]
  /\ interval \in BOOLEAN /\ stop = FALSE

Locked == thread = "dispatch"   \* only a dispatch holds uevent_lock across steps
-----------------------------------------------------------------------------
(***************************************************************************)
(* The uevent thread.                                                      *)
(***************************************************************************)
LocalUeventInitial ==
  /\ thread = "initial"
  /\ up' = TRUE /\ thread' = "open"
  /\ UNCHANGED <<key, pipe, msg, cursor, ue, broken, main, service>>

\* local_uevent_dispatch takes the lock at its first slot.
BeginDispatch(e) == thread' = "dispatch" /\ msg' = e /\ cursor' = 0

UeventOpen ==
  /\ thread = "open"
  /\ \/ ue' = TRUE /\ thread' = "read" /\ UNCHANGED <<msg, cursor>>
     \/ ue' = FALSE /\ BeginDispatch("end")
  /\ UNCHANGED <<bus, broken, main, service>>

\* A break byte comes before any event that is there too.
UeventRead_EventsFirst ==
  /\ thread = "read"
  /\ \E e \in Events : BeginDispatch(e)
  /\ UNCHANGED <<broken, bus, ue, main, service>>

UeventRead ==
  /\ thread = "read"
  /\ IF broken THEN BeginDispatch("end") /\ broken' = FALSE
               ELSE /\ \E e \in Events : BeginDispatch(e)
                    /\ UNCHANGED broken
  /\ UNCHANGED <<bus, ue, main, service>>

\* A write to a full pipe waits until its reader has made room.
Blocked(u) ==
  /\ thread = "dispatch" /\ up /\ cursor < MaxSlot /\ key[cursor] = u
  /\ Len(pipe[cursor]) >= Capacity

DispatchSlot_OnePast ==
  /\ thread = "dispatch" /\ cursor <= MaxSlot
  /\ \/ cursor = MaxSlot /\ UNCHANGED pipe
     \/ /\ cursor < MaxSlot /\ up /\ Len(pipe[cursor]) < Capacity
        /\ pipe' = [pipe EXCEPT ![cursor] = Append(@, msg)]
  /\ cursor' = cursor + 1
  /\ UNCHANGED <<up, key, thread, msg, ue, broken, main, service>>

DispatchSlot ==
  /\ thread = "dispatch" /\ cursor < MaxSlot
  /\ \/ (~up \/ key[cursor] = None) /\ UNCHANGED pipe
     \/ /\ up /\ key[cursor] # None /\ Len(pipe[cursor]) < Capacity
        /\ pipe' = [pipe EXCEPT ![cursor] = Append(@, msg)]
  /\ cursor' = cursor + 1
  /\ UNCHANGED <<up, key, thread, msg, ue, broken, main, service>>

DispatchDone ==
  /\ thread = "dispatch" /\ cursor = MaxSlot
  /\ thread' = IF msg = "end" THEN "close" ELSE "read"
  /\ UNCHANGED <<bus, msg, cursor, ue, broken, main, service>>

UeventClose ==
  /\ thread = "close"
  /\ ue' = FALSE /\ thread' = "destroy"
  /\ UNCHANGED <<bus, msg, cursor, broken, main, service>>

\* Every pipe is closed with the slots.
LocalUeventDestroy_LeavesPipes ==
  /\ thread = "destroy" /\ thread' = "gone"
  /\ UNCHANGED <<bus, msg, cursor, ue, broken, main, service>>

LocalUeventDestroy ==
  /\ thread = "destroy"
  /\ up' = FALSE /\ key' = [i \in Slots |-> None] /\ pipe' = [i \in Slots |-> <<>>]
  /\ thread' = "gone"
  /\ UNCHANGED <<msg, cursor, ue, broken, main, service>>

\* main interrupts the thread if it has opened the socket, and joins it.
EndServer ==
  /\ main = "run"
  /\ main' = "join" /\ broken' = ue
  /\ UNCHANGED <<bus, dispatcher, service>>

JoinUevent ==
  /\ main = "join" /\ thread = "gone"
  /\ main' = "ended"
  /\ UNCHANGED <<bus, dispatcher, broken, service>>
-----------------------------------------------------------------------------
(***************************************************************************)
(* What the services call.                                                 *)
(***************************************************************************)
FreeSlots == {i \in Slots : key[i] = None}

\* local_uevent_register: the first free slot, or -1.
Register(u, then, else) ==
  /\ ~Locked
  /\ \/ /\ up
        /\ \E i \in FreeSlots :
             /\ \A j \in FreeSlots : i <= j
             /\ key' = [key EXCEPT ![i] = u] /\ pipe' = [pipe EXCEPT ![i] = <<>>]
             /\ fd' = [fd EXCEPT ![u] = i]
        /\ at' = [at EXCEPT ![u] = then]
     \/ /\ ~up \/ FreeSlots = {}
        /\ at' = [at EXCEPT ![u] = else]
        /\ UNCHANGED <<key, pipe, fd>>
  /\ UNCHANGED up

Named(u) == {i \in Slots : key[i] = u}

\* local_uevent_unregister: the first slot of that name, if there is one.
Unregister_KeepsKey(u) ==
  /\ ~Locked
  /\ fd' = [fd EXCEPT ![u] = NoFd]
  /\ UNCHANGED <<up, key, pipe>>

Unregister(u) ==
  /\ ~Locked
  /\ \/ \E i \in Named(u) :
          /\ \A j \in Named(u) : i <= j
          /\ key' = [key EXCEPT ![i] = None] /\ pipe' = [pipe EXCEPT ![i] = <<>>]
     \/ Named(u) = {} /\ UNCHANGED <<key, pipe>>
  /\ fd' = [fd EXCEPT ![u] = NoFd]
  /\ UNCHANGED up

\* The pipe was closed under its reader: poll and read fail.
Closed(u) == ~up

HasEvent(u) == ~Closed(u) /\ pipe[fd[u]] # <<>>

\* One read: it takes as much as the buffer holds, and strcmp sees the first.
First(u) == Head(pipe[fd[u]])
Read_Peeks(u) == UNCHANGED pipe

Read(u) ==
  LET n == IF Len(pipe[fd[u]]) < ReadMax THEN Len(pipe[fd[u]]) ELSE ReadMax
  IN  pipe' = [pipe EXCEPT ![fd[u]] = SubSeq(@, n + 1, Len(@))]

Goes(u, pc) == at' = [at EXCEPT ![u] = pc]
-----------------------------------------------------------------------------
(***************************************************************************)
(* The ghost monitor registers once.                                       *)
(***************************************************************************)
GhostRegister ==
  /\ at["ghost"] = "out"
  /\ Register("ghost", "poll", "failed")
  /\ UNCHANGED <<dispatcher, broken, main, interval, stop>>

GhostPoll ==
  /\ at["ghost"] = "poll"
  /\ \/ /\ HasEvent("ghost") /\ Read("ghost")
        /\ Goes("ghost", IF First("ghost") = "end" THEN "leave" ELSE "poll")
     \/ /\ Closed("ghost") /\ Goes("ghost", "leave") /\ UNCHANGED pipe
  /\ UNCHANGED <<up, key, dispatcher, broken, main, fd, interval, stop>>

GhostLeave ==
  /\ at["ghost"] = "leave"
  /\ Unregister("ghost") /\ Goes("ghost", "failed")
  /\ UNCHANGED <<dispatcher, broken, main, interval, stop>>
-----------------------------------------------------------------------------
(***************************************************************************)
(* The worker of the battery logger.                                       *)
(***************************************************************************)
\* :run:, and the worker's first steps.
BatteryRun ==
  /\ at["logbattery"] = "out" /\ ~stop
  /\ Register("logbattery", "log", "out")
  /\ UNCHANGED <<dispatcher, broken, main, interval, stop>>

\* log_main; then the worker waits for a uevent or for its interval.
BatteryLog ==
  /\ at["logbattery"] = "log"
  /\ \/ Goes("logbattery", "leave")
     \/ Goes("logbattery", IF interval THEN "sleep" ELSE "poll")
  /\ UNCHANGED <<bus, dispatcher, broken, main, fd, interval, stop>>

\* After an event that is not about the battery it reads the interval again.
BatteryPoll ==
  /\ at["logbattery"] = "poll"
  /\ \/ stop /\ Goes("logbattery", "leave") /\ UNCHANGED pipe
     \/ /\ ~stop /\ HasEvent("logbattery") /\ Read("logbattery")
        /\ Goes("logbattery", CASE First("logbattery") = "end" -> "leave"
                                [] First("logbattery") = "power" -> "log"
                                [] OTHER -> IF interval THEN "sleep" ELSE "poll")
     \/ ~stop /\ Closed("logbattery") /\ Goes("logbattery", "leave") /\ UNCHANGED pipe
  /\ UNCHANGED <<up, key, dispatcher, broken, main, fd, interval, stop>>

\* The semaphore was posted, or the interval is over.
BatterySleep ==
  /\ at["logbattery"] = "sleep"
  /\ Goes("logbattery", IF stop THEN "leave" ELSE "log")
  /\ UNCHANGED <<bus, dispatcher, broken, main, fd, interval, stop>>

\* The worker ends, and a :stop: that joins it returns.
BatteryLeave ==
  /\ at["logbattery"] = "leave"
  /\ Unregister("logbattery") /\ Goes("logbattery", "out") /\ stop' = FALSE
  /\ UNCHANGED <<dispatcher, broken, main, interval>>

\* :stop: once the worker has registered.
BatteryStop ==
  /\ at["logbattery"] # "out" /\ ~stop
  /\ stop' = TRUE
  /\ UNCHANGED <<bus, dispatcher, broken, main, at, fd, interval>>

SetInterval ==
  /\ interval' = ~interval
  /\ UNCHANGED <<bus, dispatcher, broken, main, at, fd, stop>>
-----------------------------------------------------------------------------
(***************************************************************************)
(* The display test, which only does what a client tells it.               *)
(***************************************************************************)
DisplayRun ==
  /\ at["displaytest"] = "out"
  /\ Register("displaytest", "in", "out")
  /\ UNCHANGED <<dispatcher, broken, main, interval, stop>>

DisplayGetData ==
  /\ at["displaytest"] = "in" /\ HasEvent("displaytest")
  /\ Read("displaytest")
  /\ UNCHANGED <<up, key, dispatcher, broken, main, service>>

\* The service ends and forgets its descriptor; its slot stays registered.
DisplayEnd ==
  /\ at["displaytest"] = "in"
  /\ Goes("displaytest", "out") /\ fd' = [fd EXCEPT !["displaytest"] = NoFd]
  /\ UNCHANGED <<bus, dispatcher, broken, main, interval, stop>>

\* :stop: unregisters by name, with a descriptor or without: a slot that the
\* service left when it ended is taken back.
DisplayStop ==
  /\ at["displaytest"] \in {"in", "out"} /\ Goes("displaytest", "leave")
  /\ UNCHANGED <<bus, dispatcher, broken, main, fd, interval, stop>>

DisplayLeave ==
  /\ at["displaytest"] = "leave"
  /\ Unregister("displaytest") /\ Goes("displaytest", "out")
  /\ UNCHANGED <<dispatcher, broken, main, interval, stop>>
-----------------------------------------------------------------------------
Dispatcher ==
  \/ LocalUeventInitial \/ UeventOpen \/ UeventRead
  \/ DispatchSlot \/ DispatchDone \/ UeventClose \/ LocalUeventDestroy

Battery == BatteryLog \/ BatteryPoll \/ BatterySleep \/ BatteryLeave

Next ==
  \/ Dispatcher \/ EndServer \/ JoinUevent
  \/ GhostRegister \/ GhostPoll \/ GhostLeave
  \/ BatteryRun \/ Battery \/ BatteryStop \/ SetInterval
  \/ DisplayRun \/ DisplayGetData \/ DisplayEnd \/ DisplayStop \/ DisplayLeave

(***************************************************************************)
(* Threads run; kernel events come for ever (the battery sends them); what *)
(* a client commands may never come, but a command it gave is carried out. *)
(***************************************************************************)
Fairness ==
  /\ WF_vars(Dispatcher) /\ WF_vars(JoinUevent)
  /\ WF_vars(GhostRegister) /\ WF_vars(GhostPoll) /\ WF_vars(GhostLeave)
  /\ WF_vars(Battery) /\ WF_vars(DisplayLeave)

Spec == Init /\ [][Next]_vars /\ Fairness
-----------------------------------------------------------------------------
(***************************************************************************)
(* Properties.                                                             *)
(***************************************************************************)
TypeOK ==
  /\ up \in BOOLEAN /\ key \in [Slots -> Users \cup {None}]
  /\ pipe \in [Slots -> Seq(Events \cup {"end"})]
  /\ thread \in {"initial", "open", "read", "dispatch", "close", "destroy", "gone"}
  /\ msg \in Events \cup {"end"} /\ cursor \in 0 .. MaxSlot /\ ue \in BOOLEAN
  /\ broken \in BOOLEAN /\ main \in {"run", "join", "ended"}
  /\ at \in [Users -> {"out", "failed", "in", "poll", "log", "sleep", "leave"}]
  /\ fd \in [Users -> Slots \cup {NoFd}] /\ interval \in BOOLEAN /\ stop \in BOOLEAN

\* While the slots exist, a service reads the pipe of a slot that carries its
\* name: slots are given to other services and taken back, and a service keeps
\* its descriptor across all of it. The two with a thread of their own leave no
\* slot behind that nobody reads; the display test does, when it ends.
OwnPipe ==
  up => \A u \in Users : \A i \in Slots :
          /\ fd[u] = i => key[i] = u
          /\ (key[i] = u /\ u # "displaytest") => fd[u] = i

Reading(u) == at[u] = "poll"

\* A dispatch stands still for ever only on the pipe of a service that has
\* stopped reading - the battery logger in its interval, the display test while
\* nobody asks it or after it ended, or one that waits for the lock itself to
\* unregister - and never on a reader.
BlockedByIdle == \A u \in Users : <>[]Blocked(u) => <>[]~Reading(u)

\* main gets out of pthread_join once it has interrupted the thread, unless a
\* dispatch is blocked for ever: no event can make it miss the break byte.
ShutdownEnds ==
  (\A u \in Users : []<>~Blocked(u)) => ((main = "join" /\ broken) ~> main = "ended")

\* Nobody waits on the bus when it is gone: an "end" behind another event is
\* lost in the same read, but the pipe is closed and the next poll fails.
ReadersLeave == \A u \in Users : (thread = "gone") ~> ~Reading(u)
=============================================================================
