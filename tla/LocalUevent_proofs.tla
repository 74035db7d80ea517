------------------------- MODULE LocalUevent_proofs -------------------------
(***************************************************************************)
(* Proofs about LocalUevent, for any number of slots and any sizes of the  *)
(* pipes and of the buffers.                                               *)
(***************************************************************************)
EXTENDS LocalUevent, SequenceTheorems, TLAPS

Places == {"out", "failed", "in", "poll", "log", "sleep", "leave"}

Registered ==
  /\ key \in [Slots -> Users \cup {None}]
  /\ fd \in [Users -> Slots \cup {NoFd}]
  /\ at \in [Users -> Places]
  /\ up \in BOOLEAN

(***************************************************************************)
(* OwnPipe with what it rests on: who is out has no descriptor, and nobody *)
(* has one before the slots are allocated.                                 *)
(***************************************************************************)
OutHasNone == \A u \in Users : at[u] = "out" => fd[u] = NoFd
Before ==
  thread = "initial" =>
    ~up /\ (\A i \in Slots : key[i] = None) /\ (\A u \in Users : fd[u] = NoFd)
PipeInv == Registered /\ OutHasNone /\ Before /\ OwnPipe

LEMMA Values == /\ None \notin Users /\ NoFd \notin Slots /\ Slots \subseteq Nat
                /\ "ghost" \in Users /\ "logbattery" \in Users /\ "displaytest" \in Users
BY LocalUeventAssumption DEF None, Users, NoFd, Slots

\* A step that leaves the slots and descriptors alone, and puts nobody out.
LEMMA QuietKeepsPipe ==
  ASSUME PipeInv, UNCHANGED <<up, key, fd>>, at' \in [Users -> Places],
         \A u \in Users : at'[u] = "out" => at[u] = "out",
         thread' = "initial" => thread = "initial"
  PROVE  PipeInv'
BY DEF PipeInv, Registered, OutHasNone, Before, OwnPipe

LEMMA RegisterKeepsPipe ==
  ASSUME PipeInv, NEW u \in Users, NEW then \in Places, NEW else \in Places,
         at[u] = "out", then # "out", Register(u, then, else), UNCHANGED thread
  PROVE  PipeInv'
<1>1. CASE /\ up
           /\ \E i \in FreeSlots : /\ key' = [key EXCEPT ![i] = u]
                                   /\ fd' = [fd EXCEPT ![u] = i]
           /\ at' = [at EXCEPT ![u] = then] /\ UNCHANGED up
  <2>1. PICK i \in Slots : /\ key[i] = None /\ key' = [key EXCEPT ![i] = u]
                           /\ fd' = [fd EXCEPT ![u] = i]
    BY <1>1 DEF FreeSlots
  <2>2. Registered'
    BY <1>1, <2>1 DEF PipeInv, Registered
  <2>3. OutHasNone'
    BY <1>1, <2>1 DEF PipeInv, Registered, OutHasNone
  <2>4. Before'
    BY <1>1 DEF PipeInv, Before
  <2>5. OwnPipe'
    <3>1. fd[u] = NoFd
      BY DEF PipeInv, OutHasNone
    <3>2. ASSUME NEW w \in Users, NEW j \in Slots
          PROVE  /\ fd'[w] = j => key'[j] = w
                 /\ (key'[j] = w /\ w # "displaytest") => fd'[w] = j
      <4>1. /\ fd[w] = j => key[j] = w
            /\ (key[j] = w /\ w # "displaytest") => fd[w] = j
        BY <1>1 DEF PipeInv, OwnPipe
      <4>2. fd'[w] = (IF w = u THEN i ELSE fd[w]) /\ key'[j] = (IF j = i THEN u ELSE key[j])
        BY <2>1 DEF PipeInv, Registered
      <4> QED
        BY <2>1, <3>1, <4>1, <4>2, Values
    <3> QED
      BY <1>1, <3>2 DEF OwnPipe
  <2> QED
    BY <2>2, <2>3, <2>4, <2>5 DEF PipeInv
<1>2. CASE at' = [at EXCEPT ![u] = else] /\ UNCHANGED <<up, key, fd>>
  <2>1. at' \in [Users -> Places] /\ \A w \in Users : at'[w] = "out" => at[w] = "out"
    BY <1>2 DEF PipeInv, Registered
  <2> QED
    BY <1>2, <2>1, QuietKeepsPipe
<1> QED
  BY <1>1, <1>2 DEF Register

LEMMA UnregisterKeepsPipe ==
  ASSUME PipeInv, NEW u \in Users, NEW pc \in Places,
         Unregister(u), Goes(u, pc), UNCHANGED thread
  PROVE  PipeInv'
<1>1. /\ fd' = [fd EXCEPT ![u] = NoFd] /\ up' = up /\ at' = [at EXCEPT ![u] = pc]
      /\ \/ \E i \in Slots : key[i] = u /\ key' = [key EXCEPT ![i] = None]
         \/ (\A i \in Slots : key[i] # u) /\ key' = key
  BY DEF Unregister, Goes, Named
<1>2. Registered' /\ OutHasNone'
  BY <1>1 DEF PipeInv, Registered, OutHasNone
<1>3. Before'
  BY <1>1 DEF PipeInv, Registered, Before
<1>4. OwnPipe'
  <2> SUFFICES ASSUME up, NEW w \in Users, NEW j \in Slots
               PROVE  /\ fd'[w] = j => key'[j] = w
                      /\ (key'[j] = w /\ w # "displaytest") => fd'[w] = j
    BY <1>1 DEF OwnPipe
  <2>1. /\ fd[w] = j => key[j] = w
        /\ (key[j] = w /\ w # "displaytest") => fd[w] = j
    BY DEF PipeInv, OwnPipe
  <2>2. fd'[w] = IF w = u THEN NoFd ELSE fd[w]
    BY <1>1 DEF PipeInv, Registered
  <2>3. CASE \E i \in Slots : key[i] = u /\ key' = [key EXCEPT ![i] = None]
    <3>1. PICK i \in Slots : key[i] = u /\ key' = [key EXCEPT ![i] = None]
      BY <2>3
    <3>2. key'[j] = IF j = i THEN None ELSE key[j]
      BY <3>1 DEF PipeInv, Registered
    <3>3. u # "displaytest" => fd[u] = i
      BY <3>1 DEF PipeInv, OwnPipe
    <3> QED
      BY <2>1, <2>2, <3>1, <3>2, <3>3, Values
  <2>4. CASE (\A i \in Slots : key[i] # u) /\ key' = key
    BY <2>1, <2>2, <2>4, Values
  <2> QED
    BY <1>1, <2>3, <2>4
<1> QED
  BY <1>2, <1>3, <1>4 DEF PipeInv

LEMMA ThreadKeepsPipe ==
  ASSUME PipeInv, Dispatcher \/ EndServer \/ JoinUevent
  PROVE  PipeInv'
<1>1. CASE LocalUeventInitial
  BY <1>1, Values DEF LocalUeventInitial, service, PipeInv, Registered, OutHasNone, Before, OwnPipe
<1>2. CASE LocalUeventDestroy
  BY <1>2, Values DEF LocalUeventDestroy, service, PipeInv, Registered, OutHasNone, Before, OwnPipe
<1>3. CASE UeventOpen \/ UeventRead \/ DispatchSlot \/ DispatchDone \/ UeventClose
           \/ EndServer \/ JoinUevent
  <2>1. UNCHANGED <<up, key, fd, at>> /\ (thread' = "initial" => thread = "initial")
    BY <1>3 DEF UeventOpen, UeventRead, DispatchSlot, DispatchDone, UeventClose, EndServer,
                JoinUevent, BeginDispatch, bus, service, dispatcher
  <2> QED
    BY <2>1, QuietKeepsPipe DEF PipeInv, Registered
<1> QED
  BY <1>1, <1>2, <1>3 DEF Dispatcher

LEMMA GhostKeepsPipe ==
  ASSUME PipeInv, GhostRegister \/ GhostPoll \/ GhostLeave
  PROVE  PipeInv'
<1>1. CASE GhostRegister
  BY <1>1, Values, RegisterKeepsPipe DEF GhostRegister, dispatcher, Places
<1>2. CASE GhostPoll
  <2>1. /\ UNCHANGED <<up, key, fd, thread>>
        /\ \E pc \in Places \ {"out"} : at' = [at EXCEPT !["ghost"] = pc]
    BY <1>2 DEF GhostPoll, Goes, dispatcher, Places
  <2> QED
    BY <2>1, QuietKeepsPipe DEF PipeInv, Registered
<1>3. CASE GhostLeave
  BY <1>3, Values, UnregisterKeepsPipe DEF GhostLeave, dispatcher, Places
<1> QED
  BY <1>1, <1>2, <1>3

LEMMA BatteryKeepsPipe ==
  ASSUME PipeInv, BatteryRun \/ Battery \/ BatteryStop \/ SetInterval
  PROVE  PipeInv'
<1>1. CASE BatteryRun
  BY <1>1, Values, RegisterKeepsPipe DEF BatteryRun, dispatcher, Places
<1>2. CASE BatteryLog \/ BatteryPoll \/ BatterySleep
  <2>1. /\ UNCHANGED <<up, key, fd, thread>>
        /\ \E pc \in Places \ {"out"} : at' = [at EXCEPT !["logbattery"] = pc]
    BY <1>2 DEF BatteryLog, BatteryPoll, BatterySleep, Goes, dispatcher, bus, Places
  <2> QED
    BY <2>1, QuietKeepsPipe DEF PipeInv, Registered
<1>3. CASE BatteryLeave
  BY <1>3, Values, UnregisterKeepsPipe DEF BatteryLeave, dispatcher, Places
<1>4. CASE BatteryStop \/ SetInterval
  <2>1. UNCHANGED <<up, key, fd, thread, at>>
    BY <1>4 DEF BatteryStop, SetInterval, bus, dispatcher
  <2> QED
    BY <2>1, QuietKeepsPipe DEF PipeInv, Registered
<1> QED
  BY <1>1, <1>2, <1>3, <1>4 DEF Battery

LEMMA DisplayKeepsPipe ==
  ASSUME PipeInv, DisplayRun \/ DisplayGetData \/ DisplayEnd \/ DisplayStop \/ DisplayLeave
  PROVE  PipeInv'
<1>1. CASE DisplayRun
  BY <1>1, Values, RegisterKeepsPipe DEF DisplayRun, dispatcher, Places
<1>2. CASE DisplayGetData
  <2>1. UNCHANGED <<up, key, fd, thread, at>>
    BY <1>2 DEF DisplayGetData, dispatcher, service
  <2> QED
    BY <2>1, QuietKeepsPipe DEF PipeInv, Registered
<1>3. CASE DisplayEnd
  <2>1. /\ UNCHANGED <<up, key, thread>> /\ at' = [at EXCEPT !["displaytest"] = "out"]
        /\ fd' = [fd EXCEPT !["displaytest"] = NoFd]
    BY <1>3 DEF DisplayEnd, Goes, bus, dispatcher
  <2> QED
    BY <2>1, Values DEF PipeInv, Registered, OutHasNone, Before, OwnPipe, Places
<1>4. CASE DisplayStop
  <2>1. UNCHANGED <<up, key, fd, thread>> /\ at' = [at EXCEPT !["displaytest"] = "leave"]
    BY <1>4 DEF DisplayStop, Goes, bus, dispatcher
  <2> QED
    BY <2>1, QuietKeepsPipe DEF PipeInv, Registered, Places
<1>5. CASE DisplayLeave
  BY <1>5, Values, UnregisterKeepsPipe DEF DisplayLeave, dispatcher, Places
<1> QED
  BY <1>1, <1>2, <1>3, <1>4, <1>5

LEMMA PipeInductive ==
  /\ Init => PipeInv
  /\ PipeInv /\ [Next]_vars => PipeInv'
<1>1. Init => PipeInv
  BY Values DEF Init, PipeInv, Registered, OutHasNone, Before, OwnPipe, Places
<1>2. ASSUME PipeInv, UNCHANGED vars PROVE PipeInv'
  BY <1>2, QuietKeepsPipe DEF vars, bus, dispatcher, service, PipeInv, Registered
<1>3. PipeInv /\ [Next]_vars => PipeInv'
  BY <1>2, ThreadKeepsPipe, GhostKeepsPipe, BatteryKeepsPipe, DisplayKeepsPipe DEF Next
<1> QED
  BY <1>1, <1>3

(***************************************************************************)
(* OwnPipe: whatever slots are given, taken back and given again, and in   *)
(* whatever order services come and go, a descriptor is the pipe of a slot *)
(* that carries its owner's name.                                          *)
(***************************************************************************)
THEOREM OwnPipeCorrect == Spec => []OwnPipe
<1>1. PipeInv => OwnPipe
  BY DEF PipeInv
<1> QED
  BY <1>1, PipeInductive, PTL DEF Spec
-----------------------------------------------------------------------------
(***************************************************************************)
(* The types of what is not a registration: the pipes, the thread that     *)
(* writes them and main.  Only a dispatch that has a slot left writes.     *)
(***************************************************************************)
Messages == Events \cup {"end"}
Pipes == [Slots -> Seq(Messages)]

Stages == {"initial", "open", "read", "dispatch", "close", "destroy", "gone"}
ThreadTyped ==
  thread \in Stages /\ msg \in Messages /\ cursor \in 0 .. MaxSlot /\ ue \in BOOLEAN
MainTyped ==
  /\ broken \in BOOLEAN /\ main \in {"run", "join", "ended"}
  /\ interval \in BOOLEAN /\ stop \in BOOLEAN
ServerTyped == pipe \in Pipes /\ ThreadTyped /\ MainTyped

\* An event goes to the end of a pipe, a read takes from its head, and a slot
\* starts and ends with an empty one.
LEMMA DispatchKeepsPipes ==
  ASSUME pipe \in Pipes, NEW i \in Slots, NEW m \in Messages
  PROVE  [pipe EXCEPT ![i] = Append(@, m)] \in Pipes
<1>1. pipe[i] \in Seq(Messages)
  BY DEF Pipes
<1>2. Append(pipe[i], m) \in Seq(Messages)
  BY <1>1, AppendProperties
<1> QED
  BY <1>2 DEF Pipes

LEMMA EmptyKeepsPipes ==
  ASSUME pipe \in Pipes, NEW i \in Slots
  PROVE  [pipe EXCEPT ![i] = <<>>] \in Pipes
<1>1. <<>> \in Seq(Messages)
  BY EmptySeq
<1> QED
  BY <1>1 DEF Pipes

LEMMA ReadKeepsPipes ==
  ASSUME pipe \in Pipes, NEW u \in Users, Read(u)
  PROVE  pipe' \in Pipes
<1> DEFINE n == IF Len(pipe[fd[u]]) < ReadMax THEN Len(pipe[fd[u]]) ELSE ReadMax
           rest == SubSeq(pipe[fd[u]], n + 1, Len(pipe[fd[u]]))
<1>1. pipe' = [pipe EXCEPT ![fd[u]] = rest]
  BY DEF Read
<1>2. CASE fd[u] \in Slots
  <2>1. pipe[fd[u]] \in Seq(Messages)
    BY <1>2 DEF Pipes
  <2>2. n + 1 \in 1 .. Len(pipe[fd[u]]) + 1
    BY <2>1, LenProperties, LocalUeventAssumption
  <2>3. rest \in Seq(Messages)
    BY <2>1, <2>2, LenProperties, SubSeqProperties
  <2> HIDE DEF rest
  <2> QED
    BY <1>1, <2>3 DEF Pipes
<1>3. CASE fd[u] \notin Slots
  <2>1. pipe' = pipe
    BY <1>1, <1>3 DEF Pipes
  <2> QED
    BY <2>1
<1> QED
  BY <1>2, <1>3

LEMMA DispatcherTyped ==
  ASSUME ServerTyped, Dispatcher \/ EndServer \/ JoinUevent
  PROVE  ServerTyped'
<1>0. MaxSlot \in Nat /\ 0 \in 0 .. MaxSlot
  BY LocalUeventAssumption
<1>1. CASE LocalUeventInitial \/ UeventClose \/ DispatchDone
  <2>1. /\ thread' \in Stages /\ ue' \in {ue, FALSE}
        /\ UNCHANGED <<pipe, msg, cursor, broken, main, interval, stop>>
    BY <1>1 DEF LocalUeventInitial, UeventClose, DispatchDone, bus, service, Stages
  <2> QED
    BY <2>1 DEF ServerTyped, ThreadTyped, MainTyped
<1>2. CASE UeventOpen \/ UeventRead
  <2>1. /\ thread' \in Stages /\ ue' \in {ue, TRUE, FALSE} /\ broken' \in {broken, FALSE}
        /\ msg' \in {msg, "end"} \cup Events /\ cursor' \in {cursor, 0}
        /\ UNCHANGED <<pipe, main, interval, stop>>
    BY <1>2 DEF UeventOpen, UeventRead, BeginDispatch, bus, service, Stages
  <2> QED
    BY <1>0, <2>1 DEF ServerTyped, ThreadTyped, MainTyped, Messages
<1>3. CASE DispatchSlot
  <2>1. /\ cursor \in Slots /\ cursor' = cursor + 1
        /\ pipe' = pipe \/ pipe' = [pipe EXCEPT ![cursor] = Append(@, msg)]
        /\ UNCHANGED <<thread, msg, ue, broken, main, interval, stop>>
    BY <1>0, <1>3 DEF DispatchSlot, service, ServerTyped, ThreadTyped, Slots
  <2>2. pipe' \in Pipes
    BY <2>1, DispatchKeepsPipes DEF ServerTyped, ThreadTyped
  <2>3. cursor' \in 0 .. MaxSlot
    BY <1>0, <2>1 DEF Slots
  <2> QED
    BY <2>1, <2>2, <2>3 DEF ServerTyped, ThreadTyped, MainTyped
<1>4. CASE LocalUeventDestroy
  <2>1. <<>> \in Seq(Messages)
    BY EmptySeq
  <2>2. /\ pipe' = [i \in Slots |-> <<>>] /\ thread' \in Stages
        /\ UNCHANGED <<msg, cursor, ue, broken, main, interval, stop>>
    BY <1>4 DEF LocalUeventDestroy, service, Stages
  <2>3. pipe' \in Pipes
    BY <2>1, <2>2 DEF Pipes
  <2> QED
    BY <2>2, <2>3 DEF ServerTyped, ThreadTyped, MainTyped
<1>5. CASE EndServer \/ JoinUevent
  <2>1. /\ main' \in {"join", "ended"} /\ broken' \in {broken, ue}
        /\ UNCHANGED <<pipe, thread, msg, cursor, ue, interval, stop>>
    BY <1>5 DEF EndServer, JoinUevent, bus, dispatcher, service
  <2> QED
    BY <2>1 DEF ServerTyped, ThreadTyped, MainTyped
<1> QED
  BY <1>1, <1>2, <1>3, <1>4, <1>5 DEF Dispatcher

LEMMA RegisterTyped ==
  ASSUME pipe \in Pipes, NEW u \in Users, NEW then, NEW else,
         Register(u, then, else) \/ Unregister(u)
  PROVE  pipe' \in Pipes
<1>1. pipe' = pipe \/ \E i \in Slots : pipe' = [pipe EXCEPT ![i] = <<>>]
  BY DEF Register, Unregister, FreeSlots, Named
<1> QED
  BY <1>1, EmptyKeepsPipes

LEMMA ServicesTyped ==
  ASSUME ServerTyped,
         \/ GhostRegister \/ GhostPoll \/ GhostLeave
         \/ BatteryRun \/ Battery \/ BatteryStop \/ SetInterval
         \/ DisplayRun \/ DisplayGetData \/ DisplayEnd \/ DisplayStop \/ DisplayLeave
  PROVE  ServerTyped'
<1>0. pipe \in Pipes
  BY DEF ServerTyped
<1>1. CASE GhostRegister \/ GhostLeave \/ BatteryRun \/ DisplayRun \/ DisplayLeave
  <2>1. UNCHANGED <<dispatcher, broken, main, interval, stop>>
    BY <1>1 DEF GhostRegister, GhostLeave, BatteryRun, DisplayRun, DisplayLeave
  <2>2. \E u \in Users, then, else \in Places : Register(u, then, else) \/ Unregister(u)
    BY <1>1, Values
       DEF GhostRegister, GhostLeave, BatteryRun, DisplayRun, DisplayLeave, Places
  <2>3. pipe' \in Pipes
    BY <1>0, <2>2, RegisterTyped
  <2> QED
    BY <2>1, <2>3 DEF ServerTyped, ThreadTyped, MainTyped, dispatcher
<1>2. CASE GhostPoll \/ BatteryPoll \/ DisplayGetData
  <2>1. UNCHANGED <<dispatcher, broken, main, interval, stop>>
    BY <1>2 DEF GhostPoll, BatteryPoll, DisplayGetData, service
  <2>2. pipe' = pipe \/ \E u \in Users : Read(u)
    BY <1>2, Values DEF GhostPoll, BatteryPoll, DisplayGetData
  <2>3. pipe' \in Pipes
    BY <1>0, <2>2, ReadKeepsPipes
  <2> QED
    BY <2>1, <2>3 DEF ServerTyped, ThreadTyped, MainTyped, dispatcher
<1>3. CASE BatteryLeave
  <2>1. UNCHANGED <<dispatcher, broken, main, interval>> /\ stop' = FALSE
    BY <1>3 DEF BatteryLeave
  <2>2. pipe' \in Pipes
    BY <1>0, <1>3, Values, RegisterTyped DEF BatteryLeave
  <2> QED
    BY <2>1, <2>2 DEF ServerTyped, ThreadTyped, MainTyped, dispatcher
<1>4. CASE BatteryLog \/ BatterySleep \/ BatteryStop \/ SetInterval \/ DisplayEnd \/ DisplayStop
  <2>1. /\ UNCHANGED <<pipe, dispatcher, broken, main>>
        /\ interval' \in {interval, ~interval} /\ stop' \in {stop, TRUE}
    BY <1>4 DEF BatteryLog, BatterySleep, BatteryStop, SetInterval, DisplayEnd, DisplayStop, bus
  <2> QED
    BY <2>1 DEF ServerTyped, ThreadTyped, MainTyped, dispatcher
<1> QED
  BY <1>1, <1>2, <1>3, <1>4 DEF Battery

(***************************************************************************)
(* TypeOK: a dispatch stays within the slots, whichever are registered,    *)
(* and a pipe holds events and the end only, however much a reader takes.  *)
(***************************************************************************)
THEOREM TypeCorrect == Spec => []TypeOK
<1>1. Init => ServerTyped
  <2>1. <<>> \in Seq(Messages) /\ 0 \in 0 .. MaxSlot
    BY EmptySeq, LocalUeventAssumption
  <2> QED
    BY <2>1 DEF Init, ServerTyped, ThreadTyped, MainTyped, Pipes, Messages, Stages
<1>2. ServerTyped /\ [Next]_vars => ServerTyped'
  <2>1. ASSUME ServerTyped, UNCHANGED vars PROVE ServerTyped'
    BY <2>1 DEF ServerTyped, ThreadTyped, MainTyped, vars, bus, dispatcher, service
  <2> QED
    BY <2>1, DispatcherTyped, ServicesTyped DEF Next
<1>3. PipeInv /\ ServerTyped => TypeOK
  BY DEF PipeInv, Registered, ServerTyped, ThreadTyped, MainTyped, TypeOK, Places, Stages,
         Pipes, Messages
<1> QED
  BY <1>1, <1>2, <1>3, PipeInductive, PTL DEF Spec
=============================================================================
