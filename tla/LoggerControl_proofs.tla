------------------------ MODULE LoggerControl_proofs ------------------------
(***************************************************************************)
(* Proofs about LoggerControl, for any number of loggers, storages,        *)
(* commands and faults: the state CHANGING is always about to end, the     *)
(* variables keep their types, loggers moved off a storage do not come     *)
(* back to it, and the monitor does not undo the stops of clients that     *)
(* only stop.                                                              *)
(***************************************************************************)
EXTENDS LoggerControl, WellFoundedInduction, TLAPS

Places == Labels \cup MainLabels \cup MonitorLabels

\* All that the proof needs of the types: where the threads are and return to.
Located == pc \in [Threads -> Places] /\ back \in [Threads -> Places]

\* A thread that has yet to write loggers_global_state, or will never write it.
Owes(t) == Changing(t) \/ pc[t] \in {"stop", "stuck", "exited"}

\* ChangingEnds is inductive once the threads are located.
EndsInv == Located /\ (gstate = "changing" => \E t \in Threads : Owes(t))

(***************************************************************************)
(* A step that moves one thread, from a label where it owes nothing, and   *)
(* leaves loggers_global_state alone.                                      *)
(***************************************************************************)
MovesIdle(t) ==
  /\ ~Owes(t) /\ gstate' = gstate
  /\ \/ back' = back
     \/ \E label \in Places : back' = [back EXCEPT ![t] = label]
  /\ \/ pc' = pc
     \/ \E label \in Places : Goto(t, label)

\* A step from one label of a start or a stop to the next.
MovesOwing(t) ==
  /\ gstate' \in {gstate, "changing"} /\ back' = back
  /\ \E label \in StopLabels \cup StartLabels : Goto(t, label)

\* A step that writes STARTED or STOPPED and returns.
Settles(t) ==
  /\ gstate' # "changing" /\ back' = back /\ Goto(t, back[t])

LEMMA IdleKeeps ==
  ASSUME EndsInv, NEW t \in Threads, MovesIdle(t)
  PROVE  EndsInv'
<1>1. Located'
  BY DEF EndsInv, Located, MovesIdle, Goto
<1>2. ASSUME gstate' = "changing" PROVE (\E x \in Threads : Owes(x))'
  <2>1. PICK x \in Threads : Owes(x)
    BY <1>2 DEF EndsInv, MovesIdle
  <2>2. x # t
    BY <2>1 DEF MovesIdle
  <2>3. pc'[x] = pc[x]
    BY <2>2 DEF EndsInv, Located, MovesIdle, Goto
  <2> QED
    BY <2>1, <2>3 DEF Owes, Changing
<1> QED
  BY <1>1, <1>2 DEF EndsInv

LEMMA OwingKeeps ==
  ASSUME EndsInv, NEW t \in Threads, MovesOwing(t)
  PROVE  EndsInv'
<1>. PICK label \in StopLabels \cup StartLabels : Goto(t, label)
  BY DEF MovesOwing
<1>1. Located'
  <2>1. label \in Places
    BY DEF Places, Labels
  <2> QED
    BY <2>1 DEF EndsInv, Located, MovesOwing, Goto
<1>2. pc'[t] \in StopLabels \cup StartLabels
  BY DEF EndsInv, Located, Goto
<1> QED
  BY <1>1, <1>2 DEF EndsInv, Owes, Changing

LEMMA SettleKeeps ==
  ASSUME EndsInv, NEW t \in Threads, Settles(t)
  PROVE  EndsInv'
  BY DEF EndsInv, Located, Settles, Goto
-----------------------------------------------------------------------------
\* loggers_global_stop keeps the invariant.
LEMMA StopKeeps ==
  ASSUME EndsInv, NEW t \in Threads, GlobalStop(t)
  PROVE  EndsInv'
<1> USE DEF StopLabels, StartLabels
<1>1. CASE StopMark(t)
  BY <1>1, OwingKeeps DEF StopMark, MovesOwing, locals
<1>2. CASE StopUpdate(t)
  BY <1>2, OwingKeeps DEF StopUpdate, MovesOwing, locals, shared
<1>3. CASE StopAll(t)
  BY <1>3, OwingKeeps DEF StopAll, MovesOwing, locals
<1>4. CASE StopDone(t)
  BY <1>4, SettleKeeps DEF StopDone, Settles, locals
<1> QED
  BY <1>1, <1>2, <1>3, <1>4 DEF GlobalStop

\* loggers_global_start keeps the invariant.
LEMMA StartKeeps ==
  ASSUME EndsInv, NEW t \in Threads, GlobalStart(t)
  PROVE  EndsInv'
<1> USE DEF StopLabels, StartLabels
<1>1. CASE StartMark(t)
  BY <1>1, OwingKeeps DEF StartMark, MovesOwing, locals
<1>2. CASE StartClear(t)
  BY <1>2, OwingKeeps DEF StartClear, MovesOwing, locals, shared
<1>3. CASE StartUpdate(t)
  BY <1>3, OwingKeeps DEF StartUpdate, MovesOwing, locals, shared
<1>4. CASE StartIfAll(t)
  BY <1>4, OwingKeeps DEF StartIfAll, MovesOwing, locals, shared
<1>5. CASE StartIfOne(t)
  BY <1>5, OwingKeeps DEF StartIfOne, MovesOwing, locals, shared
<1>6. CASE StartStop(t)
  BY <1>6, OwingKeeps DEF StartStop, MovesOwing, locals
<1>7. CASE StartAll(t)
  <2>1. \E label \in {"startFailed", "startDone"} : Goto(t, label)
    BY <1>7 DEF StartAll
  <2> QED
    BY <1>7, <2>1, OwingKeeps DEF StartAll, MovesOwing, locals
<1>8. CASE StartDone(t)
  <2>1. Outcome(pc[t]) # "changing"
    BY DEF Outcome
  <2> QED
    BY <1>8, <2>1, SettleKeeps DEF StartDone, Settles, locals
<1> QED
  BY <1>1, <1>2, <1>3, <1>4, <1>5, <1>6, <1>7, <1>8 DEF GlobalStart
-----------------------------------------------------------------------------
\* A cycle of the monitor keeps the invariant.
LEMMA MonitorKeeps ==
  ASSUME EndsInv, MonitorStep
  PROVE  EndsInv'
<1> USE DEF Owes, Changing, StopLabels, StartLabels, Places, Labels, MainLabels,
           MonitorLabels, CallStop, CallStart, Goto, shared, locals, counts,
           Monitor, AtMonitor, Threads
<1>1. CASE MonitorTop
  BY <1>1, IdleKeeps DEF MonitorTop, MovesIdle
<1>2. CASE MonitorWake
  BY <1>2, IdleKeeps DEF MonitorWake, MovesIdle
<1>3. CASE MonitorUpdate
  BY <1>3, IdleKeeps DEF MonitorUpdate, MovesIdle
<1>4. CASE Expired
  BY <1>4, IdleKeeps DEF Expired, MovesIdle
<1>5. CASE Retried
  BY <1>5, IdleKeeps DEF Retried, MovesIdle
<1>6. CASE AgainIfOne
  BY <1>6, IdleKeeps DEF AgainIfOne, MovesIdle
<1>7. CASE IfFatal
  BY <1>7, IdleKeeps DEF IfFatal, MovesIdle, RestartIf
<1>8. CASE IfError
  BY <1>8, IdleKeeps DEF IfError, MovesIdle, RestartIf
<1>9. CASE IfBark
  BY <1>9, IdleKeeps DEF IfBark, MovesIdle, RestartIf
<1>10. CASE IfOne
  BY <1>10, IdleKeeps DEF IfOne, MovesIdle
<1>11. CASE Recheck
  BY <1>11, IdleKeeps DEF Recheck, MovesIdle, RestartIf
<1>12. CASE IfStorage
  BY <1>12, IdleKeeps DEF IfStorage, MovesIdle, RestartIf
<1>13. CASE Restart
  BY <1>13, IdleKeeps DEF Restart, MovesIdle
<1>14. CASE Restarted
  BY <1>14, IdleKeeps DEF Restarted, MovesIdle
<1>15. CASE GlobalStop(Monitor)
  BY <1>15, StopKeeps DEF Monitor, Threads
<1>16. CASE GlobalStart(Monitor)
  BY <1>16, StartKeeps DEF Monitor, Threads
<1>17. CASE Rotate
  BY <1>17, IdleKeeps DEF Rotate, MovesIdle
<1> QED
  BY <1>1, <1>2, <1>3, <1>4, <1>5, <1>6, <1>7, <1>8, <1>9, <1>10, <1>11, <1>12, <1>13, <1>14, <1>15, <1>16, <1>17
  DEF MonitorStep

\* What main does between two commands keeps the invariant.
LEMMA MainKeeps ==
  ASSUME EndsInv, MainStep
  PROVE  EndsInv'
<1> USE DEF Owes, Changing, StopLabels, StartLabels, Places, Labels, MainLabels,
           MonitorLabels, CallStop, CallStart, Goto, shared, locals, counts,
           Main, AtMain, AtMonitor, Monitor, Threads
<1>1. CASE NoteShutdown
  BY <1>1, IdleKeeps DEF NoteShutdown, MovesIdle
<1>2. CASE Ran
  BY <1>2, IdleKeeps DEF Ran, MovesIdle
<1>3. CASE Files
  BY <1>3, IdleKeeps DEF Files, MovesIdle
<1>4. CASE Join
  BY <1>4, IdleKeeps DEF Join, MovesIdle
<1>5. CASE MountUpdate
  BY <1>5, IdleKeeps DEF MountUpdate, MovesIdle
<1>6. CASE MountIfOne
  BY <1>6, IdleKeeps DEF MountIfOne, MovesIdle
<1>7. CASE MountSnap
  BY <1>7, IdleKeeps DEF MountSnap, MovesIdle
<1>8. CASE Mount
  BY <1>8, IdleKeeps DEF Mount, MovesIdle
<1>9. CASE MountChange
  BY <1>9, IdleKeeps DEF MountChange, MovesIdle
<1>10. CASE MountRun
  BY <1>10, IdleKeeps DEF MountRun, MovesIdle
<1>11. CASE Spawn
  BY <1>11, IdleKeeps DEF Spawn, MovesIdle
<1>12. CASE GlobalStop(Main)
  BY <1>12, StopKeeps DEF Main, Threads
<1>13. CASE GlobalStart(Main)
  BY <1>13, StartKeeps DEF Main, Threads
<1> QED
  BY <1>1, <1>2, <1>3, <1>4, <1>5, <1>6, <1>7, <1>8, <1>9, <1>10, <1>11, <1>12, <1>13 DEF MainStep

\* To take a command keeps the invariant.
LEMMA CommandKeeps ==
  ASSUME EndsInv, Command
  PROVE  EndsInv'
<1> USE DEF Owes, Changing, StopLabels, StartLabels, Places, Labels, MainLabels,
           MonitorLabels, CallStop, CallStart, Goto, shared, locals, counts,
           Main, AtMain, Threads, Receive
<1>1. CASE Launch
  BY <1>1, IdleKeeps DEF Launch, MovesIdle
<1>2. CASE CommandLook
  BY <1>2, IdleKeeps DEF CommandLook, MovesIdle
<1>3. CASE CommandEnd
  BY <1>3, IdleKeeps DEF CommandEnd, MovesIdle
<1>4. CASE \E kind \in {"stop", "shutdown"} : CommandStop(kind)
  BY <1>4, IdleKeeps DEF CommandStop, MovesIdle
<1>5. CASE \E p \in RunPaths : CommandRun(p)
  BY <1>5, IdleKeeps DEF CommandRun, MovesIdle
<1>6. CASE \E s \in Storages, mounted \in BOOLEAN : CommandMount(s, mounted)
  BY <1>6, IdleKeeps DEF CommandMount, MovesIdle
<1> QED
  BY <1>1, <1>2, <1>3, <1>4, <1>5, <1>6 DEF Command
-----------------------------------------------------------------------------
\* A signal takes a thread to a stop, or leaves it stuck.
LEMMA SignalKeeps ==
  ASSUME EndsInv, NEW t \in Threads, Signal(t)
  PROVE  EndsInv'
<1>1. PICK label \in {"stop", "stuck"} : Goto(t, label)
  BY DEF Signal
<1>2. Located'
  BY <1>1 DEF EndsInv, Located, Signal, Goto, Places, Labels
<1>3. Owes(t)'
  BY <1>1 DEF EndsInv, Located, Goto, Owes
<1> QED
  BY <1>2, <1>3 DEF EndsInv

\* Every step keeps the invariant.
LEMMA EndsKept ==
  ASSUME EndsInv, [Next]_vars
  PROVE  EndsInv'
<1>1. CASE MainStep
  BY <1>1, MainKeeps
<1>2. CASE MonitorStep
  BY <1>2, MonitorKeeps
<1>3. CASE Command
  BY <1>3, CommandKeeps
<1>4. CASE \E t \in Threads : Signal(t)
  BY <1>4, SignalKeeps
<1>5. CASE \E t \in Threads : Exit(t)
  <2>1. pc' = [x \in Threads |-> "exited"] /\ back' = back
    BY <1>5 DEF Exit, locals
  <2> QED
    BY <2>1 DEF EndsInv, Located, Owes, Places, Labels, Threads
<1>6. CASE Fault
  BY <1>6 DEF Fault, EndsInv, Located, Owes, Changing, shared, locals
<1>7. CASE UNCHANGED vars
  BY <1>7 DEF vars, EndsInv, Located, Owes, Changing, shared, locals
<1> QED
  BY <1>1, <1>2, <1>3, <1>4, <1>5, <1>6, <1>7 DEF Next

(***************************************************************************)
(* ChangingEnds holds however the starts and stops of the two threads      *)
(* overlap, and whatever fails: loggers_global_state never stays CHANGING, *)
(* which would put the monitor out of action, unless a signal handler has  *)
(* blocked on lock_logger or the daemon has exited.                        *)
(***************************************************************************)
THEOREM ChangingCorrect == Spec => []ChangingEnds
<1>1. Init => EndsInv
  BY DEF Init, EndsInv, Located, Places, Labels, MainLabels, MonitorLabels, Threads
<1>2. EndsInv /\ [Next]_vars => EndsInv'
  BY EndsKept
<1>3. EndsInv => ChangingEnds
  BY DEF EndsInv, Owes, ChangingEnds
<1> QED
  BY <1>1, <1>2, <1>3, PTL DEF Spec
-----------------------------------------------------------------------------
(***************************************************************************)
(* Where a thread may be, and where it may return to from a start or stop. *)
(***************************************************************************)
CallLabels == {"stop", "start"} \cup StopLabels \cup StartLabels
Own(t) == Labels \cup (IF t = Main THEN MainLabels ELSE MonitorLabels)
Returns(t) ==
  {"exit"} \cup (IF t = Main THEN {"ready", "noteShutdown", "ran", "mountRun"}
                ELSE {"top", "retried", "restart", "restarted"})

Placed ==
  /\ pc \in [Threads -> Places] /\ back \in [Threads -> Places]
  /\ \A t \in Threads :
       /\ pc[t] \in Own(t) /\ back[t] \in Returns(t) \cup {"off"}
       /\ pc[t] \in CallLabels => back[t] \in Returns(t)

(***************************************************************************)
(* The monitor looks for a cause to restart the loggers, and restarts      *)
(* them, with no failed restart counted.                                   *)
(***************************************************************************)
Checks == {"ifFatal", "ifError", "ifBark", "ifOne", "recheck", "ifStorage"}
Restarts == {"restart", "restarted"}
Restarting ==
  \/ pc[Monitor] \in Checks \cup Restarts
  \/ pc[Monitor] \in CallLabels /\ back[Monitor] \in Restarts

Counted ==
  /\ errors \in 0 .. Tolerant /\ restart \in 0 .. Retries /\ low \in 0 .. LowCycles
  /\ commands \in 0 .. MaxCommands /\ faults \in 0 .. MaxFaults
  /\ Restarting => restart = 0

States == {"stopped", "changing", "started"}
BitsTyped ==
  /\ started \in BOOLEAN /\ logging \subseteq Loggers /\ fatal \subseteq Loggers
  /\ other \subseteq Loggers /\ failed \subseteq Loggers
  /\ proc \in [Loggers -> ProcStates]
DataTyped ==
  /\ gstate \in States /\ seen \in States
  /\ at \in Storages \cup {None} /\ snap \in Storages \cup {None}
  /\ shutdown \in BOOLEAN /\ done \in BOOLEAN /\ wanted \in {"run", "stop"}
  /\ avail \in [Storages -> {"ok", "low", "gone"}] /\ logPath \in LogPaths
  /\ path \in [Threads -> Storages \cup {AutoPath}]
  /\ event \in [mounted : BOOLEAN, storage : Storages \cup {None}]

\* A thread goes on inside what it does.
Goes(t) == back' = back /\ \E label \in Own(t) \ CallLabels : Goto(t, label)

\* It calls loggers_global_start or loggers_global_stop.
Calls(t) ==
  \E label \in {"start", "stop"}, r \in Returns(t) :
     Goto(t, label) /\ back' = [back EXCEPT ![t] = r]

\* It goes on inside them.
Steps(t) ==
  pc[t] \in CallLabels /\ back' = back /\ \E label \in CallLabels : Goto(t, label)

\* It returns from them.
Comes(t) == pc[t] \in CallLabels /\ Goto(t, back[t]) /\ back' = back

Moves(t) == Goes(t) \/ Calls(t) \/ Steps(t) \/ Comes(t)

\* Each of them leaves every thread in one of its places.
LEMMA MoveKeepsPlaces ==
  ASSUME Placed, NEW t \in Threads, Moves(t)
  PROVE  Placed' /\ \A x \in Threads \ {t} : pc'[x] = pc[x] /\ back'[x] = back[x]
<1>1. PICK label \in Own(t), r \in Returns(t) \cup {back[t]} :
        /\ pc' = [pc EXCEPT ![t] = label] /\ back' = [back EXCEPT ![t] = r]
        /\ label \in CallLabels => r \in Returns(t)
  <2>1. back = [back EXCEPT ![t] = back[t]]
    BY DEF Placed
  <2>2. CASE Goes(t)
    BY <2>1, <2>2 DEF Goes, Goto
  <2>3. CASE Calls(t)
    <3>1. {"start", "stop"} \subseteq Own(t)
      BY DEF Own, Labels
    <3> QED
      BY <2>3, <3>1 DEF Calls, Goto
  <2>4. CASE Steps(t)
    <3>1. CallLabels \subseteq Own(t)
      BY DEF Own, Labels, CallLabels
    <3>2. back[t] \in Returns(t)
      BY <2>4 DEF Steps, Placed
    <3> QED
      BY <2>1, <2>4, <3>1, <3>2 DEF Steps, Goto
  <2>5. CASE Comes(t)
    <3>1. back[t] \in Returns(t)
      BY <2>5 DEF Comes, Placed
    <3>2. Returns(t) \subseteq Own(t)
      BY DEF Returns, Own, Labels, MainLabels, MonitorLabels
    <3> QED
      BY <2>1, <2>5, <3>1, <3>2 DEF Comes, Goto
  <2> QED
    BY <2>2, <2>3, <2>5, <2>4 DEF Moves
<1>2. label \in Places /\ Returns(t) \cup {"off"} \subseteq Places
  BY DEF Own, Places, Returns, Labels, MainLabels, MonitorLabels
<1>3. back[t] \in Returns(t) \cup {"off"}
  BY DEF Placed
<1>4. r \in Returns(t) \cup {"off"}
  BY <1>1, <1>3
<1>5. /\ pc' \in [Threads -> Places] /\ back' \in [Threads -> Places]
      /\ pc'[t] = label /\ back'[t] = r
      /\ \A x \in Threads \ {t} : pc'[x] = pc[x] /\ back'[x] = back[x]
  BY <1>1, <1>2, <1>4 DEF Placed
<1>6. ASSUME NEW x \in Threads
      PROVE  /\ pc'[x] \in Own(x) /\ back'[x] \in Returns(x) \cup {"off"}
             /\ pc'[x] \in CallLabels => back'[x] \in Returns(x)
  BY <1>1, <1>4, <1>5, <1>6 DEF Placed
<1> QED
  BY <1>5, <1>6 DEF Placed

\* A stop moves its thread, inside it or out of it.
LEMMA StopMoves ==
  ASSUME Placed, NEW t \in Threads, GlobalStop(t)
  PROVE  Steps(t) \/ Comes(t)
<1> USE DEF CallLabels, StopLabels, StartLabels, locals
<1>1. CASE StopMark(t)
  BY <1>1 DEF StopMark, Steps
<1>2. CASE StopUpdate(t)
  BY <1>2 DEF StopUpdate, Steps
<1>3. CASE StopAll(t)
  BY <1>3 DEF StopAll, Steps
<1>4. CASE StopDone(t)
  BY <1>4 DEF StopDone, Comes
<1> QED
  BY <1>1, <1>2, <1>3, <1>4 DEF GlobalStop

\* So does a start.
LEMMA StartMoves ==
  ASSUME Placed, NEW t \in Threads, GlobalStart(t)
  PROVE  Steps(t) \/ Comes(t)
<1> USE DEF CallLabels, StopLabels, StartLabels, locals
<1>1. CASE StartMark(t)
  BY <1>1 DEF StartMark, Steps
<1>2. CASE StartClear(t)
  BY <1>2 DEF StartClear, Steps
<1>3. CASE StartUpdate(t)
  BY <1>3 DEF StartUpdate, Steps
<1>4. CASE StartIfAll(t)
  BY <1>4 DEF StartIfAll, Steps
<1>5. CASE StartIfOne(t)
  BY <1>5 DEF StartIfOne, Steps
<1>6. CASE StartStop(t)
  BY <1>6 DEF StartStop, Steps
<1>7. CASE StartAll(t)
  <2>1. /\ pc[t] = "startAll" /\ back' = back
        /\ Goto(t, "startFailed") \/ Goto(t, "startDone")
    BY <1>7 DEF StartAll
  <2> QED
    BY <2>1 DEF Steps
<1>8. CASE StartDone(t)
  BY <1>8 DEF StartDone, Comes
<1> QED
  BY <1>1, <1>2, <1>3, <1>4, <1>5, <1>6, <1>7, <1>8 DEF GlobalStart

\* What the monitor does between starts and stops.
Looks ==
  \/ MonitorTop \/ MonitorWake \/ MonitorUpdate \/ Expired \/ Retried \/ AgainIfOne
  \/ IfFatal \/ IfError \/ IfBark \/ IfOne \/ Recheck \/ IfStorage \/ Rotate \/ Restart \/ Restarted

\* In its cycle the monitor goes on, or calls.
LEMMA LooksMoves ==
  ASSUME Looks
  PROVE  Goes(Monitor) \/ Calls(Monitor)
<1> USE DEF CallStop, CallStart, locals, RestartIf, Goes, Calls
<1>1. /\ Own(Monitor) = Labels \cup MonitorLabels
      /\ Returns(Monitor) = {"exit", "top", "retried", "restart", "restarted"}
  BY DEF Own, Returns, Monitor, Main
<1>2. /\ MonitorLabels \subseteq Own(Monitor) /\ "exit" \in Own(Monitor)
      /\ MonitorLabels \cap CallLabels = {} /\ "exit" \notin CallLabels
  BY <1>1 DEF Labels, MonitorLabels, CallLabels, StopLabels, StartLabels
<1>3. CASE MonitorTop
  BY <1>2, <1>3 DEF MonitorTop, MonitorLabels
<1>4. CASE MonitorWake
  BY <1>2, <1>4 DEF MonitorWake, MonitorLabels
<1>5. CASE MonitorUpdate
  BY <1>1, <1>2, <1>5 DEF MonitorUpdate, MonitorLabels
<1>6. CASE Expired
  BY <1>1, <1>2, <1>6 DEF Expired, MonitorLabels
<1>7. CASE Retried
  BY <1>2, <1>7 DEF Retried, MonitorLabels
<1>8. CASE AgainIfOne
  BY <1>1, <1>2, <1>8 DEF AgainIfOne, MonitorLabels
<1>9. CASE IfFatal
  BY <1>1, <1>2, <1>9 DEF IfFatal, MonitorLabels
<1>10. CASE IfError
  BY <1>1, <1>2, <1>10 DEF IfError, MonitorLabels
<1>11. CASE IfBark
  BY <1>1, <1>2, <1>11 DEF IfBark, MonitorLabels
<1>12. CASE IfOne
  BY <1>2, <1>12 DEF IfOne, MonitorLabels
<1>13. CASE Recheck
  BY <1>1, <1>2, <1>13 DEF Recheck, MonitorLabels
<1>14. CASE IfStorage
  BY <1>1, <1>2, <1>14 DEF IfStorage, MonitorLabels
<1>15. CASE Restart
  BY <1>1, <1>15 DEF Restart, MonitorLabels
<1>16. CASE Restarted
  BY <1>2, <1>16 DEF Restarted, MonitorLabels
<1>17. CASE Rotate
  BY <1>2, <1>17 DEF Rotate, MonitorLabels
<1> QED
  BY <1>3, <1>4, <1>5, <1>6, <1>7, <1>8, <1>9, <1>10, <1>11, <1>12, <1>13, <1>14, <1>15, <1>16,
     <1>17
  DEF Looks

\* What main does between starts and stops.
Serves ==
  \/ NoteShutdown \/ Ran \/ Files \/ Join
  \/ MountUpdate \/ MountIfOne \/ MountSnap \/ Mount \/ MountChange \/ MountRun
  \/ Launch \/ CommandEnd
  \/ \E kind \in {"stop", "shutdown"} : CommandStop(kind)
  \/ \E p \in RunPaths : CommandRun(p)
  \/ \E s \in Storages, mounted \in BOOLEAN : CommandMount(s, mounted)

\* Serving commands, main goes on, or calls.
LEMMA ServesMoves ==
  ASSUME Serves
  PROVE  Goes(Main) \/ Calls(Main)
<1> USE DEF CallStop, CallStart, locals, Goes, Calls
<1>1. /\ Own(Main) = Labels \cup MainLabels
      /\ Returns(Main) = {"exit", "ready", "noteShutdown", "ran", "mountRun"}
  BY DEF Own, Returns
<1>2. MainLabels \subseteq Own(Main) /\ MainLabels \cap CallLabels = {}
  BY <1>1 DEF MainLabels, CallLabels, StopLabels, StartLabels
<1>3. CASE NoteShutdown
  BY <1>2, <1>3 DEF NoteShutdown, MainLabels
<1>4. CASE Ran
  BY <1>2, <1>4 DEF Ran, MainLabels
<1>5. CASE Files
  BY <1>1, <1>2, <1>5 DEF Files, MainLabels
<1>6. CASE Join
  BY <1>2, <1>6 DEF Join, MainLabels
<1>7. CASE MountUpdate
  BY <1>2, <1>7 DEF MountUpdate, MainLabels
<1>8. CASE MountIfOne
  BY <1>2, <1>8 DEF MountIfOne, MainLabels
<1>9. CASE MountSnap
  BY <1>2, <1>9 DEF MountSnap, MainLabels
<1>10. CASE Mount
  BY <1>1, <1>2, <1>10 DEF Mount, MainLabels
<1>11. CASE MountChange
  BY <1>1, <1>2, <1>11 DEF MountChange, MainLabels
<1>12. CASE MountRun
  BY <1>1, <1>12 DEF MountRun, MainLabels
<1>13. CASE Launch
  BY <1>1, <1>2, <1>13 DEF Launch, MainLabels
<1>14. CASE CommandEnd
  BY <1>2, <1>14 DEF CommandEnd, MainLabels
<1>15. CASE \E kind \in {"stop", "shutdown"} : CommandStop(kind)
  BY <1>1, <1>15 DEF CommandStop, MainLabels
<1>16. CASE \E p \in RunPaths : CommandRun(p)
  BY <1>1, <1>16 DEF CommandRun, MainLabels
<1>17. CASE \E s \in Storages, mounted \in BOOLEAN : CommandMount(s, mounted)
  BY <1>2, <1>17 DEF CommandMount, MainLabels
<1> QED
  BY <1>3, <1>4, <1>5, <1>6, <1>7, <1>8, <1>9, <1>10, <1>11, <1>12, <1>13, <1>14, <1>15, <1>16,
     <1>17
  DEF Serves

\* The monitor is created.
LEMMA SpawnMoves ==
  ASSUME Spawn
  PROVE  Goes(Monitor)
<1>1. "top" \in Own(Monitor) /\ "top" \notin CallLabels
  BY DEF Own, MonitorLabels, CallLabels, StopLabels, StartLabels, Monitor, Main
<1> QED
  BY <1>1 DEF Spawn, Goes
-----------------------------------------------------------------------------
\* The steps there are.
LEMMA StepKinds ==
  ASSUME [Next]_vars
  PROVE  \/ \E t \in Threads : GlobalStop(t) \/ GlobalStart(t) \/ Signal(t) \/ Exit(t)
         \/ Looks \/ Serves \/ Spawn \/ CommandLook \/ Fault \/ UNCHANGED vars
BY DEF Next, MainStep, MonitorStep, Command, Looks, Serves, Threads, Main, Monitor

\* The threads stay in their places.
LEMMA PlacedKept ==
  ASSUME Placed, [Next]_vars
  PROVE  Placed'
<1>1. ASSUME NEW t \in Threads, GlobalStop(t) \/ GlobalStart(t) PROVE Placed'
  <2>1. Moves(t)
    BY <1>1, StopMoves, StartMoves DEF Moves
  <2> QED
    BY <2>1, MoveKeepsPlaces
<1>2. CASE Looks \/ Spawn
  <2>1. Monitor \in Threads /\ Moves(Monitor)
    BY <1>2, LooksMoves, SpawnMoves DEF Moves, Monitor, Threads
  <2> QED
    BY <2>1, MoveKeepsPlaces
<1>3. CASE Serves
  <2>1. Main \in Threads /\ Moves(Main)
    BY <1>3, ServesMoves DEF Moves, Main, Threads
  <2> QED
    BY <2>1, MoveKeepsPlaces
<1>4. ASSUME NEW t \in Threads, Signal(t) PROVE Placed'
  <2>1. PICK label \in {"stop", "stuck"} : pc' = [pc EXCEPT ![t] = label]
    BY <1>4 DEF Signal, Goto
  <2>2. back' = [back EXCEPT ![t] = "exit"]
    BY <1>4 DEF Signal
  <2>3. \A x \in Threads : {"stop", "stuck"} \subseteq Own(x) /\ "exit" \in Returns(x)
    BY DEF Own, Labels, Returns
  <2>4. {"stop", "stuck", "exit"} \subseteq Places
    BY DEF Places, Labels
  <2> QED
    BY <2>1, <2>2, <2>3, <2>4 DEF Placed
<1>5. ASSUME NEW t \in Threads, Exit(t) PROVE Placed'
  <2>1. pc' = [x \in Threads |-> "exited"] /\ back' = back
    BY <1>5 DEF Exit, locals
  <2>2. /\ "exited" \in Places /\ "exited" \notin CallLabels
        /\ \A x \in Threads : "exited" \in Own(x)
    BY DEF Own, Places, Labels, CallLabels, StopLabels, StartLabels
  <2> QED
    BY <2>1, <2>2 DEF Placed
<1>6. CASE CommandLook \/ Fault \/ UNCHANGED vars
  <2>1. pc' = pc /\ back' = back
    BY <1>6 DEF CommandLook, Fault, vars, locals
  <2> QED
    BY <2>1 DEF Placed
<1> QED
  BY <1>1, <1>2, <1>3, <1>4, <1>5, <1>6, StepKinds
-----------------------------------------------------------------------------
\* What a step does to the loggers keeps their types.
LEMMA BitsKept ==
  ASSUME BitsTyped, [Next]_vars
  PROVE  BitsTyped'
<1> USE DEF BitsTyped, bits, world
<1>1. ASSUME UpdateState, UNCHANGED world PROVE BitsTyped'
  BY <1>1 DEF UpdateState
<1>2. ASSUME StopLoggers PROVE BitsTyped'
  <2>1. /\ proc' = [l \in Loggers |-> IF proc[l] \in Running THEN "none" ELSE proc[l]]
        /\ started' = FALSE /\ logging' = {} /\ UNCHANGED <<fatal, other, failed>>
    BY <1>2 DEF StopLoggers
  <2>2. proc' \in [Loggers -> ProcStates]
    BY <2>1 DEF ProcStates
  <2> QED
    BY <2>1, <2>2
<1>3. ASSUME NEW s, NEW bad \in SUBSET Loggers, StartLoggers(s, bad) PROVE BitsTyped'
  <2>1. PICK early \in SUBSET bad :
          proc' = [l \in Loggers |-> IF proc[l] \in Running THEN "deaf"
                                     ELSE IF l \notin bad THEN "alive"
                                     ELSE IF l \in early THEN proc[l] ELSE "none"]
    BY <1>3 DEF StartLoggers
  <2>2. proc' \in [Loggers -> ProcStates]
    BY <2>1 DEF ProcStates
  <2>3. started' = TRUE /\ logging' = {} /\ failed' \subseteq failed /\ UNCHANGED <<fatal, other>>
    BY <1>3 DEF StartLoggers
  <2> QED
    BY <2>2, <2>3
<1>4. ASSUME NEW t \in Threads, GlobalStop(t) PROVE BitsTyped'
  BY <1>1, <1>2, <1>4 DEF GlobalStop, StopMark, StopUpdate, StopAll, StopDone
<1>5. ASSUME NEW t \in Threads, GlobalStart(t) PROVE BitsTyped'
  <2>1. CASE StartAll(t)
    BY <1>3, <2>1 DEF StartAll
  <2>2. CASE StartClear(t)
    BY <2>2 DEF StartClear
  <2>3. CASE StartUpdate(t) \/ StartStop(t)
    BY <1>1, <1>2, <2>3 DEF StartUpdate, StartStop
  <2>4. CASE StartMark(t) \/ StartIfAll(t) \/ StartIfOne(t) \/ StartDone(t)
    BY <2>4 DEF StartMark, StartIfAll, StartIfOne, StartDone
  <2> QED
    BY <1>5, <2>1, <2>2, <2>3, <2>4 DEF GlobalStart
<1>6. CASE Looks
  <2>1. CASE MonitorUpdate
    BY <1>1, <2>1 DEF MonitorUpdate
  <2>2. CASE ~MonitorUpdate /\ ~Rotate
    BY <1>6, <2>2
    DEF Looks, MonitorTop, MonitorWake, Expired, Retried, AgainIfOne, IfFatal, IfError, IfBark,
        IfOne, Recheck, IfStorage, Restart, Restarted
  <2>3. CASE Rotate
    <3>1. PICK again \in SUBSET {l \in Loggers : started /\ proc[l] = "dead"} :
            \E bad \in SUBSET again :
              /\ failed' = failed \ (again \ bad)
              /\ \E early \in SUBSET bad :
                   proc' = [l \in Loggers |-> IF l \in early \/ l \notin again THEN proc[l]
                                              ELSE IF l \in bad THEN "none" ELSE "alive"]
      BY <2>3 DEF Rotate
    <3>2. PICK bad \in SUBSET again :
            /\ failed' = failed \ (again \ bad)
            /\ \E early \in SUBSET bad :
                 proc' = [l \in Loggers |-> IF l \in early \/ l \notin again THEN proc[l]
                                            ELSE IF l \in bad THEN "none" ELSE "alive"]
      BY <3>1
    <3>3. PICK early \in SUBSET bad :
            proc' = [l \in Loggers |-> IF l \in early \/ l \notin again THEN proc[l]
                                       ELSE IF l \in bad THEN "none" ELSE "alive"]
      BY <3>2
    <3>4. proc' \in [Loggers -> ProcStates]
      BY <3>3 DEF ProcStates
    <3>5. UNCHANGED <<started, logging, fatal, other>> /\ failed' \subseteq failed
      BY <2>3, <3>2 DEF Rotate
    <3> QED
      BY <3>4, <3>5
  <2> QED
    BY <2>1, <2>2, <2>3
<1>7. CASE Serves
  <2>1. CASE MountUpdate
    BY <1>1, <2>1 DEF MountUpdate
  <2>2. CASE Launch
    BY <2>2 DEF Launch
  <2>3. CASE ~MountUpdate /\ ~Launch
    BY <1>7, <2>3
    DEF Serves, NoteShutdown, Ran, Files, Join, MountIfOne, MountSnap, Mount, MountChange,
        MountRun, CommandEnd, CommandStop, CommandRun, CommandMount
  <2> QED
    BY <2>1, <2>2, <2>3
<1>8. CASE CommandLook
  BY <1>1, <1>8 DEF CommandLook
<1>9. CASE Fault
  BY <1>9 DEF Fault, ProcStates
<1>10. CASE Spawn \/ UNCHANGED vars \/ \E t \in Threads : Signal(t) \/ Exit(t)
  BY <1>10 DEF Spawn, Signal, Exit, vars
<1> QED
  BY <1>4, <1>5, <1>6, <1>7, <1>8, <1>9, <1>10, StepKinds

\* What is selected is a storage.
LEMMA SelectedStorage ==
  ASSUME NEW p, NEW excluded
  PROVE  Selected(p, excluded) \subseteq Storages \ {excluded}
BY DEF Selected, Candidates

\* Every path a thread is given is a log path.
LEMMA PathsKept ==
  ASSUME NEW t \in Threads, NEW p \in Storages \cup {AutoPath}, NEW label,
         path \in [Threads -> Storages \cup {AutoPath}], CallStart(t, p, label)
  PROVE  path' \in [Threads -> Storages \cup {AutoPath}]
BY DEF CallStart

\* The rest of the data keeps its types.
LEMMA DataKept ==
  ASSUME DataTyped, [Next]_vars
  PROVE  DataTyped'
<1> USE DEF DataTyped, shared, world, locals, counts, States
<1>0. /\ logPath \in Storages \cup {AutoPath} /\ RunPaths \subseteq Storages \cup {AutoPath}
      /\ Main \in Threads /\ Monitor \in Threads
      /\ NoEvent \in [mounted : BOOLEAN, storage : Storages \cup {None}]
  BY LoggerControlAssumption DEF Main, Monitor, Threads, NoEvent
<1>1. ASSUME NEW t \in Threads, GlobalStop(t) PROVE DataTyped'
  BY <1>1 DEF GlobalStop, StopMark, StopUpdate, StopAll, StopDone, UpdateState, StopLoggers
<1>2. ASSUME NEW t \in Threads, GlobalStart(t) PROVE DataTyped'
  <2>1. CASE StartAll(t)
    BY <2>1, SelectedStorage DEF StartAll, StartLoggers
  <2>2. CASE StartDone(t)
    BY <2>2 DEF StartDone, Outcome
  <2>3. CASE ~StartAll(t) /\ ~StartDone(t)
    BY <1>2, <2>3
    DEF GlobalStart, StartMark, StartClear, StartUpdate, StartIfAll, StartIfOne, StartStop,
        StopLoggers
  <2> QED
    BY <2>1, <2>2, <2>3
<1>3. CASE Looks
  <2>1. CASE MonitorUpdate
    BY <1>0, <2>1, PathsKept DEF MonitorUpdate
  <2>2. CASE Restart
    BY <1>0, <2>2, PathsKept DEF Restart
  <2>3. CASE IfFatal \/ IfError \/ IfBark \/ Recheck \/ IfStorage \/ Expired \/ AgainIfOne
    BY <2>3
    DEF IfFatal, IfError, IfBark, Recheck, IfStorage, Expired, AgainIfOne, RestartIf, CallStop
  <2>4. CASE MonitorTop \/ MonitorWake \/ Retried \/ IfOne \/ Restarted
    BY <2>4 DEF MonitorTop, MonitorWake, Retried, IfOne, Restarted
  <2>5. CASE Rotate
    BY <2>5 DEF Rotate
  <2> QED
    BY <1>3, <2>1, <2>2, <2>3, <2>4, <2>5 DEF Looks
<1>4. CASE Serves
  <2>1. CASE Launch
    BY <1>0, <2>1, PathsKept DEF Launch
  <2>2. CASE \E p \in RunPaths : CommandRun(p)
    BY <1>0, <2>2, PathsKept DEF CommandRun
  <2>3. CASE Mount
    BY <1>0, <2>3, PathsKept DEF Mount, CallStop
  <2>4. CASE MountRun
    <3>1. PICK p \in MountPaths : CallStart(Main, p, "ran")
      BY <2>4 DEF MountRun
    <3>2. p \in Storages \cup {AutoPath}
      BY <3>1, SelectedStorage DEF MountPaths
    <3> QED
      BY <1>0, <2>4, <3>1, <3>2, PathsKept DEF MountRun
  <2>5. CASE \E s \in Storages, mounted \in BOOLEAN : CommandMount(s, mounted)
    BY <2>5 DEF CommandMount
  <2>6. CASE NoteShutdown \/ Ran \/ Files \/ Join \/ MountUpdate \/ MountIfOne \/ MountSnap
    BY <2>6 DEF NoteShutdown, Ran, Files, Join, MountUpdate, MountIfOne, MountSnap, CallStop
  <2>7. CASE MountChange \/ CommandEnd \/ \E kind \in {"stop", "shutdown"} : CommandStop(kind)
    BY <1>0, <2>7 DEF MountChange, CommandEnd, CommandStop, CallStop
  <2> QED
    BY <1>4, <2>1, <2>2, <2>3, <2>4, <2>5, <2>6, <2>7 DEF Serves
<1>5. CASE Fault
  BY <1>5 DEF Fault
<1>6. CASE Spawn \/ CommandLook \/ UNCHANGED vars \/ \E t \in Threads : Signal(t) \/ Exit(t)
  BY <1>6 DEF Spawn, CommandLook, Signal, Exit, vars
<1> QED
  BY <1>1, <1>2, <1>3, <1>4, <1>5, <1>6, StepKinds
-----------------------------------------------------------------------------
\* Main leaves alone what the monitor counts.
LEMMA RestartingKept ==
  ASSUME Placed, Moves(Main)
  PROVE  Restarting' <=> Restarting
<1>1. pc'[Monitor] = pc[Monitor] /\ back'[Monitor] = back[Monitor]
  BY MoveKeepsPlaces DEF Main, Monitor, Threads
<1> QED
  BY <1>1 DEF Restarting

\* A start or a stop returns to where it was called.
LEMMA CallKeepsRestarting ==
  ASSUME Placed, Steps(Monitor) \/ Comes(Monitor)
  PROVE  Restarting' => Restarting
<1>1. /\ pc \in [Threads -> Places] /\ Monitor \in Threads
      /\ back[Monitor] \in Returns(Monitor) /\ pc[Monitor] \in CallLabels
  BY DEF Placed, Monitor, Threads, Steps, Comes
<1>2. /\ (Checks \cup Restarts) \cap CallLabels = {}
      /\ Returns(Monitor) \cap CallLabels = {}
      /\ Returns(Monitor) \cap (Checks \cup Restarts) = Restarts
  BY DEF Checks, Restarts, CallLabels, StopLabels, StartLabels, Returns, Main, Monitor
<1>3. CASE Steps(Monitor)
  <2>1. PICK label \in CallLabels : pc' = [pc EXCEPT ![Monitor] = label]
    BY <1>3 DEF Steps, Goto
  <2>2. pc'[Monitor] \in CallLabels /\ back' = back
    BY <1>1, <1>3, <2>1 DEF Steps
  <2> QED
    BY <1>1, <1>2, <2>2 DEF Restarting
<1>4. CASE Comes(Monitor)
  <2>1. pc'[Monitor] = back[Monitor] /\ back' = back
    BY <1>1, <1>4 DEF Comes, Goto
  <2> QED
    BY <1>1, <1>2, <2>1 DEF Restarting
<1> QED
  BY <1>3, <1>4

\* The counters stay in their ranges.
Ranges ==
  /\ errors \in 0 .. Tolerant /\ restart \in 0 .. Retries /\ low \in 0 .. LowCycles
  /\ commands \in 0 .. MaxCommands /\ faults \in 0 .. MaxFaults

\* No counter passes its limit.
LEMMA RangesKept ==
  ASSUME Ranges, pc[Monitor] = "restarted" => restart = 0, [Next]_vars
  PROVE  Ranges'
<1>0. /\ Tolerant \in Nat \ {0} /\ Retries \in Nat \ {0} /\ LowCycles \in Nat \ {0}
      /\ MaxCommands \in Nat /\ MaxFaults \in Nat
  BY LoggerControlAssumption
<1> USE DEF Ranges, shared, locals, counts
<1>1. ASSUME NEW t \in Threads, GlobalStop(t) PROVE Ranges'
  BY <1>1 DEF GlobalStop, StopMark, StopUpdate, StopAll, StopDone
<1>2. ASSUME NEW t \in Threads, GlobalStart(t) PROVE Ranges'
  <2>1. CASE StartAll(t)
    <3>1. errors' \in {errors, 0} /\ faults' \in {faults, faults + 1}
      BY <2>1 DEF StartAll, StartLoggers
    <3>2. faults' # faults => faults < MaxFaults
      BY <2>1 DEF StartAll
    <3>3. restart' = restart /\ low' = low /\ commands' = commands
      BY <2>1 DEF StartAll
    <3> QED
      BY <1>0, <3>1, <3>2, <3>3
  <2>2. CASE ~StartAll(t)
    BY <1>2, <2>2
    DEF GlobalStart, StartMark, StartClear, StartUpdate, StartIfAll, StartIfOne, StartStop,
        StartDone
  <2> QED
    BY <2>1, <2>2
<1>3. CASE Looks
  <2>1. CASE MonitorUpdate
    BY <1>0, <2>1 DEF MonitorUpdate
  <2>2. CASE Retried
    BY <1>0, <2>2 DEF Retried, NextRetry
  <2>3. CASE Restarted
    BY <1>0, <2>3 DEF Restarted, AtMonitor
  <2>4. CASE IfFatal
    BY <1>0, <2>4 DEF IfFatal
  <2>5. CASE IfError
    BY <1>0, <2>5 DEF IfError, TooManyErrors
  <2>6. CASE IfBark
    BY <1>0, <2>6 DEF IfBark
  <2>7. CASE IfStorage
    BY <1>0, <2>7 DEF IfStorage, LeaveStorage
  <2>8. CASE MonitorTop \/ MonitorWake \/ Expired \/ AgainIfOne \/ IfOne \/ Recheck \/ Restart
    BY <2>8 DEF MonitorTop, MonitorWake, Expired, AgainIfOne, IfOne, Recheck, Restart
  <2>9. CASE Rotate
    <3>1. faults \in 0 .. MaxFaults /\ MaxFaults \in Nat
      BY <1>0, LoggerControlAssumption
    <3>2. faults' = faults \/ (faults < MaxFaults /\ faults' = faults + 1)
      BY <2>9 DEF Rotate
    <3> QED
      BY <2>9, <3>1, <3>2 DEF Rotate
  <2> QED
    BY <1>3, <2>1, <2>2, <2>3, <2>4, <2>5, <2>6, <2>7, <2>8, <2>9 DEF Looks
<1>4. CASE Serves
  <2>1. ASSUME NEW kind, Receive(kind), UNCHANGED <<errors, restart, low>> PROVE Ranges'
    BY <1>0, <2>1 DEF Receive
  <2>2. CASE CommandEnd
    BY <2>1, <2>2 DEF CommandEnd
  <2>3. CASE \E kind \in {"stop", "shutdown"} : CommandStop(kind)
    BY <2>1, <2>3 DEF CommandStop
  <2>4. CASE \E p \in RunPaths : CommandRun(p)
    BY <2>1, <2>4 DEF CommandRun
  <2>5. CASE \E s \in Storages, mounted \in BOOLEAN : CommandMount(s, mounted)
    BY <2>1, <2>5 DEF CommandMount
  <2>6. CASE \/ NoteShutdown \/ Ran \/ Files \/ Join \/ MountUpdate \/ MountIfOne \/ MountSnap
             \/ Mount \/ MountChange \/ MountRun \/ Launch
    BY <2>6
    DEF NoteShutdown, Ran, Files, Join, MountUpdate, MountIfOne, MountSnap, Mount, MountChange,
        MountRun, Launch
  <2> QED
    BY <1>4, <2>2, <2>3, <2>4, <2>5, <2>6 DEF Serves
<1>5. CASE CommandLook
  BY <1>0, <1>5 DEF CommandLook, Receive
<1>6. CASE Fault
  BY <1>0, <1>6 DEF Fault
<1>7. CASE Spawn
  BY <1>0, <1>7 DEF Spawn
<1>8. CASE UNCHANGED vars \/ \E t \in Threads : Signal(t) \/ Exit(t)
  BY <1>8 DEF Signal, Exit, vars
<1> QED
  BY <1>1, <1>2, <1>3, <1>4, <1>5, <1>6, <1>7, <1>8, StepKinds

\* No failed restart is counted while one is considered.
LEMMA RestartZeroKept ==
  ASSUME Placed, Restarting => restart = 0, [Next]_vars
  PROVE  Restarting' => restart' = 0
<1> USE DEF locals
<1>0. pc \in [Threads -> Places] /\ back \in [Threads -> Places]
      /\ Main \in Threads /\ Monitor \in Threads /\ Main # Monitor /\ Threads = {Main, Monitor}
  BY DEF Placed, Main, Monitor, Threads
<1>1. CASE GlobalStop(Monitor) \/ GlobalStart(Monitor)
  <2>1. Restarting' => Restarting
    BY <1>0, <1>1, StopMoves, StartMoves, CallKeepsRestarting
  <2>2. restart' = restart
    BY <1>1
    DEF GlobalStop, StopMark, StopUpdate, StopAll, StopDone, GlobalStart, StartMark, StartClear,
        StartUpdate, StartIfAll, StartIfOne, StartStop, StartAll, StartDone
  <2> QED
    BY <2>1, <2>2
<1>2. CASE GlobalStop(Main) \/ GlobalStart(Main) \/ Serves
  <2>1. Moves(Main)
    BY <1>0, <1>2, StopMoves, StartMoves, ServesMoves DEF Moves
  <2>2. Restarting' <=> Restarting
    BY <2>1, RestartingKept
  <2>3. GlobalStop(Main) => restart' = restart
    BY DEF GlobalStop, StopMark, StopUpdate, StopAll, StopDone
  <2>4. GlobalStart(Main) => restart' = restart
    BY DEF GlobalStart, StartMark, StartClear, StartUpdate, StartIfAll, StartIfOne, StartStop,
           StartAll, StartDone
  <2>5. Serves => restart' = restart
    BY DEF Serves, NoteShutdown, Ran, Files, Join, MountUpdate, MountIfOne, MountSnap, Mount,
           MountChange, MountRun, Launch, CommandEnd, CommandStop, CommandRun, CommandMount
  <2> QED
    BY <1>2, <2>2, <2>3, <2>4, <2>5
<1>3. CASE Looks
  <2> USE DEF Restarting, Restarts, Checks, AtMonitor, Goto, CallLabels, StopLabels, StartLabels
  <2>1. CASE MonitorUpdate
    BY <1>0, <2>1 DEF MonitorUpdate, CallStart
  <2>2. CASE Expired \/ AgainIfOne
    BY <1>0, <2>2 DEF Expired, AgainIfOne, CallStop
  <2>3. CASE MonitorTop \/ MonitorWake \/ Retried \/ Restarted \/ Rotate
    BY <1>0, <2>3 DEF MonitorTop, MonitorWake, Retried, Restarted, Rotate
  <2>4. CASE \/ IfFatal \/ IfError \/ IfBark \/ IfOne \/ Recheck \/ IfStorage \/ Restart
    BY <2>4 DEF IfFatal, IfError, IfBark, IfOne, Recheck, IfStorage, Restart
  <2> QED
    BY <1>3, <2>1, <2>2, <2>3, <2>4 DEF Looks
<1>4. CASE Spawn
  BY <1>4 DEF Spawn
<1>5. ASSUME NEW t \in Threads, Signal(t) PROVE Restarting' => restart' = 0
  <2>1. CASE t = Monitor
    <3>1. back'[Monitor] = "exit" /\ pc'[Monitor] \in {"stop", "stuck"}
      BY <1>0, <1>5, <2>1 DEF Signal, Goto
    <3> QED
      BY <3>1 DEF Restarting, Checks, Restarts
  <2>2. CASE t # Monitor
    <3>1. pc'[Monitor] = pc[Monitor] /\ back'[Monitor] = back[Monitor] /\ restart' = restart
      BY <1>0, <1>5, <2>2 DEF Signal, Goto
    <3> QED
      BY <3>1 DEF Restarting
  <2> QED
    BY <2>1, <2>2
<1>6. ASSUME NEW t \in Threads, Exit(t) PROVE Restarting' => restart' = 0
  <2>1. pc'[Monitor] = "exited"
    BY <1>0, <1>6 DEF Exit
  <2> QED
    BY <2>1 DEF Restarting, Checks, Restarts, CallLabels, StopLabels, StartLabels
<1>7. CASE CommandLook \/ Fault \/ UNCHANGED vars
  <2>1. pc' = pc /\ back' = back /\ restart' = restart
    BY <1>7 DEF CommandLook, Fault, vars
  <2> QED
    BY <2>1 DEF Restarting
<1> QED
  BY <1>0, <1>1, <1>2, <1>3, <1>4, <1>5, <1>6, <1>7, StepKinds

\* All types, with what they rest on.
TypeInv == Placed /\ Counted /\ BitsTyped /\ DataTyped

\* TypeInv is inductive.
LEMMA TypeInductive ==
  /\ Init => TypeInv
  /\ TypeInv /\ [Next]_vars => TypeInv'
<1>1. ASSUME Init PROVE TypeInv
  <2>1. /\ pc = [main |-> "off", monitor |-> "gone"] /\ back = [t \in Threads |-> "off"]
        /\ errors = 0 /\ restart = 0 /\ low = 0 /\ commands = 0 /\ faults = 0
    BY <1>1 DEF Init
  <2>2. Placed
    BY <2>1
    DEF Placed, Own, Returns, Places, Labels, MainLabels, MonitorLabels, CallLabels, StopLabels,
        StartLabels, Threads, Main, Monitor
  <2>3. Counted
    BY <2>1, LoggerControlAssumption DEF Counted
  <2>4. BitsTyped
    BY <1>1 DEF Init, BitsTyped, ProcStates
  <2>5. DataTyped
    BY <1>1, LoggerControlAssumption DEF Init, DataTyped, States, NoEvent
  <2> QED
    BY <2>2, <2>3, <2>4, <2>5 DEF TypeInv
<1>2. ASSUME TypeInv, [Next]_vars PROVE TypeInv'
  <2>1. Restarting' => restart' = 0
    BY <1>2, RestartZeroKept DEF TypeInv, Counted
  <2>2. pc[Monitor] = "restarted" => restart = 0
    BY <1>2 DEF TypeInv, Counted, Restarting, Restarts
  <2>3. Ranges'
    BY <1>2, <2>2, RangesKept DEF TypeInv, Counted, Ranges
  <2>4. Counted'
    BY <2>1, <2>3 DEF Counted, Ranges
  <2> QED
    BY <1>2, <2>4, PlacedKept, BitsKept, DataKept DEF TypeInv
<1> QED
  BY <1>1, <1>2

(***************************************************************************)
(* TypeOK: the types of all variables and the places of the two threads;   *)
(* in particular, no counter of the monitor passes its limit, and a signal *)
(* handler never returns to the middle of what it interrupted.             *)
(***************************************************************************)
THEOREM TypeCorrect == Spec => []TypeOK
<1>1. ASSUME TypeInv PROVE TypeOK
  <2>1. /\ pc \in [Threads -> Places] /\ back \in [Threads -> Places]
        /\ pc[Main] \in Labels \cup MainLabels
        /\ back[Main] \in {"exit", "ready", "noteShutdown", "ran", "mountRun", "off"}
        /\ pc[Monitor] \in Labels \cup MonitorLabels
        /\ back[Monitor] \in {"exit", "top", "retried", "restart", "restarted", "off"}
    BY <1>1 DEF TypeInv, Placed, Own, Returns, Threads, Main, Monitor
  <2>2. /\ (Labels \cup MainLabels) \cap MonitorLabels = {}
        /\ (Labels \cup MonitorLabels) \cap MainLabels = {}
    BY DEF Labels, MainLabels, MonitorLabels, StopLabels, StartLabels
  <2>3. /\ pc \in [Threads -> Labels \cup MainLabels \cup MonitorLabels]
        /\ pc[Main] \notin MonitorLabels /\ pc[Monitor] \notin MainLabels
    BY <2>1, <2>2 DEF Places
  <2>4. back \in [Threads -> {"exit"} \cup MainLabels \cup MonitorLabels]
    <3>1. \A t \in Threads : back[t] \in {"exit"} \cup MainLabels \cup MonitorLabels
      BY <2>1 DEF Threads, Main, Monitor, MainLabels, MonitorLabels
    <3> QED
      BY <2>1, <3>1
  <2>5. back[Main] \notin MonitorLabels /\ back[Monitor] \in {"off", "exit"} \cup MonitorLabels
    BY <2>1 DEF MonitorLabels
  <2> QED
    BY <1>1, <2>3, <2>4, <2>5 DEF TypeInv, Counted, BitsTyped, DataTyped, States, TypeOK
<1> QED
  BY <1>1, TypeInductive, PTL DEF Spec
-----------------------------------------------------------------------------
\* The least of a set of naturals.
LEMMA Least ==
  ASSUME NEW T \in SUBSET Nat, T # {}
  PROVE  \E x \in T : \A y \in T : x <= y
<1> DEFINE R == OpToRel(<, Nat)
<1>1. IsWellFoundedOn(R, Nat)
  BY NatLessThanWellFounded
<1>2. \A x, y \in Nat : <<x, y>> \in R <=> x < y
  BY DEF OpToRel
<1> HIDE DEF R
<1>3. PICK x \in T : \A y \in T : <<y, x>> \notin R
  BY <1>1, WFMin
<1>4. ASSUME NEW y \in T PROVE x <= y
  <2>1. x \in Nat /\ y \in Nat /\ <<y, x>> \notin R
    BY <1>3
  <2>2. ~(y < x)
    BY <1>2, <2>1
  <2> QED
    BY <2>1, <2>2
<1> QED
  BY <1>4

\* If storage_select_logging_path may select a storage, it selects one.
LEMMA SomeSelected ==
  ASSUME NEW p, NEW excluded, Candidates(p, excluded) # {}
  PROVE  Selected(p, excluded) # {}
<1> DEFINE C == Candidates(p, excluded)
           T == {MaxInt - Priority[s] : s \in C}
<1>1. C \subseteq Storages /\ \A s \in C : Priority[s] \in 0 .. MaxInt
  BY LoggerControlAssumption DEF Candidates
<1>2. MaxInt \in Nat
  BY DEF MaxInt
<1> HIDE DEF C
<1>3. T \in SUBSET Nat /\ T # {}
  <2>1. \A s \in C : MaxInt - Priority[s] \in Nat
    BY <1>1, <1>2
  <2> QED
    BY <2>1 DEF C
<1>4. PICK s \in C : \A r \in C : MaxInt - Priority[s] <= MaxInt - Priority[r]
  <2>1. PICK x \in T : \A y \in T : x <= y
    BY <1>3, Least
  <2> QED
    BY <2>1
<1>5. ASSUME NEW r \in C PROVE Priority[r] <= Priority[s]
  <2>1. /\ Priority[r] \in Int /\ Priority[s] \in Int
        /\ MaxInt - Priority[s] <= MaxInt - Priority[r]
    BY <1>1, <1>4
  <2> QED
    BY <1>2, <2>1
<1> QED
  BY <1>5 DEF Selected, C

(***************************************************************************)
(* Main starts the loggers after an unmount on a storage that is not the   *)
(* one that goes and that can be selected; the event is over when the      *)
(* service ends.                                                           *)
(***************************************************************************)
StartsMain == pc[Main] \in {"start"} \cup StartLabels
Leaving == event # NoEvent /\ ~event.mounted /\ faults = 0
Elsewhere ==
  \/ Candidates(AutoPath, event.storage) = {}
  \/ path[Main] \in Storages \ {event.storage} /\ avail[path[Main]] = "ok"
EjectInv ==
  /\ pc[Main] \in {"off", "join"} => event = NoEvent
  /\ StartsMain /\ Leaving => Elsewhere

\* What a step keeps that moves main no nearer to a start, or on in one.
LEMMA EjectUntouched ==
  ASSUME EjectInv, UNCHANGED <<event, avail>>, faults' = 0 => faults = 0,
         path'[Main] = path[Main],
         pc'[Main] \in {"off", "join"} => pc[Main] \in {"off", "join"},
         StartsMain' => StartsMain
  PROVE  EjectInv'
<1>1. Elsewhere' <=> Elsewhere
  BY DEF Elsewhere, Candidates
<1> QED
  BY <1>1 DEF EjectInv, Leaving

\* EjectInv is kept.
LEMMA EjectKept ==
  ASSUME TypeInv, EjectInv, [Next]_vars
  PROVE  EjectInv'
<1> USE DEF shared, world, locals, counts
<1>0. /\ pc \in [Threads -> Places] /\ back \in [Threads -> Places]
      /\ path \in [Threads -> Storages \cup {AutoPath}] /\ faults \in Nat
      /\ Main \in Threads /\ Monitor \in Threads /\ Main # Monitor /\ Threads = {Main, Monitor}
  BY LoggerControlAssumption
  DEF TypeInv, Placed, Counted, DataTyped, Main, Monitor, Threads
<1>1. CASE GlobalStop(Monitor) \/ GlobalStart(Monitor) \/ Looks \/ Spawn
  <2>1. Moves(Monitor) /\ Placed
    BY <1>0, <1>1, StopMoves, StartMoves, LooksMoves, SpawnMoves DEF TypeInv, Moves
  <2>2. pc'[Main] = pc[Main]
    BY <1>0, <2>1, MoveKeepsPlaces
  <2>3. GlobalStop(Monitor) => UNCHANGED <<event, avail, faults, path>>
    BY DEF GlobalStop, StopMark, StopUpdate, StopAll, StopDone, StopLoggers
  <2>4. GlobalStart(Monitor) => UNCHANGED <<event, avail, path>> /\ faults' \in {faults, faults + 1}
    BY DEF GlobalStart, StartMark, StartClear, StartUpdate, StartIfAll, StartIfOne, StartStop,
           StartAll, StartDone, StopLoggers, StartLoggers
  <2>5. Spawn => UNCHANGED <<event, avail, faults, path>>
    BY DEF Spawn
  <2>6. Looks => /\ UNCHANGED <<event, avail>> /\ faults' \in {faults, faults + 1}
                 /\ path' = path \/ \E p : path' = [path EXCEPT ![Monitor] = p]
    BY DEF Looks, MonitorTop, MonitorWake, MonitorUpdate, Expired, Retried, AgainIfOne, IfFatal,
           IfError, IfBark, IfOne, Recheck, IfStorage, Rotate, Restart, Restarted, RestartIf, CallStop,
           CallStart
  <2>7. /\ UNCHANGED <<event, avail>> /\ faults' \in {faults, faults + 1}
        /\ path'[Main] = path[Main]
    BY <1>0, <1>1, <2>3, <2>4, <2>5, <2>6
  <2>8. faults' = 0 => faults = 0
    BY <1>0, <2>7
  <2> QED
    BY <2>2, <2>7, <2>8, EjectUntouched DEF StartsMain
<1>2. CASE GlobalStop(Main) \/ GlobalStart(Main)
  <2>1. /\ UNCHANGED <<event, avail, path>> /\ faults' \in {faults, faults + 1}
    <3>1. GlobalStop(Main) => UNCHANGED <<event, avail, faults, path>>
      BY DEF GlobalStop, StopMark, StopUpdate, StopAll, StopDone, StopLoggers
    <3>2. GlobalStart(Main) => UNCHANGED <<event, avail, path>> /\ faults' \in {faults, faults + 1}
      BY DEF GlobalStart, StartMark, StartClear, StartUpdate, StartIfAll, StartIfOne, StartStop,
             StartAll, StartDone, StopLoggers, StartLoggers
    <3> QED
      BY <1>2, <3>1, <3>2
  <2>2. faults' = 0 => faults = 0
    BY <1>0, <2>1
  <2>3. /\ back[Main] \in Returns(Main)
        /\ Returns(Main) = {"exit", "ready", "noteShutdown", "ran", "mountRun"}
    <3>1. Steps(Main) \/ Comes(Main)
      BY <1>0, <1>2, StopMoves, StartMoves DEF TypeInv
    <3> QED
      BY <1>0, <3>1 DEF Steps, Comes, TypeInv, Placed, Returns
  <2> USE DEF StartsMain, StartLabels, Goto
  <2>4. /\ pc'[Main] \in {"off", "join"} => pc[Main] \in {"off", "join"}
        /\ StartsMain' => StartsMain
    <3>1. CASE GlobalStop(Main)
      BY <1>0, <2>3, <3>1 DEF GlobalStop, StopMark, StopUpdate, StopAll, StopDone
    <3>2. CASE GlobalStart(Main)
      <4>1. StartsMain
        BY <3>2
        DEF GlobalStart, StartMark, StartClear, StartUpdate, StartIfAll, StartIfOne, StartStop,
            StartAll, StartDone
      <4>2. pc'[Main] \notin {"off", "join"}
        BY <1>0, <2>3, <3>2
        DEF GlobalStart, StartMark, StartClear, StartUpdate, StartIfAll, StartIfOne, StartStop,
            StartAll, StartDone
      <4> QED
        BY <4>1, <4>2
    <3> QED
      BY <1>2, <3>1, <3>2
  <2> QED
    BY <2>1, <2>2, <2>4, EjectUntouched
<1>3. CASE Serves
  <2> USE DEF AtMain, Goto, StartsMain, StartLabels
  <2>1. CASE Launch
    <3>1. event' = event /\ event = NoEvent
      BY <2>1 DEF Launch, EjectInv
    <3> QED
      BY <3>1 DEF EjectInv, Leaving
  <2>2. CASE CommandEnd \/ \E p \in RunPaths : CommandRun(p)
    <3>1. event' = NoEvent
      BY <2>2 DEF CommandEnd, CommandRun
    <3> QED
      BY <3>1 DEF EjectInv, Leaving
  <2>3. CASE MountRun
    <3>1. PICK p \in MountPaths : CallStart(Main, p, "ran")
      BY <2>3 DEF MountRun
    <3>2. path'[Main] = p /\ pc'[Main] = "start" /\ UNCHANGED <<event, avail, faults>>
      BY <1>0, <2>3, <3>1 DEF MountRun, CallStart
    <3>3. ASSUME Leaving PROVE Elsewhere'
      <4>1. p \in Selected(AutoPath, event.storage) \/ Selected(AutoPath, event.storage) = {}
        BY <3>1, <3>3 DEF MountPaths, Leaving
      <4>2. CASE Selected(AutoPath, event.storage) = {}
        BY <3>2, <4>2, SomeSelected DEF Elsewhere, Candidates
      <4>3. CASE p \in Selected(AutoPath, event.storage)
        BY <3>2, <4>3 DEF Elsewhere, Selected, Candidates
      <4> QED
        BY <4>1, <4>2, <4>3
    <3> QED
      BY <3>2, <3>3 DEF EjectInv, Leaving
  <2>4. CASE Mount
    <3>1. /\ UNCHANGED <<event, avail, faults>> /\ pc'[Main] \notin {"off", "join"}
          /\ pc'[Main] # "start" \/ event.mounted
          /\ pc'[Main] \in {"start", "stop", "mountChange", "ready"}
      BY <1>0, <2>4 DEF Mount, CallStart, CallStop, MountRuns
    <3> QED
      BY <3>1 DEF EjectInv, Leaving
  <2>5. CASE \E s \in Storages, mounted \in BOOLEAN : CommandMount(s, mounted)
    <3>1. pc'[Main] = "mountUpdate"
      BY <1>0, <2>5 DEF CommandMount
    <3> QED
      BY <3>1 DEF EjectInv
  <2>6. CASE NoteShutdown \/ Ran \/ Files \/ MountUpdate \/ MountIfOne \/ MountSnap
    <3>1. pc'[Main] \in {"ready", "files", "stop", "mountIfOne", "mountSnap", "mount"}
      BY <1>0, <2>6
      DEF NoteShutdown, Ran, Files, MountUpdate, MountIfOne, MountSnap, CallStop
    <3> QED
      BY <3>1 DEF EjectInv
  <2>7. CASE MountChange \/ \E kind \in {"stop", "shutdown"} : CommandStop(kind)
    <3>1. pc'[Main] \in {"stop", "mountRun"}
      BY <1>0, <2>7 DEF MountChange, CommandStop, CallStop
    <3> QED
      BY <3>1 DEF EjectInv
  <2>8. CASE Join
    <3>1. pc'[Main] = "off" /\ pc[Main] = "join" /\ event' = event
      BY <1>0, <2>8 DEF Join
    <3> QED
      BY <3>1 DEF EjectInv
  <2> QED
    BY <1>3, <2>1, <2>2, <2>3, <2>4, <2>5, <2>6, <2>7, <2>8 DEF Serves
<1>4. ASSUME NEW t \in Threads, Signal(t) PROVE EjectInv'
  <2>1. UNCHANGED <<event, avail, faults, path>>
    BY <1>4 DEF Signal
  <2>2. pc'[Main] \in {pc[Main], "stop", "stuck"}
    BY <1>0, <1>4 DEF Signal, Goto
  <2> QED
    BY <2>1, <2>2, EjectUntouched DEF StartsMain, StartLabels
<1>5. ASSUME NEW t \in Threads, Exit(t) PROVE EjectInv'
  <2>1. pc'[Main] = "exited"
    BY <1>0, <1>5 DEF Exit
  <2> QED
    BY <2>1 DEF EjectInv, StartsMain, StartLabels
<1>6. CASE CommandLook
  <2>1. UNCHANGED <<pc, event, avail, faults, path>>
    BY <1>6 DEF CommandLook, Receive
  <2> QED
    BY <2>1, EjectUntouched DEF StartsMain
<1>7. CASE Fault
  <2>1. UNCHANGED <<pc, event>> /\ faults' = faults + 1
    BY <1>7 DEF Fault
  <2>2. faults' # 0
    BY <1>0, <2>1
  <2> QED
    BY <2>1, <2>2 DEF EjectInv, Leaving
<1>8. CASE UNCHANGED vars
  <2>1. UNCHANGED <<pc, event, avail, faults, path>>
    BY <1>8 DEF vars
  <2> QED
    BY <2>1, EjectUntouched DEF StartsMain
<1> QED
  BY <1>0, <1>1, <1>2, <1>3, <1>4, <1>5, <1>6, <1>7, <1>8, StepKinds

(***************************************************************************)
(* EjectedAvoided: loggers that are moved off a storage about to be        *)
(* unmounted are not started on it again, although it is still mounted, if *)
(* there was another to select and nothing fails.                          *)
(***************************************************************************)
THEOREM EjectedCorrect == Spec => EjectedAvoided
<1>1. Init => EjectInv
  BY DEF Init, EjectInv, StartsMain, StartLabels, Main
<1>2. ASSUME TypeInv, EjectInv, StartAll(Main), Leaving
      PROVE  at' # event.storage \/ Candidates(AutoPath, event.storage) = {}
  <2> SUFFICES ASSUME Candidates(AutoPath, event.storage) # {} PROVE at' # event.storage
    OBVIOUS
  <2> DEFINE p == path[Main]
  <2>1. p \in Storages \ {event.storage} /\ avail[p] = "ok"
    BY <1>2 DEF StartAll, EjectInv, Elsewhere, StartsMain, StartLabels
  <2>2. Candidates(p, None) = {p}
    BY <2>1, LoggerControlAssumption DEF Candidates
  <2>3. Priority[p] \in Int
    BY <2>1, LoggerControlAssumption
  <2>4. Selected(p, None) = {p}
    BY <2>2, <2>3 DEF Selected
  <2>5. at' = p
    BY <1>2, <2>4 DEF StartAll, StartLoggers
  <2> QED
    BY <2>1, <2>5
<1>3. TypeInv /\ EjectInv =>
        [StartAll(Main) /\ event # NoEvent /\ ~event.mounted /\ faults = 0 =>
           at' # event.storage \/ Candidates(AutoPath, event.storage) = {}]_vars
  BY <1>2 DEF Leaving
<1>4. TypeInv /\ EjectInv /\ [Next]_vars => EjectInv'
  BY EjectKept
<1> QED
  BY <1>1, <1>3, <1>4, TypeInductive, PTL DEF Spec, EjectedAvoided
-----------------------------------------------------------------------------
(***************************************************************************)
(* Clients that only stop, and nothing that fails.  Then the loggers are   *)
(* started once, before there is a monitor, and from then on the state     *)
(* never becomes "started" again: the monitor has nothing to restart, and  *)
(* its second reading of the state tells it so when a stop has come        *)
(* between the first one and its look at the loggers.                      *)
(***************************************************************************)
OnlyStops == Commands \cap {"run", "mount", "end"} = {} /\ Loggers # {}

Starting == {"start"} \cup StartLabels
Early == {"off", "ran", "files"} \cup Starting
Judging == {"ifFatal", "ifError", "ifBark", "ifOne"}

CalmLoggers ==
  /\ failed = {} /\ fatal = {} /\ other = {} /\ restart = 0
  /\ \A l \in Loggers : proc[l] = IF started THEN "alive" ELSE "none"
  /\ at # None => avail[at] = "ok"
  /\ gstate = "started" => started

CalmMain ==
  /\ pc[Main] \in Early \cup Handling \cup {"ready", "noteShutdown", "exit", "stuck", "exited"}
  /\ pc[Main] \in Early => AtMonitor("gone")
  /\ AtMain("off") => gstate = "stopped" /\ ~started
  /\ pc[Main] \in Starting \ {"startDone", "startFailed"} => ~started
  /\ AtMain("startDone") => started
  /\ pc[Main] \in Starting => back[Main] = "ran"
  /\ pc[Main] \in Handling => back[Main] \in {"ready", "noteShutdown", "exit"}

CalmMonitor ==
  /\ pc[Monitor] \in Judging \cup Handling
       \cup {"gone", "top", "asleep", "update", "expired", "againIfOne", "recheck", "ifStorage",
             "rotation", "exit", "stuck", "exited"}
  /\ pc[Monitor] \in Handling => back[Monitor] \in {"top", "exit"}
  /\ pc[Monitor] \in Judging /\ started => logging = Loggers
  /\ AtMonitor("recheck") => gstate # "started"

NotStarted == \A t \in Threads : pc[t] \in StopLabels \cup StartLabels => gstate # "started"

Calm == CalmLoggers /\ CalmMain /\ CalmMonitor /\ NotStarted

\* A step of one thread leaves the other where it is.
LEMMA OtherStays ==
  ASSUME TypeInv, NEW t \in Threads, NEW label, Goto(t, label)
  PROVE  /\ pc'[t] = label /\ \A u \in Threads \ {t} : pc'[u] = pc[u]
         /\ t = Main => pc'[Main] = label /\ pc'[Monitor] = pc[Monitor]
         /\ t = Monitor => pc'[Monitor] = label /\ pc'[Main] = pc[Main]
BY DEF TypeInv, Placed, Goto, Main, Monitor, Threads

\* The bits as log_update_state finds them when all processes are alive or none.
LEMMA CalmUpdate ==
  ASSUME CalmLoggers, UpdateState
  PROVE  logging' = Loggers /\ fatal' = {} /\ other' = {} /\ started' = started
BY DEF CalmLoggers, UpdateState

\* Stopping the loggers.
LEMMA CalmStop ==
  ASSUME TypeInv, CalmLoggers, StopLoggers
  PROVE  /\ started' = FALSE /\ at' = None /\ failed' = {} /\ fatal' = {} /\ other' = {}
         /\ \A l \in Loggers : proc'[l] = "none"
BY DEF CalmLoggers, StopLoggers, Running

\* Each step of loggers_global_stop, of either thread.
LEMMA StopKeepsCalm ==
  ASSUME OnlyStops, TypeInv, Calm, NEW t \in Threads, GlobalStop(t)
  PROVE  Calm'
<1> USE DEF Calm, AtMain, AtMonitor, shared, world, locals, bits, counts
<1>0. pc[t] \in Handling /\ back' = back /\ restart' = restart /\ avail' = avail
      /\ (t = Main \/ t = Monitor)
  BY DEF GlobalStop, StopMark, StopUpdate, StopAll, StopDone, StopLoggers, Handling, Threads, Main,
         Monitor
<1>1. pc'[t] \in {"stopUpdate", "stopAll", "stopDone"} \/ (pc'[t] = back[t] /\ gstate' = "stopped")
  BY OtherStays DEF GlobalStop, StopMark, StopUpdate, StopAll, StopDone
<1>2. CalmLoggers' /\ gstate' # "started"
      /\ (started' => started /\ (logging' = logging \/ logging' = Loggers))
  <2>1. pc[t] \in StopLabels => gstate # "started"
    BY DEF NotStarted
  <2>2. CASE StopMark(t)
    BY <2>2 DEF StopMark, CalmLoggers
  <2>3. CASE StopUpdate(t)
    BY <2>1, <2>3, CalmUpdate DEF StopUpdate, CalmLoggers, UpdateState, StopLabels
  <2>4. CASE StopAll(t)
    BY <2>1, <2>4, CalmStop DEF StopAll, CalmLoggers, StopLabels
  <2>5. CASE StopDone(t)
    BY <2>5 DEF StopDone, CalmLoggers
  <2> QED
    BY <2>2, <2>3, <2>4, <2>5 DEF GlobalStop
<1>3. \A u \in Threads \ {t} : pc'[u] = pc[u]
  BY OtherStays DEF GlobalStop, StopMark, StopUpdate, StopAll, StopDone
<1>4. CASE t = Main
  <2>1. back[Main] \in {"ready", "noteShutdown", "exit"} /\ pc'[Monitor] = pc[Monitor]
    BY <1>0, <1>3, <1>4 DEF CalmMain, Main, Monitor, Threads
  <2>2. pc'[Main] \in Handling \cup {"ready", "noteShutdown", "exit"}
    BY <1>1, <1>4, <2>1 DEF Handling
  <2>3. CalmMain'
    BY <1>0, <2>1, <2>2 DEF CalmMain, Early, Starting, StartLabels, Handling
  <2>4. CalmMonitor'
    BY <1>0, <1>2, <2>1 DEF CalmMonitor
  <2> QED
    BY <1>2, <2>3, <2>4 DEF NotStarted
<1>5. CASE t = Monitor
  <2>1. back[Monitor] \in {"top", "exit"} /\ pc'[Main] = pc[Main]
    BY <1>0, <1>3, <1>5 DEF CalmMonitor, Main, Monitor, Threads
  <2>2. pc'[Monitor] \in Handling \cup {"top", "exit"}
    BY <1>1, <1>5, <2>1 DEF Handling
  <2>3. pc[Main] \notin Early
    BY <1>0, <1>5 DEF CalmMain, Handling
  <2>4. CalmMain'
    BY <1>0, <2>1, <2>3 DEF CalmMain, Early, Starting, StartLabels
  <2>5. CalmMonitor'
    BY <1>0, <2>1, <2>2 DEF CalmMonitor, Judging, Handling
  <2> QED
    BY <1>2, <2>4, <2>5 DEF NotStarted
<1> QED
  BY <1>0, <1>4, <1>5

\* Starting the loggers when none runs, and no start fails.
LEMMA CalmStart ==
  ASSUME TypeInv, CalmLoggers, ~started, faults' = 0, StartAll(Main)
  PROVE  /\ pc'[Main] \in {"startDone", "startFailed"}
         /\ pc'[Main] = "startDone" => started'
         /\ CalmLoggers' \/ gstate = "started"
<1>1. faults \in Nat
  BY LoggerControlAssumption DEF TypeInv, Counted
<1> USE DEF CalmLoggers, bits, world, locals
<1>2. CASE Selected(path[Main], None) = {} /\ Goto(Main, "startFailed")
           /\ UNCHANGED <<bits, at, errors, world, faults>>
  BY <1>2, OtherStays DEF StartAll, Threads, Main
<1>3. ASSUME NEW s \in Selected(path[Main], None), NEW bad \in SUBSET Loggers,
             faults' = IF bad = {} THEN faults ELSE faults + 1,
             StartLoggers(s, bad), Goto(Main, "startDone")
      PROVE  /\ pc'[Main] = "startDone" /\ started' /\ CalmLoggers'
  <2>1. bad = {}
    BY <1>1, <1>3
  <2>2. avail[s] = "ok" /\ avail' = avail /\ at' = s
    BY <1>3 DEF Selected, Candidates, StartLoggers
  <2>3. \A l \in Loggers : proc'[l] = "alive"
    BY <1>3, <2>1 DEF StartLoggers, Running
  <2>4. started' /\ failed' = {} /\ fatal' = {} /\ other' = {} /\ restart' = restart
    BY <1>3, <2>1 DEF StartLoggers, StartAll
  <2>5. pc'[Main] = "startDone"
    BY <1>3, OtherStays DEF Threads, Main
  <2> QED
    BY <2>2, <2>3, <2>4, <2>5
<1> QED
  BY <1>1, <1>2, <1>3 DEF StartAll

\* The one start, by main while there is no monitor.
LEMMA StartKeepsCalm ==
  ASSUME OnlyStops, TypeInv, Calm, NEW t \in Threads, GlobalStart(t), faults' = 0
  PROVE  Calm'
<1> USE DEF Calm, shared, world, locals, bits, counts
<1>0. pc[t] \in Starting
  BY DEF GlobalStart, StartMark, StartClear, StartUpdate, StartIfAll, StartIfOne, StartStop,
         StartAll, StartDone, Starting, StartLabels
<1>1. t = Main
  BY <1>0 DEF CalmMonitor, Judging, Handling, Starting, StartLabels, Threads, Main, Monitor
<1>2. AtMonitor("gone") /\ back[Main] = "ran"
  BY <1>0, <1>1 DEF CalmMain, Early
<1>3. back' = back /\ restart' = restart
  BY <1>1
  DEF GlobalStart, StartMark, StartClear, StartUpdate, StartIfAll, StartIfOne, StartStop,
      StartAll, StartDone
<1>4. pc'[Monitor] = "gone"
  BY <1>1, <1>2, OtherStays
  DEF GlobalStart, StartMark, StartClear, StartUpdate, StartIfAll, StartIfOne, StartStop,
      StartAll, StartDone, AtMonitor
<1>5. ~started \/ pc[Main] \in {"startDone", "startFailed"}
  BY <1>0, <1>1 DEF CalmMain
<1>6. /\ CalmLoggers'
      /\ \/ /\ pc'[Main] \in StartLabels /\ gstate' # "started"
            /\ pc'[Main] \in {"startDone", "startFailed"} \/ ~started'
            /\ pc'[Main] = "startDone" => started'
         \/ pc'[Main] = "ran"
  <2> USE DEF StartLabels
  <2>1. CASE StartMark(Main)
    BY <1>5, <2>1, OtherStays DEF StartMark, CalmLoggers, Threads, Main
  <2>2. ASSUME pc[Main] \in StartLabels PROVE gstate # "started"
    BY <2>2, <1>1 DEF NotStarted
  <2>3. CASE StartClear(Main)
    BY <1>5, <2>2, <2>3, OtherStays DEF StartClear, CalmLoggers, Threads, Main
  <2>4. CASE StartUpdate(Main)
    BY <1>5, <2>2, <2>4, OtherStays, CalmUpdate
    DEF StartUpdate, UpdateState, CalmLoggers, Threads, Main
  <2>5. CASE StartIfAll(Main)
    BY <1>5, <2>2, <2>5, OtherStays DEF StartIfAll, LoggingAll, CalmLoggers, Threads, Main
  <2>6. CASE StartIfOne(Main)
    BY <1>5, <2>2, <2>6, OtherStays DEF StartIfOne, CalmLoggers, Threads, Main
  <2>7. CASE StartStop(Main)
    <3>1. pc'[Main] = "startAll" /\ pc[Main] = "startStop" /\ StopLoggers /\ gstate' = gstate
          /\ restart' = restart
      BY <2>7, OtherStays DEF StartStop, Threads, Main
    <3>2. CalmLoggers' /\ ~started'
      BY <2>2, <3>1, CalmStop DEF CalmLoggers
    <3> QED
      BY <2>2, <3>1, <3>2
  <2>8. CASE StartAll(Main)
    <3>1. pc[Main] = "startAll" /\ gstate' = gstate
      BY <2>8 DEF StartAll
    <3> QED
      BY <1>5, <2>2, <2>8, <3>1, CalmStart
  <2>9. CASE StartDone(Main)
    <3>1. pc'[Main] = "ran" /\ pc[Main] \in {"startDone", "startFailed"}
          /\ gstate' = Outcome(pc[Main]) /\ UNCHANGED <<bits, at, world, restart>>
      BY <1>2, <2>9, OtherStays DEF StartDone, Threads, Main
    <3>2. AtMain("startDone") => started
      BY DEF CalmMain
    <3> QED
      BY <3>1, <3>2 DEF Outcome, CalmLoggers, AtMain
  <2> QED
    BY <1>1, <2>1, <2>3, <2>4, <2>5, <2>6, <2>7, <2>8, <2>9 DEF GlobalStart
<1>7. CalmMain'
  BY <1>2, <1>3, <1>4, <1>6 DEF CalmMain, Early, Starting, StartLabels, Handling, AtMain, AtMonitor
<1>8. CalmMonitor'
  BY <1>4 DEF CalmMonitor, Judging, Handling, AtMonitor
<1>9. NotStarted'
  BY <1>4, <1>6 DEF NotStarted, StartLabels, StopLabels, Threads, Main, Monitor
<1> QED
  BY <1>6, <1>7, <1>8, <1>9

\* The monitor in its cycle: no cause to restart is one, and the second reading
\* of the state does not find it started.
LEMMA LooksKeepsCalm ==
  ASSUME OnlyStops, TypeInv, Calm, Looks, faults = 0, faults' = 0
  PROVE  Calm'
<1> USE DEF Calm, shared, world, locals, bits, counts, AtMonitor
<1>1. CalmLoggers' /\ UNCHANGED <<started, gstate>>
  <2> USE DEF CalmLoggers
  <2>1. CASE MonitorUpdate
    BY <2>1, CalmUpdate DEF MonitorUpdate, UpdateState, CallStart, CallStop
  <2>2. ~(Retried \/ Restart \/ Restarted)
    BY DEF Retried, Restart, Restarted, CalmMonitor, Judging, Handling
  <2>3. CASE MonitorTop \/ MonitorWake \/ Expired \/ AgainIfOne
    BY <2>3 DEF MonitorTop, MonitorWake, Expired, AgainIfOne
  <2>4. CASE IfFatal \/ IfError
    BY <2>4 DEF IfFatal, IfError
  <2>5. CASE IfBark \/ IfOne \/ Recheck \/ IfStorage
    BY <2>5 DEF IfBark, IfOne, Recheck, IfStorage
  <2>6. CASE Rotate
    <3>1. {l \in Loggers : started /\ proc[l] = "dead"} = {}
      OBVIOUS
    <3>2. failed' = {} /\ UNCHANGED <<bits, shared, avail, restart>>
      BY <2>6 DEF Rotate
    <3>3. proc' = [l \in Loggers |-> proc[l]]
      BY <2>6, <3>1 DEF Rotate
    <3> QED
      BY <3>2, <3>3
  <2> QED
    BY <2>1, <2>2, <2>3, <2>4, <2>5, <2>6 DEF Looks
<1>2. /\ Monitor \in Threads /\ Main \in Threads /\ Monitor # Main /\ Threads = {Main, Monitor}
      /\ back \in [Threads -> Places]
  BY DEF Threads, Main, Monitor, TypeInv, Placed
<1>3. pc[Monitor] \notin {"gone", "exit", "stuck", "exited"} \cup Handling
  BY DEF Looks, MonitorTop, MonitorWake, MonitorUpdate, Expired, Retried, AgainIfOne, IfFatal,
         IfError, IfBark, IfOne, Recheck, IfStorage, Rotate, Restart, Restarted, Handling
<1>4. /\ pc'[Main] = pc[Main] /\ back'[Main] = back[Main]
      /\ \/ pc'[Monitor] \in {"gone", "asleep", "top", "update", "exit", "ifStorage", "rotation", "againIfOne",
                             "expired"}
         \/ pc'[Monitor] \in Judging /\ (started => logging' = Loggers)
         \/ pc'[Monitor] = "recheck" /\ gstate # "started"
         \/ pc'[Monitor] = "stop" /\ back'[Monitor] \in {"exit", "top"}
  <2> USE DEF CallStop, Goto, TypeInv, Placed
  <2>1. CASE MonitorTop \/ MonitorWake
    BY <1>2, <2>1 DEF MonitorTop, MonitorWake
  <2>2. CASE MonitorUpdate
    <3>1. restart = 0 /\ logging' = Loggers
      BY <2>2, CalmUpdate DEF MonitorUpdate, CalmLoggers
    <3> QED
      BY <1>2, <2>2, <3>1 DEF MonitorUpdate, Judging
  <2>3. CASE Expired \/ AgainIfOne
    BY <1>2, <2>3 DEF Expired, AgainIfOne
  <2>4. CASE IfFatal \/ IfError \/ IfBark
    <3>1. /\ pc[Monitor] \in Judging /\ logging' = logging
          /\ pc'[Monitor] \in {"ifError", "ifBark", "ifOne"} /\ pc'[Main] = pc[Main] /\ back' = back
      BY <1>2, <2>4
      DEF IfFatal, IfError, IfBark, RestartIf, TooManyErrors, HaveError, CalmLoggers, Judging
    <3> QED
      BY <3>1 DEF CalmMonitor, Judging
  <2>5. CASE IfOne
    <3>1. pc[Monitor] \in Judging
      BY <2>5 DEF IfOne, Judging
    <3>2. gstate = "started" => LoggingOne
      BY <3>1 DEF LoggingOne, OnlyStops, CalmMonitor, CalmLoggers
    <3> QED
      BY <1>2, <2>5, <3>2 DEF IfOne
  <2>6. CASE Recheck \/ IfStorage \/ Rotate
    BY <1>2, <2>6
    DEF Recheck, IfStorage, Rotate, RestartIf, LeaveStorage, CalmLoggers, CalmMonitor
  <2>7. ~(Retried \/ Restart \/ Restarted)
    BY DEF Retried, Restart, Restarted, CalmMonitor, Judging, Handling
  <2> QED
    BY <2>1, <2>2, <2>3, <2>4, <2>5, <2>6, <2>7 DEF Looks
<1>5. CalmMain'
  <2>1. pc[Main] \notin Early
    BY <1>3 DEF CalmMain
  <2> QED
    BY <1>1, <1>4, <2>1 DEF CalmMain, Early, Starting, StartLabels, AtMain
<1>6. CalmMonitor'
  BY <1>1, <1>4 DEF CalmMonitor, Judging, Handling
<1>7. NotStarted'
  BY <1>1, <1>2, <1>4 DEF NotStarted, StopLabels, StartLabels, Judging
<1> QED
  BY <1>1, <1>5, <1>6, <1>7

\* Main, which only serves stops once it has started the loggers.
LEMMA ServesKeepsCalm ==
  ASSUME OnlyStops, TypeInv, Calm, Serves
  PROVE  Calm'
<1> USE DEF Calm, shared, world, locals, bits, counts, AtMain, AtMonitor
<1>1. /\ Monitor \in Threads /\ Main \in Threads /\ Monitor # Main /\ Threads = {Main, Monitor}
      /\ back \in [Threads -> Places] /\ pc \in [Threads -> Places]
  BY DEF Threads, Main, Monitor, TypeInv, Placed
<1>2. \/ Launch \/ NoteShutdown \/ Ran \/ Files
      \/ \E kind \in {"stop", "shutdown"} : CommandStop(kind)
  <2>1. pc[Main] \notin {"join", "mountUpdate", "mountIfOne", "mountSnap", "mount", "mountChange",
                        "mountRun"}
    BY DEF CalmMain, Early, Starting, StartLabels, Handling
  <2>2. "run" \notin Commands /\ "mount" \notin Commands /\ "end" \notin Commands
    BY DEF OnlyStops
  <2> QED
    BY <2>1, <2>2
    DEF Serves, Join, MountUpdate, MountIfOne, MountSnap, Mount, MountChange, MountRun, CommandEnd,
        CommandRun, CommandMount, Receive
<1>3. CASE Launch
  <2>1. pc[Main] = "off" /\ AtMonitor("gone") /\ gstate = "stopped"
    BY <1>3 DEF Launch, CalmMain, Early
  <2>2. /\ ~started' /\ fatal' = {} /\ other' = {} /\ at' = None
        /\ UNCHANGED <<gstate, world, restart>>
    BY <1>3 DEF Launch
  <2>3. /\ pc'[Monitor] = "gone"
        /\ \/ pc'[Main] = "start" /\ back'[Main] = "ran"
           \/ pc'[Main] = "ready"
    BY <1>1, <1>3, <2>1 DEF Launch, CallStart, Goto
  <2>4. CalmLoggers'
    BY <2>1, <2>2 DEF CalmLoggers, CalmMain
  <2>5. CalmMain'
    BY <2>2, <2>3 DEF CalmMain, Early, Starting, StartLabels, Handling
  <2>6. CalmMonitor'
    BY <2>3 DEF CalmMonitor, Judging, Handling
  <2>7. NotStarted'
    BY <2>1, <2>2 DEF NotStarted
  <2> QED
    BY <2>4, <2>5, <2>6, <2>7
<1>4. ASSUME NoteShutdown \/ Ran \/ Files \/ \E kind \in {"stop", "shutdown"} : CommandStop(kind)
      PROVE  Calm'
  <2>1. UNCHANGED <<bits, gstate, at, world, restart>>
    BY <1>4 DEF NoteShutdown, Ran, Files, CommandStop
  <2>2. /\ pc'[Monitor] = pc[Monitor] /\ back'[Monitor] = back[Monitor]
        /\ \/ pc'[Main] = "stop" /\ back'[Main] \in {"ready", "noteShutdown"}
           \/ pc'[Main] = "ready"
           \/ pc'[Main] = "files" /\ pc[Main] = "ran"
    BY <1>1, <1>4 DEF NoteShutdown, Ran, Files, CommandStop, CallStop, Goto
  <2>3. CalmLoggers'
    BY <2>1 DEF CalmLoggers
  <2>4. CalmMain'
    BY <2>1, <2>2 DEF CalmMain, Early, Starting, StartLabels, Handling
  <2>5. CalmMonitor'
    BY <2>1, <2>2 DEF CalmMonitor
  <2>6. NotStarted'
    BY <1>1, <2>1, <2>2 DEF NotStarted, StopLabels, StartLabels
  <2> QED
    BY <2>3, <2>4, <2>5, <2>6
<1> QED
  BY <1>2, <1>3, <1>4

\* The environment's faults are only counted.
LEMMA FaultsGrow == ASSUME [Next]_vars PROVE faults' \in {faults, faults + 1}
<1> USE DEF counts
<1>1. ASSUME NEW t \in Threads, GlobalStop(t) \/ GlobalStart(t) \/ Signal(t) \/ Exit(t)
      PROVE  faults' \in {faults, faults + 1}
  BY <1>1
  DEF GlobalStop, StopMark, StopUpdate, StopAll, StopDone, GlobalStart, StartMark, StartClear,
      StartUpdate, StartIfAll, StartIfOne, StartStop, StartAll, StartDone, Signal, Exit
<1>2. CASE Looks
  BY <1>2
  DEF Looks, MonitorTop, MonitorWake, MonitorUpdate, Expired, Retried, AgainIfOne, IfFatal,
      IfError, IfBark, IfOne, Recheck, IfStorage, Rotate, Restart, Restarted
<1>3. CASE Serves
  BY <1>3
  DEF Serves, NoteShutdown, Ran, Files, Join, MountUpdate, MountIfOne, MountSnap, Mount,
      MountChange, MountRun, Launch, CommandEnd, CommandStop, CommandRun, CommandMount, Receive
<1>4. CASE Spawn \/ CommandLook \/ Fault \/ UNCHANGED vars
  BY <1>4 DEF Spawn, CommandLook, Receive, Fault, vars
<1> QED
  BY <1>1, <1>2, <1>3, <1>4, StepKinds

\* Every step keeps the calm, as long as nothing fails.
LEMMA CalmKept ==
  ASSUME OnlyStops, TypeInv, faults = 0 => Calm, [Next]_vars
  PROVE  faults' = 0 => Calm'
<1> SUFFICES ASSUME faults' = 0 PROVE Calm'
  OBVIOUS
<1> USE DEF shared, world, locals, bits, counts, AtMain, AtMonitor
<1>1. /\ Monitor \in Threads /\ Main \in Threads /\ Monitor # Main /\ Threads = {Main, Monitor}
      /\ back \in [Threads -> Places] /\ pc \in [Threads -> Places] /\ faults \in Nat
  BY LoggerControlAssumption DEF Threads, Main, Monitor, TypeInv, Placed, Counted
<1>2. faults = 0 /\ Calm
  <2>1. faults' \in {faults, faults + 1}
    BY FaultsGrow
  <2> QED
    BY <1>1, <2>1
<1>3. ASSUME NEW t \in Threads, GlobalStop(t) PROVE Calm'
  BY <1>2, <1>3, StopKeepsCalm
<1>4. ASSUME NEW t \in Threads, GlobalStart(t) PROVE Calm'
  BY <1>2, <1>4, StartKeepsCalm
<1>5. CASE Looks
  BY <1>2, <1>5, LooksKeepsCalm
<1>6. CASE Serves
  BY <1>2, <1>6, ServesKeepsCalm
<1>7. CASE Spawn
  <2>1. /\ pc'[Monitor] = "top" /\ pc'[Main] = "ready" /\ restart' = 0
        /\ UNCHANGED <<bits, gstate, at, world, back>>
    BY <1>1, <1>7 DEF Spawn, Goto
  <2>2. CalmLoggers'
    BY <1>2, <2>1 DEF Calm, CalmLoggers
  <2>3. CalmMain'
    BY <2>1 DEF CalmMain, Early, Starting, StartLabels, Handling
  <2>4. CalmMonitor'
    BY <2>1 DEF CalmMonitor, Judging, Handling
  <2>5. NotStarted'
    BY <1>1, <2>1 DEF NotStarted, StopLabels, StartLabels
  <2> QED
    BY <2>2, <2>3, <2>4, <2>5 DEF Calm
<1>8. CASE CommandLook
  <2>1. UpdateState /\ UNCHANGED <<shared, world, pc, locals>>
    BY <1>8 DEF CommandLook
  <2>2. logging' = Loggers /\ fatal' = {} /\ other' = {} /\ started' = started
    BY <1>2, <2>1, CalmUpdate DEF Calm
  <2> QED
    BY <1>2, <2>1, <2>2 DEF Calm, CalmLoggers, CalmMain, CalmMonitor, NotStarted
<1>9. ASSUME NEW t \in Threads, Signal(t) PROVE Calm'
  <2>1. /\ UNCHANGED <<bits, shared, world, restart>> /\ pc[t] \notin {"off", "gone"}
        /\ pc'[t] \in {"stop", "stuck"} /\ back'[t] = "exit"
        /\ \A u \in Threads \ {t} : pc'[u] = pc[u] /\ back'[u] = back[u]
    BY <1>1, <1>9 DEF Signal, Goto
  <2>2. CalmLoggers'
    BY <1>2, <2>1 DEF Calm, CalmLoggers
  <2>3. CalmMain'
    BY <1>1, <1>2, <2>1 DEF Calm, CalmMain, Early, Starting, StartLabels, Handling
  <2>4. CalmMonitor'
    BY <1>1, <1>2, <2>1 DEF Calm, CalmMonitor, Judging, Handling
  <2>5. NotStarted'
    BY <1>1, <1>2, <2>1 DEF Calm, NotStarted, StopLabels, StartLabels
  <2> QED
    BY <2>2, <2>3, <2>4, <2>5 DEF Calm
<1>10. ASSUME NEW t \in Threads, Exit(t) PROVE Calm'
  <2>1. /\ UNCHANGED <<bits, shared, world, locals>>
        /\ pc'[Main] = "exited" /\ pc'[Monitor] = "exited"
    BY <1>1, <1>10 DEF Exit
  <2> QED
    BY <1>1, <1>2, <2>1
    DEF Calm, CalmLoggers, CalmMain, CalmMonitor, NotStarted, Early, Starting, Judging, Handling,
        StartLabels, StopLabels
<1>11. CASE Fault
  BY <1>1, <1>11 DEF Fault
<1>12. CASE UNCHANGED vars
  BY <1>2, <1>12 DEF vars, Calm, CalmLoggers, CalmMain, CalmMonitor, NotStarted
<1> QED
  BY <1>3, <1>4, <1>5, <1>6, <1>7, <1>8, <1>9, <1>10, <1>11, <1>12, StepKinds

(***************************************************************************)
(* StopHolds for clients that only stop: however many stops there are, and *)
(* wherever they fall into the cycle of the monitor, it does not start     *)
(* again what was stopped: unless something fails it starts nothing at     *)
(* all, because it reads the state a second time.  Nothing is said of      *)
(* clients that run loggers again: LoggerControl_undo shows that they fool *)
(* the second reading.                                                     *)
(***************************************************************************)
THEOREM StopHoldsCorrect == ASSUME OnlyStops PROVE Spec => StopHolds
<1> DEFINE IInv == TypeInv /\ (faults = 0 => Calm)
<1>1. Init => IInv
  <2>1. Init => Calm
    BY DEF Init, Calm, CalmLoggers, CalmMain, CalmMonitor, NotStarted, Early, Starting, Judging,
           Handling, StartLabels, StopLabels, Main, Monitor, Threads, AtMain, AtMonitor
  <2> QED
    BY <2>1, TypeInductive
<1>2. IInv /\ [Next]_vars => IInv'
  BY TypeInductive, CalmKept
<1>3. IInv => [StartAll(Monitor) /\ started' /\ faults' = 0 =>
                 wanted = "run" \/ pc[Main] \in {"stop", "stopUpdate", "stopAll"}]_vars
  <2> SUFFICES ASSUME IInv, StartAll(Monitor), faults' = 0 PROVE FALSE
    OBVIOUS
  <2>1. faults = 0
    BY LoggerControlAssumption DEF TypeInv, Counted, StartAll
  <2>2. pc[Monitor] # "startAll"
    BY <2>1 DEF Calm, CalmMonitor, Judging, Handling
  <2> QED
    BY <2>2 DEF StartAll
<1> QED
  BY <1>1, <1>2, <1>3, PTL DEF Spec, StopHolds
=============================================================================
