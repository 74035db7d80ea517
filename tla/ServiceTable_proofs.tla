------------------------- MODULE ServiceTable_proofs -------------------------
(***************************************************************************)
(* Proofs about ServiceTable: for any table, clients and faults, a service *)
(* has at most one thread; and what the table says of a service is so as   *)
(* long as get_port and pthread_create do not fail.                        *)
(***************************************************************************)
EXTENDS ServiceTable, TLAPS

\* The types of what the arguments are about.
Counted ==
  /\ socket \in [Services -> Ports \cup {None}] /\ port \in [Services -> Ports \cup {None}]
  /\ serving \in [Services -> Nat] /\ returned \in [Services -> Nat]

\* An entry without a socket has no thread, one with a socket at most one.
ThreadsOf(s) ==
  /\ serving[s] + returned[s] <= 1
  /\ socket[s] = None => serving[s] + returned[s] = 0

ThreadInv == Counted /\ \A s \in Services : ThreadsOf(s)

\* The same of the recorded port, with nothing in between.
PortOf(s) ==
  /\ port[s] # None => socket[s] = port[s] /\ serving[s] + returned[s] = 1
  /\ port[s] = None => socket[s] = None /\ serving[s] + returned[s] = 0

PortInv == Counted /\ \A s \in Services : PortOf(s)

LEMMA NoneIsNoPort == None \notin Ports
  BY ServiceTableAssumption

\* run_service of an entry that is not running.
LEMMA RunKeepsThreads ==
  ASSUME ThreadInv, NEW s \in Services, NEW answer, ~IsRunning(s),
         RunService(s, answer), UNCHANGED returned
  PROVE  ThreadInv'
  BY NoneIsNoPort DEF ThreadInv, Counted, ThreadsOf, IsRunning, RunService, FreePorts

LEMMA RunKeepsPorts ==
  ASSUME PortInv, NEW s \in Services, NEW answer, ~IsRunning(s),
         RunService(s, answer), UNCHANGED returned, Faults \cap {"name", "thread"} = {}
  PROVE  PortInv'
  BY NoneIsNoPort DEF PortInv, Counted, PortOf, IsRunning, RunService, FreePorts, Fault

\* A thread leaves its proc.
Leaves(s) ==
  /\ serving[s] > 0 /\ UNCHANGED table
  /\ serving' = [serving EXCEPT ![s] = @ - 1]
  /\ returned' = [returned EXCEPT ![s] = @ + 1]

LEMMA LeaveKeeps ==
  ASSUME NEW s \in Services, Leaves(s)
  PROVE  (ThreadInv => ThreadInv') /\ (PortInv => PortInv')
  BY DEF ThreadInv, PortInv, Counted, ThreadsOf, PortOf, Leaves, table

\* The thread of a service clears its entry.
LEMMA EndKeeps ==
  ASSUME NEW s \in Services, ThreadEnd(s)
  PROVE  (ThreadInv => ThreadInv') /\ (PortInv => PortInv')
<1>1. /\ returned[s] > 0 /\ UNCHANGED serving
      /\ socket' = [socket EXCEPT ![s] = None] /\ port' = [port EXCEPT ![s] = None]
      /\ returned' = [returned EXCEPT ![s] = @ - 1]
  BY DEF ThreadEnd, ClearEntry
<1>2. ThreadInv => ThreadInv'
  BY <1>1 DEF ThreadInv, Counted, ThreadsOf
<1>3. PortInv => PortInv'
  BY <1>1 DEF PortInv, Counted, PortOf
<1> QED
  BY <1>2, <1>3
-----------------------------------------------------------------------------
(***************************************************************************)
(* Every step keeps an invariant on the table and the threads that the     *)
(* three lemmas above keep.  The steps that touch neither are the others.  *)
(***************************************************************************)
Aside == UNCHANGED <<table, threads>>

LEMMA AsideKeeps ==
  ASSUME Aside
  PROVE  (ThreadInv => ThreadInv') /\ (PortInv => PortInv')
  BY DEF Aside, ThreadInv, PortInv, Counted, ThreadsOf, PortOf, table, threads

Runs ==
  \E s \in Services, answer \in Ports \cup {None} :
    /\ ~IsRunning(s) /\ RunService(s, answer)
    /\ UNCHANGED returned

\* The services that main has still to start are services.
Boots == todo \in Seq(Services)

LEMMA BootsKept ==
  ASSUME Boots, [Next]_vars
  PROVE  Boots'
<1>1. CASE BootRun
  BY <1>1 DEF BootRun, Boots
<1>2. CASE UNCHANGED todo
  BY <1>2 DEF Boots
<1> QED
  BY <1>1, <1>2
     DEF Next, vars, MainStep, BootDone, Serve, Hangup, EndServer, Accept, LoadSettings,
         ThreadStep, ThreadEnd, Handle, GiveUp, Request, Ask, Lookup, Again, Connect

\* What a step can do to the table and the threads.
LEMMA Kinds ==
  ASSUME Boots, [Next]_vars
  PROVE  Aside \/ Runs \/ \E s \in Services : Leaves(s) \/ ThreadEnd(s)
<1> USE DEF Aside, Runs
<1>1. CASE BootRun
  <2>1. Head(todo) \in Services
    BY <1>1 DEF BootRun, Boots
  <2>2. CASE IsRunning(Head(todo))
    BY <1>1, <2>1, <2>2 DEF BootRun, threads
  <2>3. CASE ~IsRunning(Head(todo))
    BY <1>1, <2>1, <2>3 DEF BootRun
  <2> QED
    BY <2>2, <2>3
<1>2. CASE BootDone
  BY <1>2 DEF BootDone
<1>3. CASE Serve
  <2>1. CASE want[conn] \in Services /\ ~IsRunning(want[conn]) /\ (\E answer \in Ports \cup {None} :
                RunService(want[conn], answer) /\ Answer(conn, answer))
    BY <1>3, <2>1 DEF Serve
  <2>2. CASE UNCHANGED <<table, serving, faults>>
    BY <1>3, <2>2 DEF Serve, threads
  <2> QED
    BY <1>3, <2>1, <2>2 DEF Serve
<1>4. CASE Hangup
  BY <1>4 DEF Hangup
<1>5. CASE EndServer
  BY <1>5 DEF EndServer
<1>6. CASE \E c \in Clients : Accept(c)
  BY <1>6 DEF Accept
<1>7. CASE LoadSettings
  BY <1>7 DEF LoadSettings
<1>8. CASE \E s \in Services : ThreadEnd(s)
  BY <1>8
<1>9. CASE \E s \in Services, c \in Clients : Handle(s, c)
  <2>1. PICK s \in Services, c \in Clients : Handle(s, c)
    BY <1>9
  <2>2. CASE asked[c]
    BY <2>1, <2>2 DEF Handle, Leaves
  <2>3. CASE ~asked[c]
    BY <2>1, <2>3 DEF Handle
  <2> QED
    BY <2>2, <2>3
<1>10. CASE \E s \in Services : GiveUp(s)
  BY <1>10 DEF GiveUp, Leaves
<1>11. CASE \E c \in Clients : Connect(c)
  BY <1>11 DEF Connect
<1>12. CASE \E c \in Clients : Request(c)
  <2>1. PICK c \in Clients : Request(c)
    BY <1>12
  <2>2. CASE \E s \in Services \cup {Unknown, None}, ends \in BOOLEAN : Ask(c, s, ends)
    BY <2>2 DEF Ask
  <2>3. CASE \E s \in Services : Lookup(c, s)
    BY <2>3 DEF Lookup
  <2>4. CASE Again(c)
    BY <2>4 DEF Again
  <2> QED
    BY <2>1, <2>2, <2>3, <2>4 DEF Request
<1>13. CASE UNCHANGED vars
  BY <1>13 DEF vars
<1> QED
  BY <1>1, <1>2, <1>3, <1>4, <1>5, <1>6, <1>7, <1>8, <1>9, <1>10, <1>11, <1>12, <1>13
     DEF Next, MainStep, ThreadStep

LEMMA ThreadInductive ==
  /\ Init => Boots /\ ThreadInv
  /\ Boots /\ ThreadInv /\ [Next]_vars => (Boots /\ ThreadInv)'
<1>1. Init => Boots /\ ThreadInv
  BY ServiceTableAssumption DEF Init, Boots, ThreadInv, Counted, ThreadsOf
<1>2. Boots /\ ThreadInv /\ [Next]_vars => (Boots /\ ThreadInv)'
  <2> SUFFICES ASSUME Boots, ThreadInv, [Next]_vars PROVE ThreadInv'
    BY BootsKept
  <2>1. CASE Runs
    BY <2>1, RunKeepsThreads DEF Runs
  <2> QED
    BY <2>1, Kinds, AsideKeeps, LeaveKeeps, EndKeeps
<1> QED
  BY <1>1, <1>2

(***************************************************************************)
(* A service never has two threads, whatever system calls fail: the check  *)
(* and the start are one critical section, and the entry is cleared last.  *)
(***************************************************************************)
THEOREM OneThreadCorrect == Spec => []OneThread
<1>1. Init => Boots /\ ThreadInv
  BY ThreadInductive
<1>2. Boots /\ ThreadInv /\ [Next]_vars => (Boots /\ ThreadInv)'
  BY ThreadInductive
<1>3. ThreadInv => OneThread
  BY DEF ThreadInv, ThreadsOf, OneThread
<1> QED
  BY <1>1, <1>2, <1>3, PTL DEF Spec

(***************************************************************************)
(* The port that check_service returns is that of a service that runs, and *)
(* a service without one can be started, unless get_port or pthread_create *)
(* has failed in run_service, which leaves the entry as it is.             *)
(***************************************************************************)
THEOREM PortCorrect ==
  ASSUME Faults \cap {"name", "thread"} = {}
  PROVE  Spec => []PortServed
<1>1. Init => Boots /\ PortInv
  BY ServiceTableAssumption DEF Init, Boots, PortInv, Counted, PortOf
<1>2. Boots /\ PortInv /\ [Next]_vars => (Boots /\ PortInv)'
  <2> SUFFICES ASSUME Boots, PortInv, [Next]_vars PROVE PortInv'
    BY BootsKept
  <2>1. CASE Runs
    BY <2>1, RunKeepsPorts DEF Runs
  <2> QED
    BY <2>1, Kinds, AsideKeeps, LeaveKeeps, EndKeeps
<1>3. PortInv => PortServed
  BY DEF PortInv, PortOf, PortServed
<1> QED
  BY <1>1, <1>2, <1>3, PTL DEF Spec
-----------------------------------------------------------------------------
(***************************************************************************)
(* The types, in parts.  That a client waits if and only if it is in the   *)
(* queue of a service needs that it is in no more than one.                *)
(***************************************************************************)
MainOK ==
  /\ main \in {"boot", "accept", "serve", "ended"} /\ loaded \in BOOLEAN
  /\ conn \in Clients \cup {None} /\ (main = "serve" <=> conn # None)

FaultsOK == faults \in 0 .. MaxFaults

ClientOK ==
  /\ at \in [Clients -> {"idle", "asking", "told", "waiting", "done", "failed"}]
  /\ want \in [Clients -> Services \cup {Unknown, None}]
  /\ served \in [Clients -> Services \cup {None}]
  /\ told \in [Clients -> Ports \cup {None}] /\ asked \in [Clients -> BOOLEAN]
  /\ queue \in [Services -> SUBSET Clients]

QueueOK ==
  /\ main # "ended" => \A c \in Clients : at[c] = "waiting" <=> \E s \in Services : c \in queue[s]
  /\ \A s, t \in Services : queue[s] \cap queue[t] # {} => s = t

LEMMA NoneIsNobody == None \notin Services /\ None \notin Ports /\ None \notin Clients
  BY ServiceTableAssumption

LEMMA FaultBounded == ASSUME FaultsOK, NEW kind, Fault(kind) PROVE FaultsOK'
  BY ServiceTableAssumption DEF FaultsOK, Fault

LEMMA RunFaults == ASSUME FaultsOK, NEW s, NEW answer, RunService(s, answer) PROVE FaultsOK'
  BY FaultBounded DEF RunService, FaultsOK

LEMMA FaultsKept == ASSUME FaultsOK, [Next]_vars PROVE FaultsOK'
<1>1. CASE UNCHANGED faults
  BY <1>1 DEF FaultsOK
<1>2. CASE \E s, answer : RunService(s, answer)
  BY <1>2, RunFaults
<1>3. CASE \E kind : Fault(kind)
  BY <1>3, FaultBounded
<1> QED
  BY <1>1, <1>2, <1>3
     DEF Next, vars, MainStep, BootRun, BootDone, Serve, Hangup, EndServer, Accept, LoadSettings,
         ThreadStep, ThreadEnd, Handle, GiveUp, Request, Ask, Lookup, Again, Connect

LEMMA MainKept == ASSUME MainOK, [Next]_vars PROVE MainOK'
<1>1. CASE UNCHANGED <<main, conn, loaded>>
  BY <1>1 DEF MainOK
<1>2. CASE BootDone \/ LoadSettings \/ Hangup \/ EndServer \/ \E c \in Clients : Accept(c)
  BY <1>2, NoneIsNobody DEF BootDone, LoadSettings, Hangup, EndServer, Accept, MainOK
<1> QED
  BY <1>1, <1>2
     DEF Next, vars, MainStep, BootRun, Serve, ThreadStep, ThreadEnd, Handle, GiveUp,
         Request, Ask, Lookup, Again, Connect

\* The client main serves gets an answer: no port, one of the table or one just chosen.
LEMMA Answered ==
  ASSUME Counted, ClientOK, MainOK, Serve
  PROVE  /\ conn \in Clients /\ at[conn] = "asking" /\ main = "serve" /\ main' = main
         /\ UNCHANGED <<want, asked, queue, served>>
         /\ \E answer \in Ports \cup {None} :
              /\ Answer(conn, answer)
              /\ \/ answer = None
                 \/ want[conn] \in Services /\ answer = port[want[conn]] /\ socket' = socket
                 \/ /\ want[conn] \in Services /\ answer \in FreePorts
                    /\ socket' = [socket EXCEPT ![want[conn]] = answer]
<1>1. /\ conn \in Clients /\ at[conn] = "asking" /\ main = "serve" /\ main' = main
      /\ UNCHANGED <<want, asked, queue, served>>
  BY DEF Serve, MainOK
<1>2. CASE want[conn] = Unknown /\ Answer(conn, None)
  BY <1>1, <1>2
<1>3. CASE want[conn] \in Services /\ Answer(conn, port[want[conn]]) /\ UNCHANGED table
  BY <1>1, <1>3 DEF Counted, table
<1>4. ASSUME want[conn] \in Services, NEW answer \in Ports \cup {None},
             RunService(want[conn], answer), Answer(conn, answer)
      PROVE  \/ answer = None
             \/ answer \in FreePorts /\ socket' = [socket EXCEPT ![want[conn]] = answer]
  BY <1>4 DEF RunService
<1> QED
  BY <1>1, <1>2, <1>3, <1>4 DEF Serve

\* The steps that leave the clients alone.
LEMMA ClientSteps ==
  ASSUME [Next]_vars
  PROVE  \/ UNCHANGED client /\ (main' # "ended" => main # "ended")
         \/ Serve \/ EndServer
         \/ (\E s \in Services : ThreadEnd(s)) \/ (\E s \in Services, c \in Clients : Handle(s, c))
         \/ \E c \in Clients : Request(c) \/ Connect(c)
BY DEF Next, vars, MainStep, BootRun, BootDone, Hangup, Accept, LoadSettings, ThreadStep, GiveUp

TypeInv == Boots /\ ThreadInv /\ MainOK /\ FaultsOK /\ ClientOK /\ QueueOK

LEMMA ClientsKept == ASSUME TypeInv, [Next]_vars PROVE ClientOK' /\ QueueOK'
<1>0. ClientOK /\ QueueOK /\ MainOK /\ Counted
  BY DEF TypeInv, ThreadInv
<1> USE NoneIsNobody
<1>1. CASE UNCHANGED client /\ (main' # "ended" => main # "ended")
  BY <1>0, <1>1 DEF ClientOK, QueueOK, client
<1>2. CASE Serve
  <2>1. PICK answer \in Ports \cup {None} : Answer(conn, answer)
    BY <1>0, <1>2, Answered
  <2>2. /\ conn \in Clients /\ at[conn] = "asking" /\ main = "serve" /\ main' = main
        /\ UNCHANGED <<want, asked, queue, served>>
    BY <1>0, <1>2, Answered
  <2>3. ClientOK'
    BY <1>0, <2>1, <2>2 DEF ClientOK, Answer
  <2>4. \A c \in Clients : at'[c] = "waiting" <=> at[c] = "waiting"
    BY <1>0, <2>1, <2>2 DEF ClientOK, Answer
  <2> QED
    BY <1>0, <2>2, <2>3, <2>4 DEF QueueOK
<1>3. CASE EndServer
  <2>1. main' = "ended" /\ UNCHANGED <<want, told, asked, queue, served>>
        /\ at' = [c \in Clients |-> IF at[c] \in {"idle", "done"} THEN at[c] ELSE "failed"]
    BY <1>3 DEF EndServer
  <2> QED
    BY <1>0, <2>1 DEF ClientOK, QueueOK
<1>4. ASSUME NEW s \in Services, ThreadEnd(s) PROVE ClientOK' /\ QueueOK'
  <2>1. /\ queue' = [queue EXCEPT ![s] = {}]
        /\ at' = [c \in Clients |-> IF c \in queue[s] THEN "failed" ELSE at[c]]
        /\ UNCHANGED <<main, want, told, asked, served>>
    BY <1>4 DEF ThreadEnd, CloseSocket
  <2>2. ClientOK'
    BY <1>0, <2>1 DEF ClientOK
  <2>3. \A t \in Services : queue'[t] = IF t = s THEN {} ELSE queue[t]
    BY <1>0, <2>1 DEF ClientOK
  <2>4. ASSUME NEW c \in Clients, main # "ended"
        PROVE  at'[c] = "waiting" <=> \E t \in Services : c \in queue'[t]
    <3>1. CASE c \in queue[s]
      BY <1>0, <2>1, <2>3, <3>1 DEF QueueOK
    <3>2. CASE c \notin queue[s]
      BY <1>0, <2>1, <2>3, <2>4, <3>2 DEF QueueOK
    <3> QED
      BY <3>1, <3>2
  <2> QED
    BY <1>0, <2>1, <2>2, <2>3, <2>4 DEF QueueOK
<1>5. ASSUME NEW s \in Services, NEW c \in Clients, Handle(s, c) PROVE ClientOK' /\ QueueOK'
  <2>1. /\ c \in queue[s] /\ queue' = [queue EXCEPT ![s] = @ \ {c}]
        /\ at' = [at EXCEPT ![c] = "done"] /\ served' = [served EXCEPT ![c] = s]
        /\ UNCHANGED <<main, want, told, asked>>
    BY <1>5 DEF Handle
  <2>2. ClientOK'
    BY <1>0, <2>1 DEF ClientOK
  <2>3. \A t \in Services : queue'[t] = IF t = s THEN queue[s] \ {c} ELSE queue[t]
    BY <1>0, <2>1 DEF ClientOK
  <2>4. \A d \in Clients : at'[d] = IF d = c THEN "done" ELSE at[d]
    BY <1>0, <2>1 DEF ClientOK
  <2>5. \A t \in Services : c \notin queue'[t]
    BY <1>0, <2>1, <2>3 DEF QueueOK
  <2> QED
    BY <1>0, <2>1, <2>2, <2>3, <2>4, <2>5 DEF QueueOK
<1>6. ASSUME NEW c \in Clients, NEW s \in Services \cup {Unknown, None}, NEW ends \in BOOLEAN, Ask(c, s, ends)
      PROVE  ClientOK' /\ QueueOK'
  <2>1. /\ ClientOK' /\ UNCHANGED <<main, queue>>
        /\ \A d \in Clients : at'[d] = "waiting" <=> at[d] = "waiting"
    BY <1>0, <1>6 DEF Ask, ClientOK
  <2> QED
    BY <1>0, <2>1 DEF QueueOK
<1>7. ASSUME NEW c \in Clients, NEW s \in Services, Lookup(c, s) PROVE ClientOK' /\ QueueOK'
  <2>1. /\ ClientOK' /\ UNCHANGED <<main, queue>>
        /\ \A d \in Clients : at'[d] = "waiting" <=> at[d] = "waiting"
    BY <1>0, <1>7 DEF Lookup, Answer, ClientOK, Counted
  <2> QED
    BY <1>0, <2>1 DEF QueueOK
<1>8. ASSUME NEW c \in Clients, Again(c) PROVE ClientOK' /\ QueueOK'
  <2>1. /\ ClientOK' /\ UNCHANGED <<main, queue>>
        /\ \A d \in Clients : at'[d] = "waiting" <=> at[d] = "waiting"
    BY <1>0, <1>8 DEF Again, ClientOK
  <2> QED
    BY <1>0, <2>1 DEF QueueOK
<1>9. ASSUME NEW c \in Clients, Connect(c) PROVE ClientOK' /\ QueueOK'
  <2>1. /\ at[c] = "told" /\ UNCHANGED <<main, want, told, asked, served>>
    BY <1>9 DEF Connect
  <2>2. CASE at' = [at EXCEPT ![c] = "failed"] /\ UNCHANGED queue
    <3>1. ClientOK' /\ \A d \in Clients : at'[d] = "waiting" <=> at[d] = "waiting"
      BY <1>0, <2>1, <2>2 DEF ClientOK
    <3> QED
      BY <1>0, <2>1, <2>2, <3>1 DEF QueueOK
  <2>3. ASSUME NEW s \in Services, queue' = [queue EXCEPT ![s] = @ \cup {c}],
               at' = [at EXCEPT ![c] = "waiting"]
        PROVE  ClientOK' /\ QueueOK'
    <3>1. ClientOK'
      BY <1>0, <2>1, <2>3 DEF ClientOK
    <3>2. /\ \A t \in Services : queue'[t] = IF t = s THEN queue[s] \cup {c} ELSE queue[t]
          /\ \A d \in Clients : at'[d] = IF d = c THEN "waiting" ELSE at[d]
      BY <1>0, <2>3 DEF ClientOK
    <3>3. main # "ended"
      <4>1. at' # at
        BY <1>0, <2>1, <2>3 DEF ClientOK
      <4> QED
        BY <4>1 DEF Next, vars, client
    <3>4. \A t \in Services : c \notin queue[t]
      BY <1>0, <2>1, <3>3 DEF QueueOK
    <3> QED
      BY <1>0, <2>1, <3>1, <3>2, <3>4 DEF QueueOK
  <2> QED
    BY <1>9, <2>2, <2>3 DEF Connect
<1> QED
  BY <1>1, <1>2, <1>3, <1>4, <1>5, <1>6, <1>7, <1>8, <1>9, ClientSteps DEF Request

LEMMA TypeInductive ==
  /\ Init => TypeInv
  /\ TypeInv /\ [Next]_vars => TypeInv'
<1>1. Init => TypeInv
  <2> SUFFICES ASSUME Init PROVE TypeInv
    OBVIOUS
  <2>1. MainOK /\ ClientOK /\ QueueOK
    BY DEF Init, MainOK, ClientOK, QueueOK
  <2>2. FaultsOK
    BY ServiceTableAssumption DEF Init, FaultsOK
  <2> QED
    BY <2>1, <2>2, ThreadInductive DEF TypeInv
<1>2. TypeInv /\ [Next]_vars => TypeInv'
  BY ThreadInductive, MainKept, FaultsKept, ClientsKept DEF TypeInv
<1> QED
  BY <1>1, <1>2

(***************************************************************************)
(* The types, among them that the clients that wait are those in a queue:  *)
(* when a service ends, every client in its backlog learns of it.          *)
(***************************************************************************)
THEOREM TypeCorrect == Spec => []TypeOK
<1>1. TypeInv => TypeOK
  BY DEF TypeInv, Boots, ThreadInv, Counted, MainOK, FaultsOK, ClientOK, QueueOK, TypeOK
<1>2. Init => TypeInv
  BY TypeInductive
<1>3. TypeInv /\ [Next]_vars => TypeInv'
  BY TypeInductive
<1> QED
  BY <1>1, <1>2, <1>3, PTL DEF Spec
-----------------------------------------------------------------------------
(***************************************************************************)
(* A port that a client still knows belongs to the service it asked for,   *)
(* or to none any more: sockets have distinct ports, the table records no  *)
(* port but a socket's, and the kernel chooses no port that is still known.*)
(***************************************************************************)
SocketInv ==
  /\ \A s, t \in Services : socket[s] # None /\ socket[s] = socket[t] => s = t
  /\ \A s \in Services : port[s] # None => socket[s] = port[s]

ClientOf(c) ==
  /\ at[c] = "idle" => told[c] = None /\ served[c] = None
  /\ at[c] = "told" => told[c] # None
  /\ told[c] # None => \A s \in Services : socket[s] = told[c] => s = want[c]
  /\ served[c] # None => served[c] = want[c]
  /\ \A s \in Services : c \in queue[s] => s = want[c]

PortKept == SocketInv /\ \A c \in Clients : ClientOf(c)

LEMMA SocketsKept == ASSUME TypeInv, SocketInv, [Next]_vars PROVE SocketInv'
<1>0. Boots /\ Counted
  BY DEF TypeInv, ThreadInv
<1>1. CASE Aside
  BY <1>1 DEF Aside, SocketInv, table
<1>2. CASE Runs
  <2>1. PICK s \in Services, answer \in Ports \cup {None} : ~IsRunning(s) /\ RunService(s, answer)
    BY <1>2 DEF Runs
  <2>2. CASE UNCHANGED <<socket, port>>
    BY <2>2 DEF SocketInv
  <2>3. ASSUME NEW p \in FreePorts, socket' = [socket EXCEPT ![s] = p],
               port' = port \/ port' = [port EXCEPT ![s] = p]
        PROVE  SocketInv'
    <3>1. /\ \A t \in Services : socket[t] # p
          /\ \A t \in Services : socket'[t] = IF t = s THEN p ELSE socket[t]
          /\ \A t \in Services : port'[t] = port[t] \/ (t = s /\ port'[t] = p)
          /\ port[s] = None
      BY <1>0, <2>1, <2>3, NoneIsNobody DEF FreePorts, Counted, SocketInv, IsRunning
    <3> QED
      BY <3>1 DEF SocketInv
  <2> QED
    BY <2>1, <2>2, <2>3 DEF RunService
<1>3. ASSUME NEW s \in Services, Leaves(s) PROVE SocketInv'
  BY <1>3 DEF Leaves, SocketInv, table
<1>4. ASSUME NEW s \in Services, ThreadEnd(s) PROVE SocketInv'
  BY <1>0, <1>4 DEF ThreadEnd, ClearEntry, SocketInv, Counted
<1> QED
  BY <1>0, <1>1, <1>2, <1>3, <1>4, Kinds

\* No socket is opened on a port that a client still knows.
LEMMA KnownPorts ==
  ASSUME ~ReusesPorts, TypeInv, [Next]_vars, NEW c \in Clients, told[c] # None,
         NEW s \in Services, socket'[s] = told[c]
  PROVE  socket[s] = told[c]
<1>0. Boots /\ Counted
  BY DEF TypeInv, ThreadInv
<1>1. CASE UNCHANGED table
  BY <1>1 DEF table
<1>2. CASE Runs
  <2>1. PICK t \in Services : \E answer : RunService(t, answer)
    BY <1>2 DEF Runs
  <2>2. socket' = socket \/ \E p \in FreePorts : socket' = [socket EXCEPT ![t] = p]
    BY <2>1 DEF RunService
  <2> QED
    BY <1>0, <2>2 DEF FreePorts, Counted
<1>3. CASE \E t \in Services : ThreadEnd(t)
  BY <1>0, <1>3 DEF ThreadEnd, ClearEntry, Counted
<1> QED
  BY <1>0, <1>1, <1>2, <1>3, Kinds DEF Aside, Leaves

\* A client that a step leaves alone, or fails, keeps what it knows.
LEMMA BystanderKept ==
  ASSUME ~ReusesPorts, TypeInv, [Next]_vars, NEW c \in Clients, ClientOf(c),
         at'[c] \in {at[c], "failed"}, told'[c] = told[c], want'[c] = want[c],
         served'[c] = served[c],
         \A s \in Services : c \in queue'[s] => c \in queue[s]
  PROVE  ClientOf(c)'
BY KnownPorts DEF ClientOf

LEMMA PortStep ==
  ASSUME ~ReusesPorts, TypeInv, PortKept, [Next]_vars
  PROVE  PortKept'
<1>0. /\ ClientOK /\ QueueOK /\ MainOK /\ Counted /\ SocketInv /\ SocketInv'
      /\ \A c \in Clients : ClientOf(c)
  BY SocketsKept DEF TypeInv, ThreadInv, PortKept
<1> SUFFICES ASSUME NEW c \in Clients PROVE ClientOf(c)'
  BY <1>0 DEF PortKept
<1> USE NoneIsNobody
<1>a. ClientOf(c)
  BY <1>0
<1>1. CASE UNCHANGED client
  BY <1>a, <1>1, BystanderKept DEF client
<1>2. CASE Serve
  <2>1. /\ conn \in Clients /\ at[conn] = "asking" /\ UNCHANGED <<want, asked, queue, served>>
    BY <1>0, <1>2, Answered
  <2>2. PICK answer \in Ports \cup {None} :
          /\ Answer(conn, answer)
          /\ \/ answer = None
             \/ want[conn] \in Services /\ answer = port[want[conn]] /\ socket' = socket
             \/ /\ want[conn] \in Services /\ answer \in FreePorts
                /\ socket' = [socket EXCEPT ![want[conn]] = answer]
    BY <1>0, <1>2, Answered
  <2>3. CASE c # conn
    <3>1. at'[c] = at[c] /\ told'[c] = told[c]
      BY <1>0, <2>1, <2>2, <2>3 DEF Answer, ClientOK
    <3> QED
      BY <1>a, <2>1, <3>1, BystanderKept
  <2>4. CASE c = conn
    <3>1. /\ at'[c] = IF answer = None THEN "failed" ELSE "told"
          /\ told'[c] = answer
      BY <1>0, <2>2, <2>4 DEF Answer, ClientOK
    <3>2. ASSUME answer # None, NEW s \in Services, socket'[s] = answer PROVE s = want[c]
      <4>1. CASE want[c] \in Services /\ answer = port[want[c]] /\ socket' = socket
        BY <1>0, <3>2, <4>1 DEF SocketInv
      <4>2. CASE /\ want[c] \in Services /\ answer \in FreePorts
                 /\ socket' = [socket EXCEPT ![want[c]] = answer]
        BY <1>0, <3>2, <4>2 DEF FreePorts, Counted
      <4> QED
        BY <2>2, <2>4, <3>2, <4>1, <4>2
    <3> QED
      BY <1>a, <2>1, <3>1, <3>2 DEF ClientOf
  <2> QED
    BY <2>3, <2>4
<1>3. CASE EndServer
  <2>1. at'[c] \in {at[c], "failed"} /\ UNCHANGED <<want, told, asked, queue, served>>
    BY <1>3 DEF EndServer
  <2> QED
    BY <1>a, <2>1, BystanderKept
<1>4. ASSUME NEW s \in Services, ThreadEnd(s) PROVE ClientOf(c)'
  <2>1. /\ at'[c] \in {at[c], "failed"} /\ UNCHANGED <<want, told, asked, served>>
        /\ \A t \in Services : queue'[t] \subseteq queue[t]
    BY <1>0, <1>4 DEF ThreadEnd, CloseSocket, ClientOK
  <2> QED
    BY <1>a, <2>1, BystanderKept
<1>5. ASSUME NEW s \in Services, NEW d \in Clients, Handle(s, d) PROVE ClientOf(c)'
  <2>1. /\ d \in queue[s] /\ UNCHANGED <<want, told, asked>>
        /\ \A t \in Services : queue'[t] \subseteq queue[t]
        /\ at'[c] = IF c = d THEN "done" ELSE at[c]
        /\ served'[c] = IF c = d THEN s ELSE served[c]
    BY <1>0, <1>5 DEF Handle, ClientOK
  <2>2. CASE c # d
    BY <1>a, <2>1, <2>2, BystanderKept
  <2>3. CASE c = d
    BY <1>a, <2>1, <2>3, KnownPorts DEF ClientOf
  <2> QED
    BY <2>2, <2>3
<1>6. ASSUME NEW d \in Clients, NEW s, NEW ends, Ask(d, s, ends) PROVE ClientOf(c)'
  <2>1. /\ at[d] = "idle" /\ UNCHANGED <<table, told, queue, served>>
        /\ at'[c] = IF c = d THEN "asking" ELSE at[c]
        /\ want'[c] = IF c = d THEN s ELSE want[c]
    BY <1>0, <1>6 DEF Ask, ClientOK
  <2>2. CASE c # d
    BY <1>a, <2>1, <2>2, BystanderKept
  <2>3. CASE c = d
    <3>1. \A t \in Services : c \notin queue[t]
      BY <1>0, <1>6, <2>1, <2>3 DEF QueueOK, Ask
    <3> QED
      BY <1>a, <2>1, <2>3, <3>1 DEF ClientOf
  <2> QED
    BY <2>2, <2>3
<1>7. ASSUME NEW d \in Clients, NEW s \in Services, Lookup(d, s), main # "ended" PROVE ClientOf(c)'
  <2>1. /\ at[d] = "idle" /\ UNCHANGED <<table, queue, served>>
        /\ at'[c] = IF c # d THEN at[c] ELSE IF port[s] = None THEN "failed" ELSE "told"
        /\ told'[c] = IF c = d THEN port[s] ELSE told[c]
        /\ want'[c] = IF c = d THEN s ELSE want[c]
    BY <1>0, <1>7 DEF Lookup, Answer, ClientOK
  <2>2. CASE c # d
    BY <1>a, <2>1, <2>2, BystanderKept
  <2>3. CASE c = d
    <3>1. \A t \in Services : c \notin queue[t]
      BY <1>0, <1>7, <2>1, <2>3 DEF QueueOK
    <3>2. \A t \in Services : port[s] # None /\ socket[t] = port[s] => t = s
      BY <1>0 DEF SocketInv
    <3> QED
      BY <1>a, <2>1, <2>3, <3>1, <3>2 DEF ClientOf, table
  <2> QED
    BY <2>2, <2>3
<1>8. ASSUME NEW d \in Clients, Connect(d) PROVE ClientOf(c)'
  <2>1. at[d] = "told" /\ UNCHANGED <<table, want, told, asked, served>>
    BY <1>8 DEF Connect
  <2>2. CASE at' = [at EXCEPT ![d] = "failed"] /\ UNCHANGED queue
    <3>1. at'[c] \in {at[c], "failed"}
      BY <1>0, <2>2 DEF ClientOK
    <3> QED
      BY <1>a, <2>1, <2>2, <3>1, BystanderKept
  <2>3. ASSUME NEW s \in Services, socket[s] = told[d],
               queue' = [queue EXCEPT ![s] = @ \cup {d}], at' = [at EXCEPT ![d] = "waiting"]
        PROVE  ClientOf(c)'
    <3>1. /\ at'[c] = IF c = d THEN "waiting" ELSE at[c]
          /\ \A t \in Services : c \in queue'[t] => c \in queue[t] \/ (c = d /\ t = s)
      BY <1>0, <2>3 DEF ClientOK
    <3>2. CASE c # d
      BY <1>a, <2>1, <3>1, <3>2, BystanderKept
    <3>3. CASE c = d
      BY <1>a, <2>1, <2>3, <3>1, <3>3 DEF ClientOf, table
    <3> QED
      BY <3>2, <3>3
  <2> QED
    BY <1>8, <2>2, <2>3 DEF Connect
<1>9. ASSUME NEW d \in Clients, Again(d), main # "ended" PROVE ClientOf(c)'
  <2>1. /\ at[d] \in {"done", "failed"} /\ UNCHANGED <<table, queue>>
        /\ at'[c] = IF c = d THEN "idle" ELSE at[c]
        /\ told'[c] = IF c = d THEN None ELSE told[c]
        /\ want'[c] = IF c = d THEN None ELSE want[c]
        /\ served'[c] = IF c = d THEN None ELSE served[c]
    BY <1>0, <1>9 DEF Again, ClientOK
  <2>2. CASE c # d
    BY <1>a, <2>1, <2>2, BystanderKept
  <2>3. CASE c = d
    <3>1. \A t \in Services : c \notin queue[t]
      BY <1>0, <1>9, <2>1, <2>3 DEF QueueOK
    <3> QED
      BY <2>1, <2>3, <3>1 DEF ClientOf
  <2> QED
    BY <2>2, <2>3
<1>10. main # "ended" \/ UNCHANGED client
  BY DEF Next, vars
<1> QED
  BY <1>1, <1>2, <1>3, <1>4, <1>5, <1>6, <1>7, <1>8, <1>9, <1>10, ClientSteps DEF Request

(***************************************************************************)
(* A command reaches the service it was meant for, whatever ends, starts   *)
(* and fails in between, unless the kernel reuses a port that a client     *)
(* still knows: neither the client nor the service could tell.             *)
(***************************************************************************)
THEOREM RightServiceCorrect == ASSUME ~ReusesPorts PROVE Spec => []RightService
<1>1. Init => TypeInv /\ PortKept
  BY TypeInductive DEF Init, PortKept, SocketInv, ClientOf
<1>2. TypeInv /\ PortKept /\ [Next]_vars => (TypeInv /\ PortKept)'
  BY TypeInductive, PortStep
<1>3. PortKept => RightService
  BY DEF PortKept, ClientOf, RightService
<1> QED
  BY <1>1, <1>2, <1>3, PTL DEF Spec
=============================================================================
