---------------------------- MODULE ServiceTable ----------------------------
(***************************************************************************)
(* The daemon: the table of services, the main loop that starts them for   *)
(* clients, and the thread of each service.                                *)
(*                                                                         *)
(* A service that runs has a listening socket on a port the kernel chose,  *)
(* recorded in the table, and a thread that accepts connections on it.  A  *)
(* client asks the main loop for the port of a service, which starts the   *)
(* service if need be, and then connects to that port.  A service may end  *)
(* at any time in between.  check_service and run_service are one critical *)
(* section of table_lock, and the last act of the thread is another.       *)
(***************************************************************************)
EXTENDS Naturals, Sequences

CONSTANTS
  Services,    \* the entries of the table
  Unknown,     \* a name that is not in the table
  Startup,     \* the services that main starts, in order
  Settings,    \* the one of them whose settings main waits for: logctl
  Ports,       \* the ports the kernel may choose
  None,        \* no socket, no port, no service, no client: -1
  Clients,     \* processes and threads that send commands
  ReusesPorts, \* the kernel may choose a port that a client still knows
  Faults,      \* which of FaultKinds the environment may produce
  MaxFaults    \* bound: how many of them

(***************************************************************************)
(* socket, name, thread: init_server, get_port and pthread_create fail;    *)
(* service: the proc of a service returns without being asked to.          *)
(***************************************************************************)
FaultKinds == {"socket", "name", "thread", "service"}

ASSUME ServiceTableAssumption ==
  /\ Unknown \notin Services /\ None \notin Services \cup Ports \cup Clients \cup {Unknown}
  /\ Startup \in Seq(Services) /\ Settings \in Services
  /\ ReusesPorts \in BOOLEAN /\ Faults \subseteq FaultKinds /\ MaxFaults \in Nat

VARIABLES
  main,     \* what main is doing
  todo,     \* services that it has still to start at boot
  loaded,   \* systemloggers.loaded, which logctl sets once it runs
  conn,     \* the client whose connection main serves
  socket,   \* the port each entry's sockfd listens on
  port,     \* the port recorded in each entry
  serving,  \* how many threads of a service are in its proc
  returned, \* how many have left it and have still to clear the entry
  at,       \* what each client is doing
  want,     \* the service it has a command for; None is the daemon itself
  told,     \* the port it believes that service to have
  asked,    \* whether its command is :endserver:
  queue,    \* the clients connected to each service and not yet accepted
  served,   \* the service that handled its command
  faults    \* how many faults there have been

table == <<socket, port>>
threads == <<serving, returned>>
client == <<at, want, told, asked, queue, served>>
vars == <<main, todo, loaded, conn, table, threads, client, faults>>

Init ==
  /\ main = "boot" /\ todo = Startup /\ loaded = FALSE /\ conn = None
  /\ socket = [s \in Services |-> None] /\ port = [s \in Services |-> None]
  /\ serving = [s \in Services |-> 0] /\ returned = [s \in Services |-> 0]
  /\ at = [c \in Clients |-> "idle"] /\ want = [c \in Clients |-> None]
  /\ told = [c \in Clients |-> None] /\ asked = [c \in Clients |-> FALSE]
  /\ queue = [s \in Services |-> {}] /\ served = [c \in Clients |-> None]
  /\ faults = 0

\* A socket bound to port 0 gets one that is not in use.
FreePorts ==
  {p \in Ports : /\ \A s \in Services : socket[s] # p
                 /\ ReusesPorts \/ \A c \in Clients : told[c] # p}

\* check_service: a service runs if its entry has a sockfd.
IsRunning_Never(s) == FALSE
IsRunning(s) == socket[s] # None

Fault(kind) == kind \in Faults /\ faults < MaxFaults /\ faults' = faults + 1
-----------------------------------------------------------------------------
(***************************************************************************)
(* run_service of an entry that is not running, with its return value.     *)
(* After a system call that fails what was done before stays done.         *)
(***************************************************************************)
RunService(s, answer) ==
  \/ \E p \in FreePorts :
       /\ socket' = [socket EXCEPT ![s] = p]
       /\ \/ /\ port' = [port EXCEPT ![s] = p]
             /\ serving' = [serving EXCEPT ![s] = @ + 1]
             /\ answer = p /\ UNCHANGED faults
          \/ /\ Fault("name") /\ answer = None
             /\ UNCHANGED <<port, serving>>
          \/ /\ Fault("thread") /\ answer = None
             /\ port' = [port EXCEPT ![s] = p] /\ UNCHANGED serving
  \/ /\ Fault("socket") /\ answer = None
     /\ UNCHANGED <<socket, port, serving>>

BootRun ==
  /\ main = "boot" /\ todo # <<>>
  /\ todo' = Tail(todo)
  /\ IF IsRunning(Head(todo))
     THEN UNCHANGED <<table, serving, faults>>
     ELSE \E answer \in Ports \cup {None} : RunService(Head(todo), answer)
  /\ UNCHANGED <<main, loaded, conn, returned, client>>

\* main polls systemloggers.loaded, and then opens the server socket.
BootDone ==
  /\ main = "boot" /\ todo = <<>> /\ loaded
  /\ main' = "accept"
  /\ UNCHANGED <<todo, loaded, conn, table, threads, client, faults>>

LoadSettings ==
  /\ serving[Settings] > 0 /\ ~loaded
  /\ loaded' = TRUE
  /\ UNCHANGED <<main, todo, conn, table, threads, client, faults>>

\* One connection at a time; the others wait in the backlog.
Accept(c) ==
  /\ main = "accept" /\ at[c] = "asking"
  /\ main' = "serve" /\ conn' = c
  /\ UNCHANGED <<todo, loaded, table, threads, client, faults>>

\* A service by name: it is started if it is not running, under table_lock.
Answer(c, answer) ==
  /\ at' = [at EXCEPT ![c] = IF answer = None THEN "failed" ELSE "told"]
  /\ told' = [told EXCEPT ![c] = answer]

Serve ==
  /\ main = "serve" /\ at[conn] = "asking"
  /\ \/ /\ want[conn] = Unknown
        /\ Answer(conn, None)
        /\ UNCHANGED <<table, serving, faults>>
     \/ /\ want[conn] \in Services /\ IsRunning(want[conn])
        /\ Answer(conn, port[want[conn]])
        /\ UNCHANGED <<table, serving, faults>>
     \/ /\ want[conn] \in Services /\ ~IsRunning(want[conn])
        /\ \E answer \in Ports \cup {None} :
             RunService(want[conn], answer) /\ Answer(conn, answer)
  /\ UNCHANGED <<main, todo, loaded, conn, returned, want, asked, queue, served>>

\* The client closes the connection once it has the answer.
Hangup_Keeps ==
  /\ main = "serve" /\ at[conn] # "asking"
  /\ main' = "accept"
  /\ UNCHANGED <<todo, loaded, conn, table, threads, client, faults>>
Hangup ==
  /\ main = "serve" /\ at[conn] # "asking"
  /\ main' = "accept" /\ conn' = None
  /\ UNCHANGED <<todo, loaded, table, threads, client, faults>>

\* :endserver: to main: it returns, and the process ends with all its threads.
EndServer ==
  /\ main = "serve" /\ at[conn] = "asking" /\ want[conn] = None
  /\ main' = "ended" /\ conn' = None
  /\ at' = [c \in Clients |-> IF at[c] \in {"idle", "done"} THEN at[c] ELSE "failed"]
  /\ UNCHANGED <<todo, loaded, table, threads, want, told, asked, queue, served, faults>>
-----------------------------------------------------------------------------
(***************************************************************************)
(* thread_main of a service: its proc accepts connections one by one, and  *)
(* returns after :endserver:.  Then the entry is cleared, under table_lock;*)
(* until then it still listens.                                            *)
(***************************************************************************)
Handle(s, c) ==
  /\ serving[s] > 0 /\ socket[s] # None /\ c \in queue[s]
  /\ queue' = [queue EXCEPT ![s] = @ \ {c}]
  /\ at' = [at EXCEPT ![c] = "done"]
  /\ served' = [served EXCEPT ![c] = s]
  /\ IF asked[c]
     THEN /\ serving' = [serving EXCEPT ![s] = @ - 1]
          /\ returned' = [returned EXCEPT ![s] = @ + 1]
     ELSE UNCHANGED threads
  /\ UNCHANGED <<main, todo, loaded, conn, table, want, told, asked, faults>>

\* A service may also give up by itself.
GiveUp(s) ==
  /\ serving[s] > 0 /\ Fault("service")
  /\ serving' = [serving EXCEPT ![s] = @ - 1]
  /\ returned' = [returned EXCEPT ![s] = @ + 1]
  /\ UNCHANGED <<main, todo, loaded, conn, table, client>>

ClearEntry_KeepsPort(s) == socket' = [socket EXCEPT ![s] = None] /\ UNCHANGED port
ClearEntry(s) ==
  /\ socket' = [socket EXCEPT ![s] = None]
  /\ port' = [port EXCEPT ![s] = None]

\* The socket is closed: whoever is connected and not accepted is reset.
CloseSocket_Not(s) == UNCHANGED <<queue, at>>
CloseSocket(s) ==
  /\ queue' = [queue EXCEPT ![s] = {}]
  /\ at' = [c \in Clients |-> IF c \in queue[s] THEN "failed" ELSE at[c]]

ThreadEnd(s) ==
  /\ returned[s] > 0
  /\ CloseSocket(s) /\ ClearEntry(s)
  /\ returned' = [returned EXCEPT ![s] = @ - 1]
  /\ UNCHANGED <<main, todo, loaded, conn, serving, want, told, asked, served, faults>>
-----------------------------------------------------------------------------
(***************************************************************************)
(* Clients.  A process asks main for the port; a thread of the daemon that *)
(* calls send_command_to_service, without force_start, reads the table.    *)
(***************************************************************************)
Ask(c, s, ends) ==
  /\ at[c] = "idle" /\ main \in {"accept", "serve"}
  /\ at' = [at EXCEPT ![c] = "asking"]
  /\ want' = [want EXCEPT ![c] = s] /\ asked' = [asked EXCEPT ![c] = ends]
  /\ UNCHANGED <<main, todo, loaded, conn, table, threads, told, queue, served, faults>>

Lookup(c, s) ==
  /\ at[c] = "idle"
  /\ Answer(c, port[s])
  /\ want' = [want EXCEPT ![c] = s]
  /\ UNCHANGED <<main, todo, loaded, conn, table, threads, asked, queue, served, faults>>

\* The kernel completes a connection whether or not a thread accepts it.
Connect(c) ==
  /\ at[c] = "told" /\ conn # c
  /\ \/ /\ \A s \in Services : socket[s] # told[c]
        /\ at' = [at EXCEPT ![c] = "failed"] /\ UNCHANGED queue
     \/ \E s \in Services :
          /\ socket[s] = told[c]
          /\ queue' = [queue EXCEPT ![s] = @ \cup {c}]
          /\ at' = [at EXCEPT ![c] = "waiting"]
  /\ UNCHANGED <<main, todo, loaded, conn, table, threads, want, told, asked, served, faults>>

\* A client that is done with one command, or has failed to send it.
Again(c) ==
  /\ at[c] \in {"done", "failed"} /\ conn # c
  /\ at' = [at EXCEPT ![c] = "idle"] /\ want' = [want EXCEPT ![c] = None]
  /\ told' = [told EXCEPT ![c] = None] /\ asked' = [asked EXCEPT ![c] = FALSE]
  /\ served' = [served EXCEPT ![c] = None]
  /\ UNCHANGED <<main, todo, loaded, conn, table, threads, queue, faults>>

MainStep == BootRun \/ BootDone \/ Serve \/ Hangup \/ EndServer \/ \E c \in Clients : Accept(c)

ThreadStep(s) == ThreadEnd(s) \/ \E c \in Clients : Handle(s, c)

Request(c) ==
  \/ \E s \in Services \cup {Unknown}, ends \in BOOLEAN : Ask(c, s, ends)
  \/ Ask(c, None, TRUE)
  \/ \E s \in Services : Lookup(c, s)
  \/ Again(c)

Next ==
  /\ main # "ended"
  /\ \/ MainStep \/ LoadSettings
     \/ \E s \in Services : ThreadStep(s) \/ GiveUp(s)
     \/ \E c \in Clients : Request(c) \/ Connect(c)

(***************************************************************************)
(* main and the threads run, and clients go on with what they began.  The  *)
(* backlogs are served in the order of arrival.                            *)
(***************************************************************************)
Fairness ==
  /\ WF_vars(MainStep) /\ WF_vars(LoadSettings)
  /\ \A s \in Services : WF_vars(ThreadEnd(s))
  /\ \A c \in Clients : SF_vars(Accept(c)) /\ WF_vars(Connect(c))
  /\ \A s \in Services, c \in Clients : WF_vars(Handle(s, c))

Spec == Init /\ [][Next]_vars /\ Fairness
-----------------------------------------------------------------------------
\* Types of all variables; a client waits in the queue of one service.
TypeOK ==
  /\ main \in {"boot", "accept", "serve", "ended"} /\ todo \in Seq(Services)
  /\ loaded \in BOOLEAN /\ conn \in Clients \cup {None} /\ (main = "serve" <=> conn # None)
  /\ socket \in [Services -> Ports \cup {None}] /\ port \in [Services -> Ports \cup {None}]
  /\ serving \in [Services -> Nat] /\ returned \in [Services -> Nat]
  /\ at \in [Clients -> {"idle", "asking", "told", "waiting", "done", "failed"}]
  /\ want \in [Clients -> Services \cup {Unknown, None}]
  /\ served \in [Clients -> Services \cup {None}]
  /\ told \in [Clients -> Ports \cup {None}] /\ asked \in [Clients -> BOOLEAN]
  /\ queue \in [Services -> SUBSET Clients]
  /\ main # "ended" => \A c \in Clients : at[c] = "waiting" <=> \E s \in Services : c \in queue[s]
  /\ faults \in 0 .. MaxFaults

(***************************************************************************)
(* A service has at most one thread, however clients that start it and the *)
(* thread that ends interleave: two would accept on one socket and share   *)
(* the globals of the service.                                             *)
(***************************************************************************)
OneThread == \A s \in Services : serving[s] + returned[s] <= 1

(***************************************************************************)
(* What check_service says of a service is so: a port is that of a socket  *)
(* that a thread of the service accepts on or is about to close, and a     *)
(* service without one is not running, and can be started.                 *)
(***************************************************************************)
PortServed ==
  \A s \in Services :
    /\ port[s] # None => socket[s] = port[s] /\ serving[s] + returned[s] = 1
    /\ port[s] = None => socket[s] = None /\ serving[s] + returned[s] = 0

(***************************************************************************)
(* A command is handled by the service it was meant for, even if that      *)
(* service has ended since the client learned its port, as long as the     *)
(* kernel does not give the port to another service meanwhile.             *)
(***************************************************************************)
RightService == \A c \in Clients : served[c] # None => served[c] = want[c]

(***************************************************************************)
(* A client that asks, or is connected, gets an answer or an error: none   *)
(* waits on a socket that nobody accepts on.                               *)
(***************************************************************************)
NoneWaits == \A c \in Clients : at[c] \in {"asking", "waiting"} ~> at[c] \notin {"asking", "waiting"}
=============================================================================
