--------------------------- MODULE Recorder_proofs ---------------------------
(***************************************************************************)
(* Proofs about Recorder, for any of the services, any number of threads   *)
(* and workers that give up or not.                                        *)
(***************************************************************************)
EXTENDS Recorder, TLAPS

States == Busy \cup {"none", "dead", "tick"}

(***************************************************************************)
(* A thread that works is the one the service has a handle of, and a       *)
(* service that is down has none that works.                               *)
(***************************************************************************)
Threaded == thread \in [Threads -> States]
Works(t) == t \in Threads /\ thread[t] \in Busy
Held == \A t \in Threads : thread[t] \in Busy => t = working
Idle == \A t \in Threads : thread[t] \notin Busy
WorkerInv == Threaded /\ Held /\ (server = "down" => Idle)

\* A step of the service that leaves the threads alone.
LEMMA QuietKeepsWorker ==
  ASSUME WorkerInv, thread' = thread, working' = working, server' # "down"
  PROVE  WorkerInv'
BY DEF WorkerInv, Threaded, Held

\* Forgetting a handle, or joining it, needs a thread that is not busy.
LEMMA FreedKeepsWorker ==
  ASSUME WorkerInv, NEW ts, thread' = Freed(ts),
         working' = working \/ (working' = Nobody /\ ~Works(working)),
         server' = "down" => Gone(working)
  PROVE  WorkerInv'
<1>1. Threaded'
  BY DEF WorkerInv, Threaded, Freed, States
<1>2. ASSUME NEW t \in Threads, thread'[t] \in Busy PROVE t = working'
  <2>1. thread[t] \in Busy
    BY <1>2 DEF Freed, Busy
  <2>2. t = working
    BY <2>1 DEF WorkerInv, Held
  <2> QED
    BY <2>1, <2>2 DEF Works
<1>3. server' = "down" => Idle'
  <2>1. Gone(working) => Idle
    BY RecorderAssumption DEF WorkerInv, Held, Idle, Gone, Nobody, Busy
  <2> QED
    BY <2>1 DEF Idle, Freed, Busy
<1> QED
  BY <1>1, <1>2, <1>3 DEF WorkerInv, Held

\* A worker is created when the service holds no handle of a living one.
LEMMA CreateKeepsWorker ==
  ASSUME WorkerInv, NEW threads, threads \in [Threads -> States], Create(threads),
         \A t \in Threads : threads[t] \notin Busy, server' # "down"
  PROVE  WorkerInv'
<1>1. PICK t \in Threads, g \in Threads :
        /\ t # g /\ working' = t
        /\ \/ thread' = [threads EXCEPT ![t] = "start", ![g] = "tick"]
           \/ thread' = [threads EXCEPT ![t] = "start"]
  BY DEF Create
<1>2. Threaded'
  BY <1>1 DEF Threaded, States, Busy
<1>3. \A u \in Threads \ {t} : thread'[u] \notin Busy
  BY <1>1 DEF Busy
<1> QED
  BY <1>1, <1>2, <1>3 DEF WorkerInv, Held

LEMMA WorkerMoves ==
  ASSUME WorkerInv, NEW t \in Threads, Worker(t) \/ Event(t)
  PROVE  WorkerInv'
<1>1. /\ UNCHANGED <<server, working>>
      /\ \/ thread[t] \in Busy /\ \E s \in States : thread' = [thread EXCEPT ![t] = s]
         \/ thread[t] = "tick" /\ thread' = [thread EXCEPT ![t] = "dead"]
  <2>1. CASE BeginFails(t) \/ Begin(t) \/ OpenFails(t) \/ Check(t) \/ Log(t)
    BY <2>1 DEF BeginFails, Begin, OpenFails, Check, Log, Goes, handles, waking, Busy, States
  <2>2. CASE LogFails(t) \/ Woken(t) \/ Exit(t) \/ Event(t)
    BY <2>2 DEF LogFails, Woken, Exit, Event, Goes, handles, waking, Busy, States
  <2>3. CASE Tick(t)
    BY <2>3 DEF Tick, Goes, handles
  <2> QED
    BY <2>1, <2>2, <2>3 DEF Worker
<1>2. CASE thread[t] \in Busy
  BY <1>1, <1>2 DEF WorkerInv, Threaded, Held, Idle, Busy
<1>3. CASE thread[t] = "tick"
  BY <1>1, <1>3 DEF WorkerInv, Threaded, Held, Idle, Busy, States
<1> QED
  BY <1>1, <1>2, <1>3

LEMMA LookedOnlyFrees ==
  ASSUME WorkerInv
  PROVE  /\ Handle = working \/ (Handle = Nobody /\ ~Works(working))
         /\ Handle = Nobody =>
              Looked \in [Threads -> States] /\ \A t \in Threads : Looked[t] \notin Busy
<1>1. Handle = working \/ (Handle = Nobody /\ ~Works(working))
  BY RecorderAssumption DEF Handle, Forgets, Lost, Works, Busy, Nobody
<1>2. Looked \in [Threads -> States]
  BY DEF WorkerInv, Threaded, Looked, Freed, States
<1>3. ASSUME Handle = Nobody, NEW t \in Threads PROVE Looked[t] \notin Busy
  <2>1. thread[t] \notin Busy
    BY <1>1, <1>3, RecorderAssumption DEF WorkerInv, Held, Works, Nobody
  <2> QED
    BY <2>1 DEF Looked, Freed, Busy
<1> QED
  BY <1>1, <1>2, <1>3

LEMMA ServiceKeepsWorker ==
  ASSUME WorkerInv,
         Server \/ Start \/ Accept \/ Hangup \/ Run \/ Stop \/ EndServer
  PROVE  WorkerInv'
<1>1. CASE Lock \/ Loop \/ StopWake \/ StopGen \/ Ending \/ Accept \/ Hangup
  <2>1. UNCHANGED <<thread, working>> /\ server' # "down"
    BY <1>1 DEF Lock, Loop, StopWake, StopGen, Ending, Accept, Hangup, handles
  <2> QED
    BY <2>1, QuietKeepsWorker
<1>g. Gone(working) => ~Works(working)
  BY RecorderAssumption DEF Gone, Works, Busy, Nobody
<1>2. CASE StopJoin
  BY <1>2, <1>g, FreedKeepsWorker DEF StopJoin
<1>3. CASE StopJoinGen
  BY <1>3, FreedKeepsWorker DEF StopJoinGen
<1>4. CASE EndJoin
  BY <1>4, <1>g, FreedKeepsWorker DEF EndJoin, handles
<1>5. CASE Start
  <2>1. CASE UNCHANGED handles /\ UNCHANGED thread
    <3>1. UNCHANGED <<thread, working>> /\ server' # "down"
      BY <1>5, <2>1 DEF Start, handles
    <3> QED
      BY <3>1, QuietKeepsWorker
  <2>2. CASE Create(thread) /\ server' = "loop"
    <3>1. \A t \in Threads : thread[t] \notin Busy
      BY <1>5 DEF Start, WorkerInv, Idle
    <3> QED
      BY <2>2, <3>1, CreateKeepsWorker DEF WorkerInv, Threaded
  <2> QED
    BY <1>5, <2>1, <2>2 DEF Start
<1>6. CASE Run
  <2>1. server' = server /\ server # "down"
    BY <1>6 DEF Run
  <2>2. CASE Handle = Nobody /\ Create(Looked)
    BY <2>1, <2>2, LookedOnlyFrees, CreateKeepsWorker
  <2>3. CASE working' = Handle /\ thread' = Looked
    BY <2>1, <2>3, LookedOnlyFrees, FreedKeepsWorker DEF Looked
  <2> QED
    BY <1>6, <2>2, <2>3 DEF Run
<1>7. CASE Stop \/ EndServer
  <2>1. working' = Handle /\ thread' = Looked /\ server' # "down"
    BY <1>7 DEF Stop, EndServer
  <2> QED
    BY <2>1, LookedOnlyFrees, FreedKeepsWorker DEF Looked
<1> QED
  BY <1>1, <1>2, <1>3, <1>4, <1>5, <1>6, <1>7 DEF Server

LEMMA WorkerInductive ==
  /\ Init => WorkerInv
  /\ WorkerInv /\ [Next]_vars => WorkerInv'
<1>1. Init => WorkerInv
  BY DEF Init, WorkerInv, Threaded, Held, Idle, States, Busy
<1>2. ASSUME WorkerInv, UNCHANGED vars PROVE WorkerInv'
  BY <1>2 DEF WorkerInv, Threaded, Held, Idle, vars, handles
<1> QED
  BY <1>1, <1>2, ServiceKeepsWorker, WorkerMoves DEF Next

(***************************************************************************)
(* OneWorker: however :run:, :stop: and :endserver: follow one another, at *)
(* most one worker runs, and it is the one the service can join.           *)
(***************************************************************************)
THEOREM OneWorkerCorrect == Spec => []OneWorker
<1>1. Init => WorkerInv
  BY WorkerInductive
<1>2. WorkerInv /\ [Next]_vars => WorkerInv'
  BY WorkerInductive
<1>3. WorkerInv => OneWorker
  BY DEF WorkerInv, Held, OneWorker, Workers
<1> QED
  BY <1>1, <1>2, <1>3, PTL DEF Spec
-----------------------------------------------------------------------------
(***************************************************************************)
(* The types: a handle is that of a thread or of none.                     *)
(***************************************************************************)
FlagsOK ==
  /\ done \in BOOLEAN /\ open \in BOOLEAN /\ wake \in BOOLEAN
  /\ time_lock \in BOOLEAN /\ failed \in BOOLEAN

HandlesOK ==
  /\ kind \in Kinds
  /\ server \in {"down", "lock", "loop", "accept", "serve", "wake", "join", "stopgen",
                 "joingen", "ending", "endjoin"}
  /\ working \in Threads \cup {Nobody} /\ timegen \in Threads \cup {Nobody}

LEMMA KnownKind == ASSUME HandlesOK PROVE kind \in AllKinds
BY RecorderAssumption DEF HandlesOK

LEMMA WakeType == ASSUME FlagsOK, HandlesOK PROVE Wake => wake' \in BOOLEAN
BY KnownKind DEF FlagsOK, Wake, AllKinds

LEMMA ServiceFlags ==
  ASSUME FlagsOK, HandlesOK, Server \/ Start \/ Accept \/ Hangup \/ Run \/ Stop \/ EndServer
  PROVE  FlagsOK'
<1> USE DEF FlagsOK
<1>1. CASE Lock \/ Loop \/ StopGen \/ Ending \/ Accept \/ Hangup \/ StopJoin \/ StopJoinGen
  BY <1>1 DEF Lock, Loop, StopGen, Ending, Accept, Hangup, StopJoin, StopJoinGen, waking
<1>2. CASE StopWake
  BY <1>2, WakeType DEF StopWake
<1>3. CASE Start \/ Run \/ Stop \/ EndServer \/ EndJoin
  BY <1>3 DEF Start, Run, Stop, EndServer, EndJoin, waking
<1> QED
  BY <1>1, <1>2, <1>3 DEF Server

LEMMA WorkerFlags ==
  ASSUME FlagsOK, NEW t \in Threads, Worker(t) \/ Event(t)
  PROVE  FlagsOK'
<1> USE DEF FlagsOK
<1>1. CASE BeginFails(t) \/ Begin(t) \/ OpenFails(t) \/ Check(t) \/ Log(t) \/ LogFails(t)
  BY <1>1 DEF BeginFails, Begin, OpenFails, Check, Log, LogFails, waking
<1>2. CASE Woken(t) \/ Exit(t) \/ Event(t) \/ Tick(t)
  BY <1>2 DEF Woken, Exit, Event, Tick, waking
<1> QED
  BY <1>1, <1>2 DEF Worker

LEMMA ServiceHandles ==
  ASSUME HandlesOK, Server \/ Start \/ Accept \/ Hangup \/ Run \/ Stop \/ EndServer
  PROVE  HandlesOK'
<1> USE DEF HandlesOK
<1>1. Handle \in Threads \cup {Nobody} /\ HandleGen \in Threads \cup {Nobody}
  BY DEF Handle, HandleGen
<1>2. \A threads : Create(threads) =>
        working' \in Threads /\ (timegen' \in Threads \/ timegen' = timegen)
  BY DEF Create
<1>3. CASE Lock \/ Loop \/ StopWake \/ StopGen \/ Ending \/ Accept \/ Hangup
  BY <1>3 DEF Lock, Loop, StopWake, StopGen, Ending, Accept, Hangup, handles
<1>4. CASE StopJoin \/ StopJoinGen \/ EndJoin
  BY <1>4 DEF StopJoin, StopJoinGen, EndJoin, handles
<1>5. CASE Start
  BY <1>2, <1>5 DEF Start, handles
<1>6. CASE Run
  BY <1>1, <1>2, <1>6 DEF Run
<1>7. CASE Stop \/ EndServer
  BY <1>1, <1>7 DEF Stop, EndServer
<1> QED
  BY <1>3, <1>4, <1>5, <1>6, <1>7 DEF Server

LEMMA WorkerHandles ==
  ASSUME NEW t \in Threads, Worker(t) \/ Event(t)
  PROVE  UNCHANGED <<kind, server, working, timegen>>
BY DEF Worker, BeginFails, Begin, OpenFails, Check, Log, LogFails, Woken, Exit, Event, Tick, handles

TypeInv == WorkerInv /\ HandlesOK /\ FlagsOK

LEMMA TypeInductive ==
  /\ Init => TypeInv
  /\ TypeInv /\ [Next]_vars => TypeInv'
<1>1. Init => HandlesOK /\ FlagsOK
  BY DEF Init, HandlesOK, FlagsOK
<1>2. HandlesOK /\ FlagsOK /\ [Next]_vars => (HandlesOK /\ FlagsOK)'
  <2> SUFFICES ASSUME HandlesOK, FlagsOK, [Next]_vars PROVE (HandlesOK /\ FlagsOK)'
    OBVIOUS
  <2>1. CASE Server \/ Start \/ Accept \/ Hangup \/ Run \/ Stop \/ EndServer
    BY <2>1, ServiceHandles, ServiceFlags
  <2>2. ASSUME NEW t \in Threads, Worker(t) \/ Event(t) PROVE (HandlesOK /\ FlagsOK)'
    BY <2>2, WorkerHandles, WorkerFlags DEF HandlesOK
  <2>3. CASE UNCHANGED vars
    BY <2>3 DEF vars, handles, waking, HandlesOK, FlagsOK
  <2> QED
    BY <2>1, <2>2, <2>3 DEF Next
<1> QED
  BY <1>1, <1>2, WorkerInductive DEF TypeInv

\* The types of a recorder, whichever of the six it is.
THEOREM TypeCorrect == Spec => []TypeOK
<1>1. TypeInv => TypeOK
  BY DEF TypeInv, WorkerInv, Threaded, HandlesOK, FlagsOK, TypeOK, States, Closing
<1>2. Init => TypeInv
  BY TypeInductive
<1>3. TypeInv /\ [Next]_vars => TypeInv'
  BY TypeInductive
<1> QED
  BY <1>1, <1>2, <1>3, PTL DEF Spec
-----------------------------------------------------------------------------
(***************************************************************************)
(* FreshStart is not inductive.  It needs to know that no wake is left for *)
(* a worker to find, that only a worker that polls keeps the pipe open,    *)
(* and that no worker ends by itself while the service is calm: neither    *)
(* stopping one nor ending.                                                *)
(***************************************************************************)
Tame == kind # "oom" /\ (kind \in {"mem", "key"} \/ ~failed)

Calm ==
  \/ server \in {"down", "lock", "accept", "serve", "stopgen", "joingen"}
  \/ server = "loop" /\ ~done

Polls == kind \in {"key", "rpm", "battery"}

Joined ==
  /\ server \in {"stopgen", "joingen"} => working = Nobody
  /\ server = "down" => ~done

PipeHeld ==
  kind \in {"rpm", "battery"} /\ (open \/ wake) =>
    \E t \in Threads : thread[t] \in Busy \ {"start"}

CalmOK ==
  Tame /\ Calm =>
    /\ (\E t \in Threads : thread[t] \in Busy) => ~done /\ (Polls => ~wake)
    /\ working = Nobody /\ server # "joingen" => ~done
    /\ Looks => /\ done => server = "joingen"
                /\ \A t \in Threads : thread[t] # "exit"

FreshInv == Joined /\ PipeHeld /\ CalmOK

\* A busy thread is the worker, and the service is not down.
LEMMA BusyIsWorker ==
  ASSUME TypeInv, FreshInv, NEW t \in Threads, thread[t] \in Busy
  PROVE  /\ t = working /\ working # Nobody
         /\ \A u \in Threads \ {t} : thread[u] \notin Busy
         /\ server \notin {"down", "stopgen", "joingen"}
BY RecorderAssumption DEF TypeInv, WorkerInv, Held, Idle, FreshInv, Joined, Nobody

\* The worker goes from one busy state to another, or to its end.
Moves(t, s) ==
  /\ thread[t] \in Busy /\ thread' = [thread EXCEPT ![t] = s] /\ s \in Busy \cup {"dead"}
  /\ (done => done') /\ (failed => failed') /\ (Polls => (wake' => wake))
  /\ done' => done \/ kind = "oom" \/ ~Calm \/ ~Tame \/ s = "dead"
  /\ Tame' /\ Calm /\ Looks => s # "exit" /\ ~done'
  /\ kind \in {"rpm", "battery"} /\ (open' \/ wake') => s \in Busy \ {"start"}

LEMMA WorkerFresh ==
  ASSUME TypeInv, FreshInv, NEW t \in Threads, Worker(t) \/ Event(t)
  PROVE  FreshInv'
<1>0. /\ Threaded /\ Joined /\ PipeHeld /\ CalmOK /\ FlagsOK /\ FlagsOK'
      /\ UNCHANGED <<kind, server, working>>
  BY WorkerHandles, WorkerFlags DEF TypeInv, WorkerInv, FreshInv
<1> USE DEF Goes, Busy
<1>1. ASSUME NEW s, Moves(t, s) PROVE FreshInv'
  <2>1. /\ working # Nobody /\ server \notin {"down", "stopgen", "joingen"}
        /\ \A u \in Threads \ {t} : thread[u] \notin Busy
    BY <1>1, BusyIsWorker DEF Moves
  <2>2. thread'[t] = s /\ \A u \in Threads \ {t} : thread'[u] \notin Busy
    BY <1>0, <1>1, <2>1 DEF Threaded, Moves
  <2>3. Joined' /\ PipeHeld'
    BY <1>0, <1>1, <2>1, <2>2 DEF Joined, PipeHeld, Moves
  <2>4. (Tame' => Tame) /\ (Calm' => Calm)
    BY <1>0, <1>1 DEF Tame, Calm, Moves
  <2>5. (Looks' <=> Looks) /\ (Polls' <=> Polls)
    BY <1>0 DEF Looks, Polls
  <2>6. CalmOK'
    BY <1>0, <1>1, <2>1, <2>2, <2>4, <2>5 DEF CalmOK, Tame, Moves
  <2> QED
    BY <2>3, <2>6 DEF FreshInv
<1>2. ASSUME thread[t] \in Busy, Tame, Calm
      PROVE  ~done /\ (Polls => ~wake) /\ (Looks => thread[t] # "exit")
  BY <1>0, <1>2 DEF CalmOK
<1>3. ASSUME kind \in {"rpm", "battery"}, thread[t] = "start" PROVE ~open /\ ~wake
  BY <1>0, <1>3, BusyIsWorker DEF PipeHeld
<1>a. /\ done' \in BOOLEAN /\ wake' \in BOOLEAN /\ kind \in AllKinds
  BY <1>0, KnownKind DEF FlagsOK, TypeInv
<1> USE DEF Moves
<1>4. CASE BeginFails(t)
  <2>1. Moves(t, "dead")
    BY <1>3, <1>4 DEF BeginFails, waking, Tame, Looks
  <2> QED BY <1>1, <2>1
<1>5. CASE Begin(t)
  <2>1. Moves(t, IF kind \in {"mem", "battery"} THEN "log" ELSE "check")
    BY <1>0, <1>2, <1>3, <1>5 DEF Begin, waking, Polls, Looks, Tame
  <2> QED BY <1>1, <2>1
<1>13. CASE OpenFails(t)
  <2>1. Moves(t, "exit")
    BY <1>0, <1>2, <1>13 DEF OpenFails, waking, Tame, Looks
  <2> QED BY <1>1, <2>1
<1>6. CASE Check(t)
  <2>1. Moves(t, IF done THEN "exit" ELSE IF kind \in {"key", "rpm"} THEN "wait" ELSE "log")
    BY <1>0, <1>2, <1>6 DEF Check, waking, Looks, Tame
  <2> QED BY <1>1, <2>1
<1>7. CASE Log(t)
  <2>1. Moves(t, IF kind \in {"key", "rpm"} THEN "check" ELSE "wait")
    BY <1>0, <1>2, <1>7 DEF Log, waking, Looks, Tame
  <2> QED BY <1>1, <2>1
<1>8. CASE LogFails(t)
  <2>1. Moves(t, "exit")
    BY <1>0, <1>2, <1>8 DEF LogFails, waking, Tame, Looks
  <2> QED BY <1>1, <2>1
<1>9. CASE Woken(t)
  <2>1. Moves(t, IF kind \in {"key", "rpm", "battery"} THEN "exit" ELSE "check")
    BY <1>0, <1>2, <1>9 DEF Woken, Polls, Tame, Looks
  <2> QED BY <1>1, <2>1
<1>10. CASE Event(t)
  <2>1. Moves(t, IF kind = "battery" THEN "check" ELSE "log")
    BY <1>0, <1>2, <1>10 DEF Event, waking, Looks, Tame
  <2> QED BY <1>1, <2>1
<1>11. CASE Exit(t)
  <2>1. Moves(t, "dead")
    BY <1>0, <1>2, <1>11 DEF Exit, waking, Polls, Tame, Looks
  <2> QED BY <1>1, <2>1
<1>12. CASE Tick(t)
  <2>1. /\ \A u \in Threads : u # t => thread'[u] = thread[u]
        /\ thread[t] = "tick" /\ thread'[t] = "dead" /\ UNCHANGED <<done, open, wake, failed>>
    BY <1>0, <1>12 DEF Tick, Threaded, waking
  <2>2. \A u \in Threads : thread'[u] \in Busy => thread'[u] = thread[u]
    BY <2>1
  <2>3. \A u \in Threads : thread[u] \in Busy => thread'[u] = thread[u]
    BY <2>1
  <2> QED
    BY <1>0, <2>1, <2>2, <2>3 DEF FreshInv, Joined, PipeHeld, CalmOK, Tame, Calm, Polls, Looks
<1> QED
  BY <1>4, <1>5, <1>6, <1>7, <1>8, <1>9, <1>10, <1>11, <1>12, <1>13 DEF Worker

\* Looking whether the threads are alive frees only those that are not.
LEMMA FreedIsDead ==
  ASSUME TypeInv, NEW ts, \A t \in ts \cap Threads : thread[t] \in {"dead", "none"}
  PROVE  \A t \in Threads : /\ Freed(ts)[t] \in Busy \/ thread[t] \in Busy => Freed(ts)[t] = thread[t]
                            /\ Freed(ts)[t] # thread[t] => Freed(ts)[t] = "none"
BY DEF Freed, Busy

LEMMA LookedIsDead ==
  ASSUME TypeInv
  PROVE  /\ \A t \in Threads : Looked[t] \in Busy \/ thread[t] \in Busy => Looked[t] = thread[t]
         /\ Handle = working \/ (Handle = Nobody /\ Looks)
         /\ Handle = Nobody => \A t \in Threads : thread[t] \notin Busy
<1>1. \A t \in Forgets \cup ForgetsGen : thread[t] \in {"dead", "none"}
  BY DEF Forgets, ForgetsGen, Lost
<1>2. \A t \in Threads : Looked[t] \in Busy \/ thread[t] \in Busy => Looked[t] = thread[t]
  BY <1>1, FreedIsDead DEF Looked
<1>3. Handle = working \/ (Handle = Nobody /\ Looks)
  BY DEF Handle, Forgets
<1>4. Handle = Nobody => \A t \in Threads : thread[t] \notin Busy
  BY <1>2, LookedOnlyFrees DEF TypeInv
<1> QED
  BY <1>2, <1>3, <1>4

\* The steps that leave the threads alone, and what wakes them.
LEMMA QuietFresh ==
  ASSUME TypeInv, FreshInv, Lock \/ Loop \/ Accept \/ Hangup \/ StopGen \/ StopWake \/ Ending
  PROVE  FreshInv'
<1>0. /\ Joined /\ PipeHeld /\ CalmOK /\ FlagsOK /\ HandlesOK /\ kind \in AllKinds
      /\ \A t \in Threads : thread[t] \in Busy => working # Nobody
  BY BusyIsWorker, KnownKind DEF TypeInv, FreshInv
<1>1. CASE Lock \/ Loop \/ Accept \/ Hangup
  <2>1. /\ UNCHANGED <<kind, thread, working, done, open, wake, failed>>
        /\ server' \notin {"down", "stopgen", "joingen"}
        /\ server \notin {"down", "joingen"} /\ (Calm' => Calm)
    BY <1>1 DEF Lock, Loop, Accept, Hangup, handles, waking, Calm
  <2> QED
    BY <1>0, <2>1 DEF FreshInv, Joined, PipeHeld, CalmOK, Tame, Polls, Looks
<1>2. CASE StopGen
  <2>1. /\ UNCHANGED <<kind, thread, working, open, wake, failed>>
        /\ server = "stopgen" /\ working = Nobody /\ Calm
        /\ (server' = "serve" /\ done' = done) \/ server' = "joingen"
    BY <1>0, <1>2 DEF StopGen, handles, waking, Joined, Calm
  <2> QED
    BY <1>0, <2>1 DEF FreshInv, Joined, PipeHeld, CalmOK, Tame, Polls, Looks
<1>3. CASE StopWake \/ Ending
  <2>1. UNCHANGED <<kind, thread, working, open, done>> /\ server' \in {"join", "endjoin"}
    BY <1>3 DEF StopWake, Ending, handles
  <2>2. kind \in {"rpm", "battery"} => (wake' => wake \/ open)
    BY <1>0, <1>3 DEF StopWake, Ending, Wake
  <2> QED
    BY <1>0, <2>1, <2>2 DEF FreshInv, Joined, PipeHeld, CalmOK, Calm
<1> QED
  BY <1>1, <1>2, <1>3

\* The steps that join: no worker is left.
LEMMA JoinFresh ==
  ASSUME TypeInv, FreshInv, StopJoin \/ StopJoinGen \/ EndJoin
  PROVE  FreshInv'
<1>0. Threaded /\ Joined /\ PipeHeld /\ CalmOK /\ WorkerInv
  BY DEF TypeInv, WorkerInv, FreshInv
<1>1. /\ working' = Nobody \/ server' = "down"
      /\ UNCHANGED <<kind, open, wake, failed>>
      /\ done' = (kind = "oom" /\ server = "join") \/ done' = FALSE
      /\ server' \in {"stopgen", "serve", "down"} /\ (server' = "down" => ~done')
      /\ \E ts : thread' = Freed(ts)
  BY <1>0 DEF StopJoin, StopJoinGen, EndJoin, waking, Joined
<1>2. \A t \in Threads : thread[t] \notin Busy
  <2>1. Gone(working)
    BY <1>0 DEF StopJoin, StopJoinGen, EndJoin, Joined, Gone
  <2> QED
    BY <2>1, BusyIsWorker DEF Gone, Busy
<1>3. \A t \in Threads : thread'[t] \notin Busy
  BY <1>1, <1>2 DEF Freed, Busy
<1>4. ~(kind \in {"rpm", "battery"} /\ (open \/ wake))
  BY <1>0, <1>2 DEF PipeHeld
<1> QED
  BY <1>1, <1>3, <1>4 DEF FreshInv, Joined, PipeHeld, CalmOK, Tame, Busy

\* A worker is created where none is left, and nothing it would find.
LEMMA CreateFresh ==
  ASSUME TypeInv, FreshInv, NEW threads, Create(threads),
         \A t \in Threads : threads[t] \notin Busy, threads \in [Threads -> States],
         \A t \in Threads : thread[t] \notin Busy,
         UNCHANGED <<kind, done>>, server' \in {"loop", "serve"},
         Tame' => ~done, kind = "key" => ~wake',
         kind \in {"rpm", "battery"} => UNCHANGED <<open, wake>>
  PROVE  FreshInv'
<1>1. PICK t \in Threads, g \in Threads :
        /\ t # g /\ working' = t
        /\ \/ thread' = [threads EXCEPT ![t] = "start", ![g] = "tick"]
           \/ thread' = [threads EXCEPT ![t] = "start"]
  BY DEF Create
<1>2. \A u \in Threads : thread'[u] # "exit"
  BY <1>1 DEF Busy
<1>3. kind \in {"rpm", "battery"} => ~open /\ ~wake
  BY DEF FreshInv, PipeHeld
<1>4. working' # Nobody
  BY <1>1, RecorderAssumption DEF Nobody
<1> QED
  BY <1>2, <1>3, <1>4 DEF FreshInv, Joined, PipeHeld, CalmOK, Polls

LEMMA StartFresh == ASSUME TypeInv, FreshInv, Start PROVE FreshInv'
<1>1. /\ server = "down" /\ ~done /\ UNCHANGED <<kind, done, open, wake>>
      /\ Threaded /\ PipeHeld /\ \A t \in Threads : thread[t] \notin Busy
  BY BusyIsWorker DEF Start, waking, TypeInv, WorkerInv, FreshInv, Joined
<1>2. CASE server' \in {"lock", "loop"} /\ UNCHANGED <<handles, thread>>
  <2>1. UNCHANGED <<working, thread>>
    BY <1>2 DEF handles
  <2>2. \A t \in Threads : thread'[t] # "exit"
    BY <1>1, <2>1 DEF Busy
  <2> QED
    BY <1>1, <1>2, <2>1, <2>2 DEF FreshInv, Joined, PipeHeld, CalmOK
<1>3. CASE kind = "rpm" /\ server' = "loop" /\ Create(thread)
  BY <1>1, <1>3, CreateFresh DEF Threaded
<1> QED
  BY <1>2, <1>3 DEF Start

LEMMA RunFresh == ASSUME TypeInv, FreshInv, Run PROVE FreshInv'
<1>0. /\ server = "serve" /\ server' = server /\ UNCHANGED <<kind, done, failed>>
      /\ WorkerInv /\ Joined /\ PipeHeld /\ CalmOK /\ Calm /\ (Tame' <=> Tame) /\ (Looks' <=> Looks)
  BY DEF Run, TypeInv, WorkerInv, FreshInv, Calm, Tame, Looks
<1>1. CASE /\ Handle = Nobody /\ Create(Looked)
           /\ IF kind = "key" THEN open' = TRUE /\ wake' = FALSE ELSE UNCHANGED waking
  <2>1. Tame => ~done
    BY <1>0, <1>1, LookedIsDead DEF CalmOK
  <2>2. /\ \A t \in Threads : thread[t] \notin Busy /\ Looked[t] \notin Busy
        /\ Looked \in [Threads -> States]
    BY <1>0, <1>1, LookedIsDead, LookedOnlyFrees
  <2> QED
    BY <1>0, <1>1, <2>1, <2>2, CreateFresh DEF waking
<1>2. CASE Handle # Nobody /\ working' = Handle /\ thread' = Looked /\ UNCHANGED waking
  <2>1. working' = working /\ UNCHANGED <<open, wake>>
    BY <1>2, LookedIsDead DEF waking
  <2>2. \A t \in Threads : thread'[t] \in Busy \/ thread[t] \in Busy => thread'[t] = thread[t]
    BY <1>2, LookedIsDead
  <2> QED
    BY <1>0, <2>1, <2>2 DEF FreshInv, Joined, PipeHeld, CalmOK, Polls, Calm, Busy
<1> QED
  BY <1>1, <1>2 DEF Run

LEMMA StopFresh == ASSUME TypeInv, FreshInv, Stop \/ EndServer PROVE FreshInv'
<1>0. /\ server = "serve" /\ UNCHANGED <<kind, open, failed>> /\ working' = Handle /\ thread' = Looked
      /\ kind # "oom" => wake' = wake
      /\ FlagsOK /\ WorkerInv /\ Joined /\ PipeHeld /\ CalmOK /\ Calm
      /\ (Tame' <=> Tame) /\ (Looks' <=> Looks) /\ (Polls' <=> Polls)
  BY DEF Stop, EndServer, TypeInv, FlagsOK, WorkerInv, FreshInv, Calm, Tame, Looks, Polls, waking
<1>1. \A t \in Threads : thread'[t] \in Busy \/ thread[t] \in Busy => thread'[t] = thread[t]
  BY <1>0, LookedIsDead
<1>2. PipeHeld'
  BY <1>0, <1>1 DEF PipeHeld
<1>3. CASE server' = "wake" \/ (server' = "loop" /\ done')
  BY <1>0, <1>2, <1>3 DEF FreshInv, Joined, CalmOK, Calm
<1>4. CASE Handle = Nobody /\ server' = "stopgen" /\ done' = done
  <2>1. \A t \in Threads : thread'[t] \notin Busy
    BY <1>1, <1>4, LookedIsDead
  <2>2. Tame => ~done
    BY <1>0, <1>4, LookedIsDead DEF CalmOK
  <2> QED
    BY <1>0, <1>2, <1>4, <2>1, <2>2 DEF FreshInv, Joined, CalmOK, Busy
<1> QED
  BY <1>3, <1>4 DEF Stop, EndServer

(***************************************************************************)
(* FreshStart: a worker that begins does not find the flag of another one, *)
(* whichever way the service, its clients and the worker before took turns.*)
(***************************************************************************)
THEOREM FreshCorrect == Spec => []FreshStart
<1>1. Init => TypeInv /\ FreshInv
  <2> SUFFICES ASSUME Init PROVE FreshInv
    BY TypeInductive
  <2> QED
    BY DEF Init, FreshInv, Joined, PipeHeld, CalmOK, Busy
<1>2. TypeInv /\ FreshInv /\ [Next]_vars => (TypeInv /\ FreshInv)'
  <2> SUFFICES ASSUME TypeInv, FreshInv, [Next]_vars PROVE FreshInv'
    BY TypeInductive
  <2>1. CASE UNCHANGED vars
    BY <2>1 DEF vars, handles, waking, FreshInv, Joined, PipeHeld, CalmOK, Tame, Calm, Polls, Looks
  <2> QED
    BY <2>1, WorkerFresh, QuietFresh, JoinFresh, StartFresh, RunFresh, StopFresh DEF Next, Server
<1>3. TypeInv /\ FreshInv => FreshStart
  BY DEF TypeInv, HandlesOK, FreshInv, CalmOK, Tame, Calm, FreshStart, Busy, Closing
<1> QED
  BY <1>1, <1>2, <1>3, PTL DEF Spec
=============================================================================
