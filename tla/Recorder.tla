------------------------------ MODULE Recorder ------------------------------
(***************************************************************************)
(* The recorders: services that start a worker thread on :run:, end and    *)
(* join it on :stop:, and join it once more when the service itself ends.  *)
(* They are written after one pattern, and differ in how the worker waits, *)
(* in what :stop: does to wake it, in who sets the flag "done" and who     *)
(* resets it.  kind says which service runs:                               *)
(*                                                                         *)
(*   mem       logmem and logfs: pthread_cond_timedwait with time_lock     *)
(*   key       logkey: poll of the input devices, with a break pipe        *)
(*   oom       logoom: a timed wait on a semaphore                         *)
(*   procrank  logprocrank: sleep                                          *)
(*   rpm       logrpm: poll with a break pipe, and a thread for the time   *)
(*   battery   logbattery: poll of the uevent bus, with a break pipe       *)
(*                                                                         *)
(* Threads are numbered; a joined thread's number is free again.           *)
(***************************************************************************)
EXTENDS Integers

CONSTANTS
  Kinds,    \* the services to look at
  Threads,  \* numbers of threads; a :run: takes two that are free
  Failures  \* "worker": a worker may give up by itself

AllKinds == {"mem", "key", "oom", "procrank", "rpm", "battery"}

ASSUME RecorderAssumption ==
  /\ Kinds \subseteq AllKinds /\ Failures \subseteq {"worker"}
  /\ Threads \subseteq Nat

Nobody == -1   \* (pthread_t) -1

VARIABLES
  kind,      \* which service this is
  server,    \* where the service's thread is
  working,   \* its handle of the worker
  timegen,   \* its handle of the thread that makes the time (logrpm)
  thread,    \* what each thread is doing
  done,      \* the flag that ends the worker and the service
  open,      \* the worker has made what it can be woken by
  wake,      \* a break byte, a semaphore token, or the signal it waited for
  time_lock, \* time_lock is locked (logmem, logfs)
  failed     \* a worker has given up since the service started

handles == <<working, timegen>>
waking == <<open, wake>>
vars == <<kind, server, handles, thread, done, waking, time_lock, failed>>

Init ==
  /\ kind \in Kinds /\ server = "down"
  /\ working = Nobody /\ timegen = Nobody
  /\ thread = [t \in Threads |-> "none"]
  /\ done = FALSE /\ open = FALSE /\ wake = FALSE /\ time_lock = FALSE /\ failed = FALSE

Gone(t) == t # Nobody => thread[t] = "dead"
Freed(ts) == [t \in Threads |-> IF t \in ts THEN "none" ELSE thread[t]]
Goes(t, pc) == thread' = [thread EXCEPT ![t] = pc]
-----------------------------------------------------------------------------
(***************************************************************************)
(* The service's thread.                                                   *)
(***************************************************************************)
\* A worker is created, and with it the time thread of logrpm.
Create(threads) ==
  \E t, g \in {u \in Threads : threads[u] = "none"} :
    /\ t # g
    /\ working' = t
    /\ IF kind = "rpm"
       THEN timegen' = g /\ thread' = [threads EXCEPT ![t] = "start", ![g] = "tick"]
       ELSE timegen' = timegen /\ thread' = [threads EXCEPT ![t] = "start"]

\* logrpm starts its worker at once if it is told so.
Start ==
  /\ server = "down"
  /\ \/ server' = (IF kind = "mem" THEN "lock" ELSE "loop") /\ UNCHANGED <<handles, thread>>
     \/ kind = "rpm" /\ server' = "loop" /\ Create(thread)
  /\ failed' = FALSE
  /\ UNCHANGED <<kind, done, waking, time_lock>>

Lock ==
  /\ server = "lock" /\ ~time_lock
  /\ time_lock' = TRUE /\ server' = "loop"
  /\ UNCHANGED <<kind, handles, thread, done, waking, failed>>

Loop ==
  /\ server = "loop"
  /\ server' = IF done THEN "ending" ELSE "accept"
  /\ UNCHANGED <<kind, handles, thread, done, waking, time_lock, failed>>

Accept ==
  /\ server = "accept" /\ server' = "serve"
  /\ UNCHANGED <<kind, handles, thread, done, waking, time_lock, failed>>

Hangup ==
  /\ server = "serve" /\ server' = "loop"
  /\ UNCHANGED <<kind, handles, thread, done, waking, time_lock, failed>>

\* Some look before each command whether the worker is still alive; logrpm
\* looks at its other thread only if the worker is not. A handle that outlived
\* its thread's join is forgotten in the same way.
Lost(t) == t # Nobody /\ thread[t] \in {"dead", "none"}
Looks == kind \in {"procrank", "rpm", "battery"}
Forgets == IF Looks /\ Lost(working) THEN {working} ELSE {}
ForgetsGen ==
  IF kind = "rpm" /\ (working = Nobody \/ Forgets # {}) /\ Lost(timegen)
  THEN {timegen} ELSE {}

Handle == IF working \in Forgets THEN Nobody ELSE working
HandleGen == IF timegen \in ForgetsGen THEN Nobody ELSE timegen
Looked == Freed(Forgets \cup ForgetsGen)

\* :run: with no worker. logkey opens the break pipe here, the others' workers
\* open theirs.
Run ==
  /\ server = "serve"
  /\ \/ /\ Handle = Nobody
        /\ Create(Looked)
        /\ IF kind = "key" THEN open' = TRUE /\ wake' = FALSE ELSE UNCHANGED waking
     \/ /\ Handle # Nobody
        /\ working' = Handle /\ timegen' = HandleGen /\ thread' = Looked
        /\ UNCHANGED waking
  /\ UNCHANGED <<kind, server, done, time_lock, failed>>

\* :stop: sets the flag, wakes the worker, and joins it.
Stop ==
  /\ server = "serve"
  /\ working' = Handle /\ timegen' = HandleGen /\ thread' = Looked
  /\ \/ Handle # Nobody /\ done' = TRUE /\ server' = "wake"
     \/ Handle = Nobody /\ server' = "stopgen" /\ UNCHANGED done
  /\ UNCHANGED <<kind, waking, time_lock, failed>>

\* A signal is lost on a worker that does not wait yet, a semaphore keeps it
\* until the worker makes it anew, and a break byte needs a pipe to go to.
Wake ==
  wake' = CASE kind = "mem" -> wake \/ \E t \in Threads : thread[t] = "wait"
            [] kind = "oom" -> TRUE
            [] kind \in {"key", "rpm", "battery"} -> wake \/ open
            [] kind = "procrank" -> wake

StopWake ==
  /\ server = "wake"
  /\ Wake /\ server' = "join"
  /\ UNCHANGED <<kind, handles, thread, done, open, time_lock, failed>>

\* pthread_join returns; logoom leaves the flag set.
StopJoin_Flag ==
  /\ server = "join" /\ Gone(working)
  /\ thread' = Freed({working}) /\ working' = Nobody /\ server' = "stopgen"
  /\ UNCHANGED <<kind, timegen, done, waking, time_lock, failed>>

StopJoin_Zero ==
  /\ server = "join" /\ Gone(working)
  /\ thread' = Freed({working}) /\ working' = 0
  /\ done' = (kind = "oom") /\ server' = "stopgen"
  /\ UNCHANGED <<kind, timegen, waking, time_lock, failed>>

StopJoin ==
  /\ server = "join" /\ Gone(working)
  /\ thread' = Freed({working}) /\ working' = Nobody
  /\ done' = (kind = "oom")
  /\ server' = "stopgen"
  /\ UNCHANGED <<kind, timegen, waking, time_lock, failed>>

\* logrpm sets the flag once more: the time thread may have missed the first.
StopGen_Once ==
  /\ server = "stopgen"
  /\ server' = IF timegen = Nobody THEN "serve" ELSE "joingen"
  /\ UNCHANGED <<kind, handles, thread, done, waking, time_lock, failed>>

StopGen ==
  /\ server = "stopgen"
  /\ \/ timegen = Nobody /\ server' = "serve" /\ UNCHANGED done
     \/ timegen # Nobody /\ server' = "joingen" /\ done' = TRUE
  /\ UNCHANGED <<kind, handles, thread, waking, time_lock, failed>>

StopJoinGen ==
  /\ server = "joingen" /\ Gone(timegen)
  /\ thread' = Freed({timegen}) /\ timegen' = Nobody
  /\ done' = FALSE /\ server' = "serve"
  /\ UNCHANGED <<kind, working, waking, time_lock, failed>>

\* :endserver:
EndServer ==
  /\ server = "serve"
  /\ working' = Handle /\ timegen' = HandleGen /\ thread' = Looked
  /\ done' = TRUE /\ wake' = (wake \/ kind = "oom")
  /\ server' = "loop"
  /\ UNCHANGED <<kind, open, time_lock, failed>>

\* After the loop logmem and logfs unlock, logbattery wakes its worker, and
\* logkey and logrpm leave theirs to wait for the next event.
Ending ==
  /\ server = "ending"
  /\ time_lock' = FALSE
  /\ wake' = (wake \/ (kind = "battery" /\ open))
  /\ server' = "endjoin"
  /\ UNCHANGED <<kind, handles, thread, done, open, failed>>

EndJoin_Not ==
  /\ server = "endjoin"
  /\ working' = Nobody /\ timegen' = Nobody /\ done' = FALSE /\ server' = "down"
  /\ UNCHANGED <<kind, thread, waking, time_lock, failed>>

\* The handles of logprocrank and logrpm are static: they stay as they are, and
\* the service has those of joined threads when it is started again.
EndJoin ==
  /\ server = "endjoin" /\ Gone(working) /\ Gone(timegen)
  /\ thread' = Freed({working, timegen})
  /\ IF kind \in {"procrank", "rpm"} THEN UNCHANGED handles
     ELSE working' = Nobody /\ timegen' = Nobody
  /\ done' = FALSE /\ server' = "down"
  /\ UNCHANGED <<kind, waking, time_lock, failed>>
-----------------------------------------------------------------------------
(***************************************************************************)
(* The worker.                                                             *)
(***************************************************************************)
MayFail == "worker" \in Failures

\* Bad parameters, no input device, or no slot on the bus: it returns at once.
BeginFails(t) ==
  /\ thread[t] = "start" /\ MayFail /\ kind \in {"key", "procrank", "rpm", "battery"}
  /\ Goes(t, "dead") /\ failed' = TRUE
  /\ UNCHANGED <<kind, server, handles, done, waking, time_lock>>

\* A do loop begins with the work, a while loop with the flag.
Begin(t) ==
  /\ thread[t] = "start"
  /\ IF kind \in {"oom", "rpm", "battery"} THEN open' = TRUE /\ wake' = FALSE
                                           ELSE UNCHANGED waking
  /\ Goes(t, IF kind \in {"mem", "battery"} THEN "log" ELSE "check")
  /\ UNCHANGED <<kind, server, handles, done, time_lock, failed>>

\* logrpm cannot make its pipe, open the node or make its next file.
OpenFails(t) ==
  /\ kind = "rpm" /\ thread[t] \in {"start", "check"} /\ MayFail
  /\ Goes(t, "exit") /\ failed' = TRUE
  /\ UNCHANGED <<kind, server, handles, done, waking, time_lock>>

Check_Endless(t) ==
  /\ thread[t] = "check"
  /\ Goes(t, IF kind \in {"key", "rpm"} THEN "wait" ELSE "log")
  /\ UNCHANGED <<kind, server, handles, done, waking, time_lock, failed>>

Check(t) ==
  /\ thread[t] = "check"
  /\ Goes(t, IF done THEN "exit" ELSE IF kind \in {"key", "rpm"} THEN "wait" ELSE "log")
  /\ UNCHANGED <<kind, server, handles, done, waking, time_lock, failed>>

\* One record. pthread_cond_timedwait unlocks time_lock while it waits, which
\* the server has locked.
Log(t) ==
  /\ thread[t] = "log"
  /\ Goes(t, IF kind \in {"key", "rpm"} THEN "check" ELSE "wait")
  /\ time_lock' = (time_lock /\ kind # "mem")
  /\ UNCHANGED <<kind, server, handles, done, waking, failed>>

LogFails(t) ==
  /\ thread[t] = "log" /\ MayFail
  /\ Goes(t, "exit") /\ failed' = TRUE
  /\ done' = (done \/ kind = "oom")
  /\ UNCHANGED <<kind, server, handles, waking, time_lock>>

\* It was woken, or its time is over.  The poll of a break pipe ends the
\* thread; logbattery sets the flag then.  A condition wait takes the lock back.
Woken(t) ==
  /\ thread[t] = "wait"
  /\ wake \/ kind \in {"mem", "oom", "procrank"}
  /\ kind = "mem" => ~time_lock
  /\ time_lock' = (time_lock \/ kind = "mem")
  /\ wake' = FALSE
  /\ Goes(t, IF kind \in {"key", "rpm", "battery"} THEN "exit" ELSE "check")
  /\ done' = (done \/ kind = "battery")
  /\ UNCHANGED <<kind, server, handles, open, failed>>

\* What it polls for; and logbattery's interval, which it looks up each time.
Event(t) ==
  /\ thread[t] = "wait" /\ kind \in {"key", "rpm", "battery"}
  /\ Goes(t, IF kind = "battery" THEN "check" ELSE "log")
  /\ UNCHANGED <<kind, server, handles, done, waking, time_lock, failed>>

\* What is behind the loop: who has polled closes the pipe, and three of them
\* set the flag of the service.
Exit(t) ==
  /\ thread[t] = "exit"
  /\ Goes(t, "dead")
  /\ IF kind \in {"key", "rpm", "battery"} THEN open' = FALSE /\ wake' = FALSE
                                           ELSE UNCHANGED waking
  /\ done' = (done \/ kind \in {"key", "procrank", "rpm"})
  /\ UNCHANGED <<kind, server, handles, time_lock, failed>>

\* thread_timegen
Tick(t) ==
  /\ thread[t] = "tick" /\ done
  /\ Goes(t, "dead")
  /\ UNCHANGED <<kind, server, handles, done, waking, time_lock, failed>>
-----------------------------------------------------------------------------
Server ==
  \/ Lock \/ Loop \/ StopWake \/ StopJoin \/ StopGen \/ StopJoinGen
  \/ Ending \/ EndJoin

Worker(t) ==
  \/ BeginFails(t) \/ Begin(t) \/ OpenFails(t) \/ Check(t) \/ Log(t) \/ LogFails(t)
  \/ Woken(t) \/ Exit(t) \/ Tick(t)

Next ==
  \/ Server
  \/ Start \/ Accept \/ Hangup \/ Run \/ Stop \/ EndServer
  \/ \E t \in Threads : Worker(t) \/ Event(t)

(***************************************************************************)
(* The threads run.  Clients and events come or not; a worker may keep on  *)
(* succeeding.                                                             *)
(***************************************************************************)
Fairness == WF_vars(Server) /\ \A t \in Threads : WF_vars(Worker(t))

Spec == Init /\ [][Next]_vars /\ Fairness
-----------------------------------------------------------------------------
(***************************************************************************)
(* Properties.                                                             *)
(***************************************************************************)
Busy == {"start", "check", "log", "wait", "exit"}
Workers == {t \in Threads : thread[t] \in Busy}
Closing == {"ending", "endjoin"}

TypeOK ==
  /\ kind \in Kinds
  /\ server \in {"down", "lock", "loop", "accept", "serve", "wake", "join", "stopgen",
                 "joingen"} \cup Closing
  /\ working \in Threads \cup {Nobody} /\ timegen \in Threads \cup {Nobody}
  /\ thread \in [Threads -> Busy \cup {"none", "dead", "tick"}]
  /\ done \in BOOLEAN /\ open \in BOOLEAN /\ wake \in BOOLEAN
  /\ time_lock \in BOOLEAN /\ failed \in BOOLEAN

\* Two workers would share the file, the flag and the break pipe: whoever ends
\* and starts a recorder, once or again, there is at most one, and it is the
\* one the service has a handle of.
OneWorker == Workers \subseteq {working}

\* A worker does not find the flag set that is meant for another: only :stop:
\* and :endserver: set it while a worker begins. logoom is left out, which does
\* not reset it, and the services whose worker sets it when it gives up, once
\* one has.
FreshStart ==
  (done /\ kind # "oom" /\ (kind \in {"mem", "key"} \/ ~failed)
    /\ \E t \in Threads : thread[t] = "start")
  => server \in {"wake", "join", "loop"} \cup Closing

\* :stop: returns, without an event and whatever the worker is doing: the wake
\* that may be lost comes after the flag. logbattery wakes its worker only if
\* that has registered, and has to be woken then.
Stopping == server \in {"wake", "join", "stopgen", "joingen"}
StopReturns ==
  (Stopping /\ (kind = "battery" => server = "join" /\ wake)) ~> server = "serve"

\* :endserver: ends the service where the wait has an end, or the worker was woken.
EndReturns ==
  (server \in Closing /\ (kind \in {"mem", "oom", "procrank"} \/ wake)) ~> server = "down"
=============================================================================
