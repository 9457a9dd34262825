----------------------------- MODULE WorkerLoop -----------------------------
(***************************************************************************)
(* The background thread of a Hermes process (runtime/worker_loop.py), the *)
(* start, stop and shutdown of HermesPluginRuntime around it, and the end  *)
(* of the Python process, which waits for threads that are no daemons      *)
(* before it runs what atexit has registered.                              *)
(*                                                                         *)
(* What a cycle does with a capture is PendingCapture and SpoolDelivery;   *)
(* here a capture is only put, looked at, and done.                        *)
(***************************************************************************)
EXTENDS Integers, FiniteSets

CONSTANTS
  Captures,
  MaxThreads,  \* bound: threads the loop starts
  MaxFaults,   \* bound: cycles that raise or have to be repeated
  Unloads      \* the host calls on_unload before it exits

ASSUME LoopConstants ==
  MaxThreads \in Nat /\ MaxFaults \in Nat /\ Unloads \in BOOLEAN

VARIABLES
  at,         \* thread -> where it is; 0 is the thread there has never been
  current,    \* _thread
  stopEvent, wakeEvent,
  started, stopped,  \* runtime_started, runtime_stopped
  stopper,    \* a stop() that holds the runtime's lock while it joins
  closing,    \* how far shutdown is
  host,       \* the process: up, exiting, gone
  capture,    \* capture -> none, pending, ready, done
  unwoken,    \* captures put whose wake() is still to come
  unseen,     \* history: captures put and not looked at since
  owed,       \* history: those of a thread that was told to stop
  faults      \* history: cycles that raised

vars == <<at, current, stopEvent, wakeEvent, started, stopped, stopper,
          closing, host, capture, unwoken, unseen, owed, faults>>

Threads  == 0 .. MaxThreads
Steps    == {"dead", "check", "promote", "deliver", "wait", "clear",
             "lastPromote", "lastDeliver"}
Queued   == {"pending", "ready"}

TypeOK ==
  /\ at \in [Threads -> Steps]
  /\ current \in Threads
  /\ {stopEvent, wakeEvent, started, stopped, stopper} \subseteq BOOLEAN
  /\ closing \in {"no", "asked", "joining", "done"}
  /\ host \in {"up", "exiting", "gone"}
  /\ capture \in [Captures -> Queued \cup {"none", "done"}]
  /\ owed \subseteq unseen
  /\ \A c \in unwoken \cup unseen : capture[c] # "none"
  /\ faults \in 0 .. MaxFaults
  /\ stopped <=> closing # "no"
  /\ ~(started /\ stopped)

Init ==
  /\ at = [t \in Threads |-> "dead"] /\ current = 0
  /\ stopEvent = FALSE /\ wakeEvent = FALSE
  /\ started = FALSE /\ stopped = FALSE /\ stopper = FALSE
  /\ closing = "no" /\ host = "up"
  /\ capture = [c \in Captures |-> "none"]
  /\ unwoken = {} /\ unseen = {} /\ owed = {} /\ faults = 0

Alive == at[current] # "dead"
Lives == UNCHANGED <<current, started, stopped, stopper, closing, host>>

-----------------------------------------------------------------------------
(* The runtime's side. *)

\* Defect: the loop does not ask whether its thread still runs.
NewThread ==
  /\ current < MaxThreads
  /\ stopEvent' = FALSE
  /\ current' = current + 1
  /\ at' = [at EXCEPT ![current + 1] = "check"]

\* HermesWorkerLoop.start: nothing as long as the thread is alive.
LoopStart ==
  IF Alive THEN UNCHANGED <<stopEvent, current, at>> ELSE NewThread

\* Defect: every stopped runtime starts again.
StartAlways ==
  /\ host = "up" /\ ~stopper
  /\ ~(started /\ Alive)
  /\ LoopStart
  /\ started' = TRUE
  /\ UNCHANGED <<wakeEvent, stopped, stopper, closing, host, capture, unwoken,
                 unseen, owed, faults>>

\* The start() before a hook; shutdown is final.
Start ==
  /\ host = "up" /\ ~stopper
  /\ ~stopped
  /\ ~(started /\ Alive)
  /\ LoopStart
  /\ started' = TRUE
  /\ UNCHANGED <<wakeEvent, stopped, stopper, closing, host, capture, unwoken,
                 unseen, owed, faults>>

\* HermesWorkerLoop.stop, before it joins.
LoopStop ==
  /\ stopEvent' = TRUE /\ wakeEvent' = TRUE
  /\ owed' = IF Alive /\ ~stopEvent THEN unseen ELSE owed

\* stop keeps the lock until the thread is dead or the join times out.
Stop ==
  /\ host = "up" /\ ~stopper
  /\ LoopStop
  /\ stopper' = TRUE
  /\ UNCHANGED <<at, current, started, stopped, closing, host, capture,
                 unwoken, unseen, faults>>

Stopped ==
  /\ stopper
  /\ stopper' = FALSE /\ started' = FALSE
  /\ UNCHANGED <<at, current, stopEvent, wakeEvent, stopped, closing, host,
                 capture, unwoken, unseen, owed, faults>>

\* shutdown: by on_unload, by the next register(), or by atexit once every
\* thread has ended.
Shutdown ==
  /\ host = "up" \/ (host = "exiting" /\ ~Alive /\ current # 0)
  /\ ~stopped /\ ~stopper
  /\ stopped' = TRUE /\ started' = FALSE /\ closing' = "asked"
  /\ UNCHANGED <<at, current, stopEvent, wakeEvent, stopper, host, capture,
                 unwoken, unseen, owed, faults>>

ShutdownStops ==
  /\ closing = "asked"
  /\ LoopStop
  /\ closing' = "joining"
  /\ UNCHANGED <<at, current, started, stopped, stopper, host, capture,
                 unwoken, unseen, faults>>

\* Joined, or timed out.
ShutdownEnds ==
  /\ closing = "joining"
  /\ closing' = "done"
  /\ UNCHANGED <<at, current, stopEvent, wakeEvent, started, stopped, stopper,
                 host, capture, unwoken, unseen, owed, faults>>

\* A hook stores a capture, complete or to be completed, and then calls wake.
Put(c) ==
  /\ host = "up" /\ current # 0
  /\ capture[c] = "none"
  /\ \E queue \in Queued : capture' = [capture EXCEPT ![c] = queue]
  /\ unwoken' = unwoken \cup {c} /\ unseen' = unseen \cup {c}
  /\ UNCHANGED <<at, stopEvent, wakeEvent, owed, faults>> /\ Lives

Wake(c) ==
  /\ c \in unwoken
  /\ unwoken' = unwoken \ {c}
  /\ wakeEvent' = TRUE
  /\ UNCHANGED <<at, stopEvent, capture, unseen, owed, faults>> /\ Lives

\* The host's main thread ends.
Exit ==
  /\ host = "up" /\ ~stopper
  /\ closing \in {"no", "done"} /\ (Unloads => stopped)
  /\ host' = "exiting"
  /\ UNCHANGED <<at, current, stopEvent, wakeEvent, started, stopped, stopper,
                 closing, capture, unwoken, unseen, owed, faults>>

Gone ==
  /\ host = "exiting" /\ ~Alive
  /\ closing = "done" \/ current = 0   \* the first start registers shutdown
  /\ host' = "gone"
  /\ UNCHANGED <<at, current, stopEvent, wakeEvent, started, stopped, stopper,
                 closing, capture, unwoken, unseen, owed, faults>>

-----------------------------------------------------------------------------
(* The thread's side. *)

Goes(t, step) == at' = [at EXCEPT ![t] = step]
Looks(cs)     == unseen' = unseen \ cs /\ owed' = owed \ cs

\* Defect: stopped is stopped, without a last cycle.
CheckEnds(t) ==
  /\ at[t] = "check"
  /\ Goes(t, IF stopEvent THEN "dead" ELSE "promote")
  /\ UNCHANGED <<stopEvent, wakeEvent, capture, unwoken, unseen, owed, faults>>
  /\ Lives

\* while not stop_event.is_set(); after the loop one last cycle.
Check(t) ==
  /\ at[t] = "check"
  /\ Goes(t, IF stopEvent THEN "lastPromote" ELSE "promote")
  /\ UNCHANGED <<stopEvent, wakeEvent, capture, unwoken, unseen, owed, faults>>
  /\ Lives

\* Defect: an exception ends the thread.
StepDies(t, from, queue, to, next) ==
  /\ at[t] = from
  /\ LET found == {c \in Captures : capture[c] = queue}
     IN  Looks(found) /\
         \/ capture' = [c \in Captures |-> IF c \in found THEN to ELSE capture[c]]
            /\ Goes(t, next) /\ UNCHANGED faults
         \/ faults < MaxFaults /\ faults' = faults + 1 /\ UNCHANGED capture
            /\ Goes(t, "dead")
  /\ UNCHANGED <<stopEvent, wakeEvent, unwoken>> /\ Lives

\* Defect: the event is cleared before the wait, not after it.
StepClears(t, from, queue, to, next) ==
  /\ at[t] = from
  /\ LET found == {c \in Captures : capture[c] = queue}
     IN  Looks(found)
         /\ capture' = [c \in Captures |-> IF c \in found THEN to ELSE capture[c]]
  /\ Goes(t, next)
  /\ wakeEvent' = (next # "wait" /\ wakeEvent)
  /\ UNCHANGED <<stopEvent, unwoken, faults>> /\ Lives

\* One half of run_once: what it finds, it moves on, or fails to; an exception
\* is logged and the cycle goes on.
Step(t, from, queue, to, next) ==
  /\ at[t] = from
  /\ LET found == {c \in Captures : capture[c] = queue}
     IN  Looks(found) /\
         \/ capture' = [c \in Captures |-> IF c \in found THEN to ELSE capture[c]]
            /\ UNCHANGED faults
         \/ faults < MaxFaults /\ faults' = faults + 1 /\ UNCHANGED capture
  /\ Goes(t, next)
  /\ UNCHANGED <<stopEvent, wakeEvent, unwoken>> /\ Lives

Promote(t)     == Step(t, "promote", "pending", "ready", "deliver")
Deliver(t)     == Step(t, "deliver", "ready", "done", "wait")
LastPromote(t) == Step(t, "lastPromote", "pending", "ready", "lastDeliver")
LastDeliver(t) == Step(t, "lastDeliver", "ready", "done", "dead")

\* wake_event.wait(poll_interval): set, or the interval is over.
Waits(t) ==
  /\ at[t] = "wait"
  /\ Goes(t, "clear")
  /\ UNCHANGED <<stopEvent, wakeEvent, capture, unwoken, unseen, owed, faults>>
  /\ Lives

Clear(t) ==
  /\ at[t] = "clear"
  /\ wakeEvent' = FALSE
  /\ Goes(t, "check")
  /\ UNCHANGED <<stopEvent, capture, unwoken, unseen, owed, faults>> /\ Lives

Run(t) == \/ Check(t) \/ Promote(t) \/ Deliver(t) \/ Waits(t) \/ Clear(t)
          \/ LastPromote(t) \/ LastDeliver(t)

Runtime == Stopped \/ ShutdownStops \/ ShutdownEnds \/ Gone
           \/ (host = "exiting" /\ Shutdown)

Next ==
  \/ Start \/ Stop \/ Stopped \/ Shutdown \/ ShutdownStops \/ ShutdownEnds
  \/ \E c \in Captures : Put(c) \/ Wake(c)
  \/ Exit \/ Gone
  \/ \E t \in Threads : Run(t)

Spec == Init /\ [][Next]_vars

\* A thread is scheduled, a wait and a join time out, and exiting Python calls
\* what atexit has registered.  Whether the host calls a hook or exits is its
\* own affair.
FairSpec ==
  /\ Spec
  /\ \A t \in Threads : WF_vars(Run(t))
  /\ WF_vars(Runtime)

-----------------------------------------------------------------------------
(* Properties. *)

\* However starts, stops that time out and shutdowns follow one another, two
\* threads of one process never work on the queues.
OneThread == Cardinality({t \in Threads : at[t] # "dead"}) <= 1

\* A thread that goes to sleep for its interval has looked at every capture
\* whose wake() it does not still find set.
NoLostWake ==
  \A t \in Threads :
    at[t] = "wait" /\ ~wakeEvent => unseen \subseteq unwoken

\* The last cycle looks at every capture put before the thread was told to
\* stop; what comes later waits for the next start.
LastCycleLooks == ~Alive => owed = {}

\* A queued capture is done, unless somebody tells the thread to stop.
Served ==
  \A c \in Captures : capture[c] \in Queued ~> (capture[c] = "done" \/ stopEvent)

\* A process that wants to exit does.
ExitEnds == (host = "exiting") ~> (host = "gone")

=============================================================================
