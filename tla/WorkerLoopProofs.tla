--------------------------- MODULE WorkerLoopProofs ---------------------------
(***************************************************************************)
(* Theorems about WorkerLoop for any captures, any number of threads, any  *)
(* faults, and hosts that unload or do not.                                *)
(***************************************************************************)
EXTENDS WorkerLoop, FiniteSetTheorems, TLAPS

\* Every thread but the one in _thread is dead.
OnlyCurrent ==
  /\ at[0] = "dead"
  /\ \A t \in Threads : at[t] # "dead" => t = current

\* What nobody has looked at is still in a queue.
UnseenQueued ==
  /\ unwoken \subseteq Captures /\ unseen \subseteq Captures
  /\ \A c \in unseen : capture[c] \in Queued

\* A capture the cycle missed has its wake-up set or still to come: before
\* delivery the ready ones are not missed yet.
Missed   == unseen \ unwoken
WakesSet ==
  /\ at[current] = "deliver" => \A c \in Missed : wakeEvent \/ capture[c] = "ready"
  /\ at[current] = "wait" => \A c \in Missed : wakeEvent

\* The last cycle runs with the stop event set, and owes what is ready at most
\* when it comes to delivery.
LastCycle ==
  /\ at[current] \in {"lastPromote", "lastDeliver"} => stopEvent
  /\ at[current] = "lastDeliver" => \A c \in owed : capture[c] = "ready"
  /\ at[current] = "dead" => owed = {}

IInv == TypeOK /\ OnlyCurrent /\ UnseenQueued /\ WakesSet /\ LastCycle

-----------------------------------------------------------------------------
(* The first state. *)

LEMMA FirstThread == MaxThreads \in Nat /\ 0 \in Threads
  BY LoopConstants DEF LoopConstants, Threads

LEMMA InitInv == Init => IInv
  <1> SUFFICES ASSUME Init PROVE IInv
    OBVIOUS
  <1>1. TypeOK
    <2>1. at \in [Threads -> Steps] /\ current \in Threads
      BY FirstThread DEF Init, Steps
    <2>2. {stopEvent, wakeEvent, started, stopped, stopper} \subseteq BOOLEAN
      BY DEF Init
    <2>3. /\ closing \in {"no", "asked", "joining", "done"}
          /\ host \in {"up", "exiting", "gone"}
          /\ capture \in [Captures -> Queued \cup {"none", "done"}]
          /\ faults \in 0 .. MaxFaults
      BY LoopConstants DEF Init, LoopConstants
    <2>4. /\ owed \subseteq unseen
          /\ \A c \in unwoken \cup unseen : capture[c] # "none"
          /\ stopped <=> closing # "no"
          /\ ~(started /\ stopped)
      BY DEF Init
    <2> QED BY <2>1, <2>2, <2>3, <2>4 DEF TypeOK
  <1>2. OnlyCurrent /\ UnseenQueued /\ WakesSet /\ LastCycle
    BY FirstThread DEF Init, OnlyCurrent, UnseenQueued, WakesSet, Missed, LastCycle
  <1> QED BY <1>1, <1>2 DEF IInv

-----------------------------------------------------------------------------
(* The runtime's side. *)

\* The thread is the same one, or a new one where there was none.
LEMMA StartStep == IInv /\ Start => IInv'
  <1> SUFFICES ASSUME IInv, Start PROVE IInv'
    OBVIOUS
  <1> USE FirstThread DEF IInv
  <1>1. /\ UNCHANGED <<wakeEvent, stopped, stopper, closing, host, capture, unwoken,
                       unseen, owed, faults>>
        /\ started' = TRUE /\ ~stopped
    BY DEF Start
  <1>2. CASE Alive
    <2>1. UNCHANGED <<stopEvent, current, at>>
      BY <1>2 DEF Start, LoopStart
    <2>2. TypeOK'
      BY <1>1, <2>1 DEF TypeOK
    <2> QED BY <1>1, <2>1, <2>2
            DEF OnlyCurrent, UnseenQueued, WakesSet, Missed, LastCycle
  <1>3. CASE ~Alive
    <2>1. /\ current < MaxThreads /\ stopEvent' = FALSE /\ current' = current + 1
          /\ at' = [at EXCEPT ![current + 1] = "check"]
      BY <1>3 DEF Start, LoopStart, NewThread
    <2>2. current + 1 \in Threads /\ current + 1 # 0 /\ current # current + 1
      BY <2>1 DEF TypeOK, Threads
    <2>3. at' \in [Threads -> Steps] /\ current' \in Threads
      BY <2>1, <2>2 DEF TypeOK, Steps
    <2>4. TypeOK'
      BY <1>1, <2>1, <2>3 DEF TypeOK
    <2>5. \A t \in Threads : at[t] = "dead"
      BY <1>3 DEF Alive, OnlyCurrent
    <2>6. at'[current'] = "check"
      BY <2>1, <2>2 DEF TypeOK
    <2>7. OnlyCurrent'
      BY <2>1, <2>2, <2>5 DEF OnlyCurrent, TypeOK
    <2>8. owed' = {}
      BY <1>1, <1>3 DEF LastCycle, Alive
    <2> QED BY <1>1, <2>4, <2>6, <2>7, <2>8 DEF UnseenQueued, WakesSet, LastCycle
  <1> QED BY <1>2, <1>3

LEMMA StopStep == IInv /\ Stop => IInv'
  <1> SUFFICES ASSUME IInv, Stop PROVE IInv'
    OBVIOUS
  <1> USE FirstThread, LoopConstants DEF IInv, Stop, LoopStop, Alive
  <1>1. TypeOK'
    BY DEF TypeOK, Threads, Steps, Queued, LoopConstants
  <1>2. OnlyCurrent'
    BY DEF OnlyCurrent, TypeOK, Threads
  <1>3. UnseenQueued'
    BY DEF UnseenQueued, TypeOK
  <1>4. WakesSet'
    BY DEF WakesSet, Missed, OnlyCurrent, UnseenQueued, TypeOK
  <1>5. LastCycle'
    BY DEF LastCycle, OnlyCurrent, UnseenQueued, TypeOK
  <1> QED BY <1>1, <1>2, <1>3, <1>4, <1>5

LEMMA StoppedStep == IInv /\ Stopped => IInv'
  <1> SUFFICES ASSUME IInv, Stopped PROVE IInv'
    OBVIOUS
  <1> USE FirstThread, LoopConstants DEF IInv, Stopped
  <1>1. TypeOK'
    BY DEF TypeOK, Threads, Steps, Queued, LoopConstants
  <1>2. OnlyCurrent'
    BY DEF OnlyCurrent, TypeOK, Threads
  <1>3. UnseenQueued'
    BY DEF UnseenQueued, TypeOK
  <1>4. WakesSet'
    BY DEF WakesSet, Missed, OnlyCurrent, UnseenQueued, TypeOK
  <1>5. LastCycle'
    BY DEF LastCycle, OnlyCurrent, UnseenQueued, TypeOK
  <1> QED BY <1>1, <1>2, <1>3, <1>4, <1>5

LEMMA ShutdownStep == IInv /\ Shutdown => IInv'
  <1> SUFFICES ASSUME IInv, Shutdown PROVE IInv'
    OBVIOUS
  <1> USE FirstThread, LoopConstants DEF IInv, Shutdown
  <1>1. TypeOK'
    BY DEF TypeOK, Threads, Steps, Queued, LoopConstants
  <1>2. OnlyCurrent'
    BY DEF OnlyCurrent, TypeOK, Threads
  <1>3. UnseenQueued'
    BY DEF UnseenQueued, TypeOK
  <1>4. WakesSet'
    BY DEF WakesSet, Missed, OnlyCurrent, UnseenQueued, TypeOK
  <1>5. LastCycle'
    BY DEF LastCycle, OnlyCurrent, UnseenQueued, TypeOK
  <1> QED BY <1>1, <1>2, <1>3, <1>4, <1>5

LEMMA ShutdownStopsStep == IInv /\ ShutdownStops => IInv'
  <1> SUFFICES ASSUME IInv, ShutdownStops PROVE IInv'
    OBVIOUS
  <1> USE FirstThread, LoopConstants DEF IInv, ShutdownStops, LoopStop, Alive
  <1>1. TypeOK'
    BY DEF TypeOK, Threads, Steps, Queued, LoopConstants
  <1>2. OnlyCurrent'
    BY DEF OnlyCurrent, TypeOK, Threads
  <1>3. UnseenQueued'
    BY DEF UnseenQueued, TypeOK
  <1>4. WakesSet'
    BY DEF WakesSet, Missed, OnlyCurrent, UnseenQueued, TypeOK
  <1>5. LastCycle'
    BY DEF LastCycle, OnlyCurrent, UnseenQueued, TypeOK
  <1> QED BY <1>1, <1>2, <1>3, <1>4, <1>5

LEMMA ShutdownEndsStep == IInv /\ ShutdownEnds => IInv'
  <1> SUFFICES ASSUME IInv, ShutdownEnds PROVE IInv'
    OBVIOUS
  <1> USE FirstThread, LoopConstants DEF IInv, ShutdownEnds
  <1>1. TypeOK'
    BY DEF TypeOK, Threads, Steps, Queued, LoopConstants
  <1>2. OnlyCurrent'
    BY DEF OnlyCurrent, TypeOK, Threads
  <1>3. UnseenQueued'
    BY DEF UnseenQueued, TypeOK
  <1>4. WakesSet'
    BY DEF WakesSet, Missed, OnlyCurrent, UnseenQueued, TypeOK
  <1>5. LastCycle'
    BY DEF LastCycle, OnlyCurrent, UnseenQueued, TypeOK
  <1> QED BY <1>1, <1>2, <1>3, <1>4, <1>5

LEMMA ExitStep == IInv /\ Exit => IInv'
  <1> SUFFICES ASSUME IInv, Exit PROVE IInv'
    OBVIOUS
  <1> USE FirstThread, LoopConstants DEF IInv, Exit
  <1>1. TypeOK'
    BY DEF TypeOK, Threads, Steps, Queued, LoopConstants
  <1>2. OnlyCurrent'
    BY DEF OnlyCurrent, TypeOK, Threads
  <1>3. UnseenQueued'
    BY DEF UnseenQueued, TypeOK
  <1>4. WakesSet'
    BY DEF WakesSet, Missed, OnlyCurrent, UnseenQueued, TypeOK
  <1>5. LastCycle'
    BY DEF LastCycle, OnlyCurrent, UnseenQueued, TypeOK
  <1> QED BY <1>1, <1>2, <1>3, <1>4, <1>5

LEMMA GoneStep == IInv /\ Gone => IInv'
  <1> SUFFICES ASSUME IInv, Gone PROVE IInv'
    OBVIOUS
  <1> USE FirstThread, LoopConstants DEF IInv, Gone
  <1>1. TypeOK'
    BY DEF TypeOK, Threads, Steps, Queued, LoopConstants
  <1>2. OnlyCurrent'
    BY DEF OnlyCurrent, TypeOK, Threads
  <1>3. UnseenQueued'
    BY DEF UnseenQueued, TypeOK
  <1>4. WakesSet'
    BY DEF WakesSet, Missed, OnlyCurrent, UnseenQueued, TypeOK
  <1>5. LastCycle'
    BY DEF LastCycle, OnlyCurrent, UnseenQueued, TypeOK
  <1> QED BY <1>1, <1>2, <1>3, <1>4, <1>5

LEMMA PutStep == IInv /\ (\E c \in Captures : Put(c)) => IInv'
  <1> SUFFICES ASSUME IInv, NEW k \in Captures, Put(k) PROVE IInv'
    OBVIOUS
  <1> USE FirstThread, LoopConstants DEF IInv, Put, Lives
  <1>1. TypeOK'
    BY DEF TypeOK, Threads, Steps, Queued, LoopConstants
  <1>2. OnlyCurrent'
    BY DEF OnlyCurrent, TypeOK, Threads
  <1>3. UnseenQueued'
    BY DEF UnseenQueued, TypeOK
  <1>4. WakesSet'
    BY DEF WakesSet, Missed, OnlyCurrent, UnseenQueued, TypeOK
  <1>5. LastCycle'
    BY DEF LastCycle, OnlyCurrent, UnseenQueued, TypeOK
  <1> QED BY <1>1, <1>2, <1>3, <1>4, <1>5

LEMMA WakeStep == IInv /\ (\E c \in Captures : Wake(c)) => IInv'
  <1> SUFFICES ASSUME IInv, NEW k \in Captures, Wake(k) PROVE IInv'
    OBVIOUS
  <1> USE FirstThread, LoopConstants DEF IInv, Wake, Lives
  <1>1. TypeOK'
    BY DEF TypeOK, Threads, Steps, Queued, LoopConstants
  <1>2. OnlyCurrent'
    BY DEF OnlyCurrent, TypeOK, Threads
  <1>3. UnseenQueued'
    BY DEF UnseenQueued, TypeOK
  <1>4. WakesSet'
    BY DEF WakesSet, Missed, OnlyCurrent, UnseenQueued, TypeOK
  <1>5. LastCycle'
    BY DEF LastCycle, OnlyCurrent, UnseenQueued, TypeOK
  <1> QED BY <1>1, <1>2, <1>3, <1>4, <1>5

-----------------------------------------------------------------------------
(* The thread's side: a thread that takes a step is the current one. *)

LEMMA RunsCurrent ==
  ASSUME IInv, NEW t \in Threads, at[t] # "dead"
  PROVE  t = current /\ t # 0
  BY DEF IInv, OnlyCurrent

LEMMA CheckStep == IInv /\ (\E t \in Threads : Check(t)) => IInv'
  <1> SUFFICES ASSUME IInv, NEW t \in Threads, Check(t) PROVE IInv'
    OBVIOUS
  <1> USE FirstThread, LoopConstants DEF IInv, Check, Lives, Goes
  <1>0. t = current /\ at[t] # "dead"
    BY RunsCurrent
  <1>1. TypeOK'
    BY DEF TypeOK, Threads, Steps, Queued, LoopConstants
  <1>2. OnlyCurrent'
    BY <1>0 DEF OnlyCurrent, TypeOK, Threads
  <1>3. UnseenQueued'
    BY <1>0 DEF UnseenQueued, TypeOK
  <1>4. WakesSet'
    BY <1>0 DEF WakesSet, Missed, OnlyCurrent, UnseenQueued, TypeOK
  <1>5. LastCycle'
    BY <1>0 DEF LastCycle, OnlyCurrent, UnseenQueued, TypeOK
  <1> QED BY <1>1, <1>2, <1>3, <1>4, <1>5

\* Half a cycle: what is in its queue is looked at and stays or moves on.
LEMMA HalfCycle ==
  ASSUME IInv, NEW t \in Threads, NEW from, NEW queue, NEW to, NEW next,
         from # "dead", to \in {"ready", "done"}, next \in Steps,
         Step(t, from, queue, to, next)
  PROVE  /\ TypeOK' /\ OnlyCurrent' /\ UnseenQueued'
         /\ t = current /\ current' = current
         /\ at[current] = from /\ at'[current] = next
         /\ UNCHANGED <<stopEvent, wakeEvent, unwoken>>
         /\ unseen' \subseteq unseen /\ owed' \subseteq owed
         /\ \A c \in unseen' : capture[c] # queue /\ capture'[c] = capture[c]
  <1> USE DEF IInv
  <1> DEFINE found == {c \in Captures : capture[c] = queue}
  <1>1. /\ at[t] = from /\ at' = [at EXCEPT ![t] = next]
        /\ unseen' = unseen \ found /\ owed' = owed \ found
        /\ UNCHANGED <<stopEvent, wakeEvent, unwoken>>
        /\ UNCHANGED <<current, started, stopped, stopper, closing, host>>
    BY DEF Step, Looks, Goes, Lives
  <1>2. t = current /\ t # 0
    BY <1>1, RunsCurrent
  <1>3. \/ /\ capture' = [c \in Captures |-> IF c \in found THEN to ELSE capture[c]]
           /\ faults' = faults
        \/ faults < MaxFaults /\ faults' = faults + 1 /\ capture' = capture
    BY DEF Step
  <1>4. capture' \in [Captures -> Queued \cup {"none", "done"}]
    BY <1>3 DEF TypeOK, Queued
  <1>5. \A c \in Captures : \/ capture'[c] = capture[c]
                            \/ c \in found /\ capture'[c] = to
    BY <1>3 DEF TypeOK
  <1>6. faults' \in 0 .. MaxFaults
    BY <1>3, LoopConstants DEF TypeOK, LoopConstants
  <1>7. at' \in [Threads -> Steps] /\ at'[current] = next
    BY <1>1, <1>2 DEF TypeOK
  <1>8. \A c \in unseen' : capture[c] # queue /\ capture'[c] = capture[c]
    BY <1>1, <1>5 DEF UnseenQueued
  <1>9. \A c \in unwoken' \cup unseen' : capture'[c] # "none"
    BY <1>1, <1>5 DEF TypeOK, UnseenQueued
  <1>10. TypeOK'
    BY <1>1, <1>4, <1>6, <1>7, <1>9 DEF TypeOK
  <1>11. OnlyCurrent'
    BY <1>1, <1>2 DEF OnlyCurrent, TypeOK
  <1>12. UnseenQueued'
    BY <1>1, <1>8 DEF UnseenQueued
  <1> QED BY <1>1, <1>2, <1>7, <1>8, <1>10, <1>11, <1>12

LEMMA PromoteStep == IInv /\ (\E t \in Threads : Promote(t)) => IInv'
  <1> SUFFICES ASSUME IInv, NEW t \in Threads, Promote(t) PROVE IInv'
    OBVIOUS
  <1>1. Step(t, "promote", "pending", "ready", "deliver")
    BY DEF Promote
  <1>2. /\ TypeOK' /\ OnlyCurrent' /\ UnseenQueued' /\ current' = current
        /\ at[current] = "promote" /\ at'[current] = "deliver"
        /\ UNCHANGED <<stopEvent, wakeEvent, unwoken>>
        /\ unseen' \subseteq unseen /\ owed' \subseteq owed
        /\ \A c \in unseen' : capture[c] # "pending" /\ capture'[c] = capture[c]
    BY <1>1, HalfCycle DEF Steps
  <1>3. WakesSet'
    BY <1>2 DEF IInv, WakesSet, Missed, UnseenQueued, Queued
  <1>4. LastCycle'
    BY <1>2 DEF IInv, LastCycle, UnseenQueued, Queued, TypeOK
  <1> QED BY <1>2, <1>3, <1>4 DEF IInv

LEMMA DeliverStep == IInv /\ (\E t \in Threads : Deliver(t)) => IInv'
  <1> SUFFICES ASSUME IInv, NEW t \in Threads, Deliver(t) PROVE IInv'
    OBVIOUS
  <1>1. Step(t, "deliver", "ready", "done", "wait")
    BY DEF Deliver
  <1>2. /\ TypeOK' /\ OnlyCurrent' /\ UnseenQueued' /\ current' = current
        /\ at[current] = "deliver" /\ at'[current] = "wait"
        /\ UNCHANGED <<stopEvent, wakeEvent, unwoken>>
        /\ unseen' \subseteq unseen /\ owed' \subseteq owed
        /\ \A c \in unseen' : capture[c] # "ready" /\ capture'[c] = capture[c]
    BY <1>1, HalfCycle DEF Steps
  <1>3. WakesSet'
    BY <1>2 DEF IInv, WakesSet, Missed, UnseenQueued, Queued
  <1>4. LastCycle'
    BY <1>2 DEF IInv, LastCycle, UnseenQueued, Queued, TypeOK
  <1> QED BY <1>2, <1>3, <1>4 DEF IInv

LEMMA LastPromoteStep == IInv /\ (\E t \in Threads : LastPromote(t)) => IInv'
  <1> SUFFICES ASSUME IInv, NEW t \in Threads, LastPromote(t) PROVE IInv'
    OBVIOUS
  <1>1. Step(t, "lastPromote", "pending", "ready", "lastDeliver")
    BY DEF LastPromote
  <1>2. /\ TypeOK' /\ OnlyCurrent' /\ UnseenQueued' /\ current' = current
        /\ at[current] = "lastPromote" /\ at'[current] = "lastDeliver"
        /\ UNCHANGED <<stopEvent, wakeEvent, unwoken>>
        /\ unseen' \subseteq unseen /\ owed' \subseteq owed
        /\ \A c \in unseen' : capture[c] # "pending" /\ capture'[c] = capture[c]
    BY <1>1, HalfCycle DEF Steps
  <1>3. WakesSet'
    BY <1>2 DEF IInv, WakesSet, Missed, UnseenQueued, Queued
  <1>4. LastCycle'
    BY <1>2 DEF IInv, LastCycle, UnseenQueued, Queued, TypeOK
  <1> QED BY <1>2, <1>3, <1>4 DEF IInv

LEMMA LastDeliverStep == IInv /\ (\E t \in Threads : LastDeliver(t)) => IInv'
  <1> SUFFICES ASSUME IInv, NEW t \in Threads, LastDeliver(t) PROVE IInv'
    OBVIOUS
  <1>1. Step(t, "lastDeliver", "ready", "done", "dead")
    BY DEF LastDeliver
  <1>2. /\ TypeOK' /\ OnlyCurrent' /\ UnseenQueued' /\ current' = current
        /\ at[current] = "lastDeliver" /\ at'[current] = "dead"
        /\ UNCHANGED <<stopEvent, wakeEvent, unwoken>>
        /\ unseen' \subseteq unseen /\ owed' \subseteq owed
        /\ \A c \in unseen' : capture[c] # "ready" /\ capture'[c] = capture[c]
    BY <1>1, HalfCycle DEF Steps
  <1>3. WakesSet'
    BY <1>2 DEF IInv, WakesSet, Missed, UnseenQueued, Queued
  <1>4. LastCycle'
    BY <1>2 DEF IInv, LastCycle, UnseenQueued, Queued, TypeOK
  <1> QED BY <1>2, <1>3, <1>4 DEF IInv

LEMMA WaitsStep == IInv /\ (\E t \in Threads : Waits(t)) => IInv'
  <1> SUFFICES ASSUME IInv, NEW t \in Threads, Waits(t) PROVE IInv'
    OBVIOUS
  <1> USE FirstThread, LoopConstants DEF IInv, Waits, Lives, Goes
  <1>0. t = current /\ at[t] # "dead"
    BY RunsCurrent
  <1>1. TypeOK'
    BY DEF TypeOK, Threads, Steps, Queued, LoopConstants
  <1>2. OnlyCurrent'
    BY <1>0 DEF OnlyCurrent, TypeOK, Threads
  <1>3. UnseenQueued'
    BY <1>0 DEF UnseenQueued, TypeOK
  <1>4. WakesSet'
    BY <1>0 DEF WakesSet, Missed, OnlyCurrent, UnseenQueued, TypeOK
  <1>5. LastCycle'
    BY <1>0 DEF LastCycle, OnlyCurrent, UnseenQueued, TypeOK
  <1> QED BY <1>1, <1>2, <1>3, <1>4, <1>5

LEMMA ClearStep == IInv /\ (\E t \in Threads : Clear(t)) => IInv'
  <1> SUFFICES ASSUME IInv, NEW t \in Threads, Clear(t) PROVE IInv'
    OBVIOUS
  <1> USE FirstThread, LoopConstants DEF IInv, Clear, Lives, Goes
  <1>0. t = current /\ at[t] # "dead"
    BY RunsCurrent
  <1>1. TypeOK'
    BY DEF TypeOK, Threads, Steps, Queued, LoopConstants
  <1>2. OnlyCurrent'
    BY <1>0 DEF OnlyCurrent, TypeOK, Threads
  <1>3. UnseenQueued'
    BY <1>0 DEF UnseenQueued, TypeOK
  <1>4. WakesSet'
    BY <1>0 DEF WakesSet, Missed, OnlyCurrent, UnseenQueued, TypeOK
  <1>5. LastCycle'
    BY <1>0 DEF LastCycle, OnlyCurrent, UnseenQueued, TypeOK
  <1> QED BY <1>1, <1>2, <1>3, <1>4, <1>5

-----------------------------------------------------------------------------
(* The theorems. *)

LEMMA StepInv == IInv /\ [Next]_vars => IInv'
  <1>1. IInv /\ Next => IInv'
    BY StartStep, StopStep, StoppedStep, ShutdownStep, ShutdownStopsStep,
       ShutdownEndsStep, ExitStep, GoneStep, PutStep, WakeStep,
       CheckStep, PromoteStep, DeliverStep, LastPromoteStep, LastDeliverStep,
       WaitsStep, ClearStep
       DEF Next, Run
  <1>2. IInv /\ UNCHANGED vars => IInv'
    BY DEF vars, IInv, TypeOK, OnlyCurrent, UnseenQueued, WakesSet, Missed, LastCycle
  <1> QED BY <1>1, <1>2

LEMMA Invariance == Spec => []IInv
  BY InitInv, StepInv, PTL DEF Spec

\* Every reachable state of the loop, its runtime and its queues is well typed.
THEOREM TypeCorrect == Spec => []TypeOK
  <1>1. IInv => TypeOK
    BY DEF IInv
  <1> QED BY <1>1, Invariance, PTL

\* HermesWorkerLoop.start and stop: whichever starts follow stops whose join
\* timed out, there is never a second thread at work.
THEOREM OnlyOneThread == Spec => []OneThread
  <1>1. IInv => OneThread
    <2> SUFFICES ASSUME IInv PROVE OneThread
      OBVIOUS
    <2> DEFINE running == {t \in Threads : at[t] # "dead"}
    <2>1. running \subseteq {current}
      BY DEF IInv, OnlyCurrent
    <2>2. IsFiniteSet({current}) /\ Cardinality({current}) = 1
      BY FS_Singleton
    <2>3. IsFiniteSet(running) /\ Cardinality(running) <= Cardinality({current})
      BY <2>1, <2>2, FS_Subset
    <2> QED BY <2>2, <2>3, FS_CardinalityType DEF OneThread
  <1> QED BY <1>1, Invariance, PTL

\* _run_loop and wake: a thread that goes to sleep has looked at every capture
\* whose wake() it does not still find set.
THEOREM WakesAreKept == Spec => []NoLostWake
  <1>1. IInv => NoLostWake
    BY DEF IInv, OnlyCurrent, UnseenQueued, WakesSet, Missed, NoLostWake
  <1> QED BY <1>1, Invariance, PTL

\* _run_loop: the cycle after the loop looks at every capture put before the
\* thread was told to stop.
THEOREM LastCycleIsComplete == Spec => []LastCycleLooks
  <1>1. IInv => LastCycleLooks
    BY DEF IInv, LastCycle, LastCycleLooks, Alive
  <1> QED BY <1>1, Invariance, PTL

=============================================================================
