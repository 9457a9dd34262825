-------------------------- MODULE RuntimeLeaseProofs --------------------------
(***************************************************************************)
(* Theorems about RuntimeLease for any sessions, threads, leases and       *)
(* faults, with and without a command that starts the core.                *)
(***************************************************************************)
EXTENDS RuntimeLease, FiniteSetTheorems, TLAPS

\* A hook that does something does it for one session.
OneSession ==
  \A t \in Threads :
    thread[t].at # "idle" => \E s \in Sessions : thread[t].session = {s}

\* The core numbers its leases: one not granted yet is nowhere.
Drawn ==
  /\ \A s \in Sessions : table[s] <= drawn
  /\ \A t \in Threads : thread[t].lease <= drawn
  /\ \A l \in beating : l <= drawn
  /\ \A l \in Leases : released[l] > 0 => l <= drawn

\* A lease is in one place at a time: with one session of the table or in the
\* hand of one hook.
Apart ==
  /\ \A s1, s2 \in Sessions : table[s1] = table[s2] => s1 = s2 \/ table[s1] = None
  /\ \A t1, t2 \in Threads :
       thread[t1].lease = thread[t2].lease => t1 = t2 \/ thread[t1].lease = None
  /\ \A s \in Sessions, t \in Threads :
       table[s] = thread[t].lease => table[s] = None

\* A lease whose release was sent is in neither.
Unreleased ==
  /\ \A s \in Sessions : table[s] # None => released[table[s]] = 0
  /\ \A t \in Threads : thread[t].lease # None => released[thread[t].lease] = 0

\* The heartbeat of a lease in hand is started by Store.
NotYetBeating ==
  \A t \in Threads :
    thread[t].at \in {"acquire", "bootstrap", "health", "rollback", "store"}
      => thread[t].lease \notin beating

IInv == /\ TypeOK /\ OneSession /\ Drawn /\ Apart /\ Unreleased /\ NotYetBeating
        /\ BeatsAreOwned /\ ReleasedOnce

-----------------------------------------------------------------------------
(* The first state. *)

Hooks == [at : Steps, session : SUBSET Sessions, lease : Leases \cup {None}]

LEMMA IdleHook == Idle \in Hooks /\ None = 0 /\ None \notin Leases
  BY DEF Idle, Hooks, Steps, Leases, None

LEMMA InitInv == Init => IInv
  <1> SUFFICES ASSUME Init PROVE IInv
    OBVIOUS
  <1>1. TypeOK
    BY IdleHook, LeaseConstants DEF Init, TypeOK, Hooks, LeaseConstants, Idle
  <1>2. OneSession /\ Drawn /\ Apart /\ Unreleased
    BY IdleHook DEF Init, OneSession, Drawn, Apart, Unreleased, Idle
  <1>3. NotYetBeating /\ BeatsAreOwned /\ ReleasedOnce
    BY DEF Init, NotYetBeating, BeatsAreOwned, ReleasedOnce
  <1> QED BY <1>1, <1>2, <1>3 DEF IInv

-----------------------------------------------------------------------------
(* The steps of a hook. *)

\* What a hook's next step leaves of it.
LEMMA HookGoes ==
  ASSUME TypeOK, NEW t \in Threads, NEW step \in Steps, Go(t, step)
  PROVE  /\ thread' \in [Threads -> Hooks]
         /\ thread'[t].at = step /\ thread'[t].lease = thread[t].lease
         /\ thread'[t].session = thread[t].session
         /\ \A u \in Threads \ {t} : thread'[u] = thread[u]
  <1>1. thread \in [Threads -> Hooks]
    BY DEF TypeOK, Hooks
  <1>2. thread' = [thread EXCEPT ![t] = [thread[t] EXCEPT !.at = step]]
    BY <1>1 DEF Go
  <1>3. [thread[t] EXCEPT !.at = step] \in Hooks
    BY <1>1 DEF Hooks
  <1> QED BY <1>1, <1>2, <1>3 DEF Hooks

LEMMA HookTakes ==
  ASSUME TypeOK, NEW t \in Threads, NEW step \in Steps, NEW l \in Leases,
         thread' = [thread EXCEPT ![t].at = step, ![t].lease = l]
  PROVE  /\ thread' \in [Threads -> Hooks]
         /\ thread'[t].at = step /\ thread'[t].lease = l
         /\ thread'[t].session = thread[t].session
         /\ \A u \in Threads \ {t} : thread'[u] = thread[u]
  <1>1. thread \in [Threads -> Hooks]
    BY DEF TypeOK, Hooks
  <1>2. thread' = [thread EXCEPT ![t] = [[thread[t] EXCEPT !.at = step] EXCEPT !.lease = l]]
    BY <1>1
  <1>3. [[thread[t] EXCEPT !.at = step] EXCEPT !.lease = l] \in Hooks
    BY <1>1 DEF Hooks
  <1> QED BY <1>1, <1>2, <1>3 DEF Hooks

LEMMA Granted ==
  ASSUME TypeOK, Grant
  PROVE  /\ drawn' = drawn + 1 /\ drawn' \in 0 .. MaxLeases
         /\ drawn + 1 \in Leases /\ granted' \subseteq Leases
  BY LeaseConstants DEF TypeOK, Grant, Leases, LeaseConstants

\* A new lease comes to a hook that has none.
LEMMA TakesNew ==
  ASSUME IInv, NEW t \in Threads, NEW step \in {"health", "store"}, Grant,
         thread[t].at \in {"acquire", "bootstrap"},
         thread' = [thread EXCEPT ![t].at = step, ![t].lease = drawn + 1],
         UNCHANGED <<table, beating, released, stopped, leaving, faults, raced, late>>
  PROVE  IInv'
  <1> USE IdleHook DEF IInv
  <1>1. /\ drawn' = drawn + 1 /\ drawn' \in 0 .. MaxLeases
        /\ drawn + 1 \in Leases /\ granted' \subseteq Leases
    BY Granted
  <1>2. /\ thread' \in [Threads -> Hooks]
        /\ thread'[t].at = step /\ thread'[t].lease = drawn + 1
        /\ thread'[t].session = thread[t].session
        /\ \A u \in Threads \ {t} : thread'[u] = thread[u]
    BY <1>1, HookTakes DEF Steps
  <1>3. TypeOK'
    <2>1. \A u \in Threads :
            /\ thread'[u].at = "idle" => thread'[u] = Idle
            /\ thread'[u].at \in {"health", "rollback", "store", "release"}
                 => thread'[u].lease # None
      BY <1>1, <1>2 DEF TypeOK
    <2> QED BY <1>1, <1>2, <2>1 DEF TypeOK, Hooks
  <1>4. OneSession'
    BY <1>2 DEF OneSession
  <1>5. Drawn'
    BY <1>1, <1>2 DEF Drawn, TypeOK, Leases
  <1>6. Apart'
    BY <1>1, <1>2 DEF Apart, Drawn, TypeOK, Leases
  <1>7. Unreleased'
    BY <1>1, <1>2 DEF Unreleased, Drawn, TypeOK, Leases
  <1>8. NotYetBeating'
    BY <1>1, <1>2 DEF NotYetBeating, Drawn, TypeOK, Leases
  <1>9. BeatsAreOwned'
    <2>1. \A l \in beating : ~(thread[t].lease = l)
      BY DEF NotYetBeating
    <2> QED BY <1>2, <2>1 DEF BeatsAreOwned, InTable, InHand
  <1>10. ReleasedOnce'
    BY DEF ReleasedOnce
  <1> QED BY <1>3, <1>4, <1>5, <1>6, <1>7, <1>8, <1>9, <1>10

LEMMA BeginStep ==
  IInv /\ (\E t \in Threads, s \in Sessions : Begin(t, s)) => IInv'
  <1> SUFFICES ASSUME IInv, NEW t \in Threads, NEW s \in Sessions, Begin(t, s) PROVE IInv'
    OBVIOUS
  <1> USE IdleHook, LeaseConstants DEF IInv, Begin
  <1>1. TypeOK'
    BY DEF TypeOK, Steps, Leases, LeaseConstants, Idle
  <1>2. OneSession'
    BY DEF OneSession, TypeOK, Idle
  <1>3. Drawn'
    BY DEF Drawn, TypeOK, Leases, Idle
  <1>4. Apart'
    BY DEF Apart, Drawn, TypeOK, Leases, Idle
  <1>5. Unreleased'
    BY DEF Unreleased, Apart, Drawn, TypeOK, Leases, Idle
  <1>6. NotYetBeating'
    BY DEF NotYetBeating, Drawn, TypeOK, Leases, Idle
  <1>7. BeatsAreOwned'
    BY DEF BeatsAreOwned, InTable, InHand, NotYetBeating, TypeOK, Leases, Idle
  <1>8. ReleasedOnce'
    BY DEF ReleasedOnce, Unreleased, TypeOK, Leases, Idle
  <1> QED BY <1>1, <1>2, <1>3, <1>4, <1>5, <1>6, <1>7, <1>8

LEMMA AcquiredStep == IInv /\ (\E t \in Threads : Acquired(t)) => IInv'
  BY TakesNew DEF Acquired, At

\* The answer is lost; the hook goes on without a lease.
LEMMA AcquireFailsStep == IInv /\ (\E t \in Threads : AcquireFails(t)) => IInv'
  <1> SUFFICES ASSUME IInv, NEW t \in Threads, AcquireFails(t) PROVE IInv'
    OBVIOUS
  <1> USE IdleHook DEF IInv
  <1>1. /\ thread[t].at = "acquire"
        /\ UNCHANGED <<table, beating, released, stopped, leaving, raced, late>>
        /\ Go(t, "bootstrap") \/ Return(t)
        /\ Grant \/ UNCHANGED <<granted, drawn>>
    BY DEF AcquireFails, At
  <1>2. /\ drawn' \in 0 .. MaxLeases /\ drawn <= drawn' /\ granted' \subseteq Leases
    BY <1>1, Granted, LeaseConstants DEF TypeOK, LeaseConstants
  <1>3. faults' \in 0 .. MaxFaults
    BY LeaseConstants DEF AcquireFails, Fault, TypeOK, LeaseConstants
  <1>4. /\ thread' \in [Threads -> Hooks]
        /\ \/ thread'[t] = Idle
           \/ /\ thread'[t].at = "bootstrap" /\ thread'[t].lease = thread[t].lease
              /\ thread'[t].session = thread[t].session
        /\ \A u \in Threads \ {t} : thread'[u] = thread[u]
    <2>1. CASE Go(t, "bootstrap")
      BY <2>1, HookGoes DEF Steps
    <2>2. CASE Return(t)
      BY <2>2 DEF Return, TypeOK, Hooks
    <2> QED BY <1>1, <2>1, <2>2
  <1>5. TypeOK'
    <2>1. \A u \in Threads :
            /\ thread'[u].at = "idle" => thread'[u] = Idle
            /\ thread'[u].at \in {"health", "rollback", "store", "release"}
                 => thread'[u].lease # None
      BY <1>4 DEF TypeOK, Idle
    <2> QED BY <1>1, <1>2, <1>3, <1>4, <2>1 DEF TypeOK, Hooks
  <1>6. OneSession'
    BY <1>1, <1>4 DEF OneSession, Idle
  <1>7. Drawn'
    BY <1>1, <1>2, <1>4 DEF Drawn, TypeOK, Leases, Idle
  <1>8. Apart'
    BY <1>1, <1>4 DEF Apart, Idle
  <1>9. Unreleased'
    BY <1>1, <1>4 DEF Unreleased, Idle
  <1>10. NotYetBeating'
    BY <1>1, <1>4 DEF NotYetBeating, Idle
  <1>11. BeatsAreOwned'
    <2>1. \A l \in beating : ~(thread[t].lease = l)
      BY <1>1 DEF NotYetBeating
    <2> QED BY <1>1, <1>4, <2>1 DEF BeatsAreOwned, InTable, InHand
  <1>12. ReleasedOnce'
    BY <1>1 DEF ReleasedOnce
  <1> QED BY <1>5, <1>6, <1>7, <1>8, <1>9, <1>10, <1>11, <1>12

LEMMA AcquireRefusedStep == IInv /\ (\E t \in Threads : AcquireRefused(t)) => IInv'
  <1> SUFFICES ASSUME IInv, NEW t \in Threads, AcquireRefused(t) PROVE IInv'
    OBVIOUS
  <1> USE IdleHook, LeaseConstants DEF IInv, AcquireRefused, At, Return
  <1>1. TypeOK'
    BY DEF TypeOK, Steps, Leases, LeaseConstants, Idle
  <1>2. OneSession'
    BY DEF OneSession, TypeOK, Idle
  <1>3. Drawn'
    BY DEF Drawn, TypeOK, Leases, Idle
  <1>4. Apart'
    BY DEF Apart, Drawn, TypeOK, Leases, Idle
  <1>5. Unreleased'
    BY DEF Unreleased, Apart, Drawn, TypeOK, Leases, Idle
  <1>6. NotYetBeating'
    BY DEF NotYetBeating, Drawn, TypeOK, Leases, Idle
  <1>7. BeatsAreOwned'
    BY DEF BeatsAreOwned, InTable, InHand, NotYetBeating, TypeOK, Leases, Idle
  <1>8. ReleasedOnce'
    BY DEF ReleasedOnce, Unreleased, TypeOK, Leases, Idle
  <1> QED BY <1>1, <1>2, <1>3, <1>4, <1>5, <1>6, <1>7, <1>8

LEMMA BootsStep == IInv /\ (\E t \in Threads : Boots(t)) => IInv'
  BY TakesNew DEF Boots, At

LEMMA BootFailsStep == IInv /\ (\E t \in Threads : BootFails(t)) => IInv'
  <1> SUFFICES ASSUME IInv, NEW t \in Threads, BootFails(t) PROVE IInv'
    OBVIOUS
  <1> USE IdleHook, LeaseConstants DEF IInv, BootFails, At, Return
  <1>1. TypeOK'
    BY DEF TypeOK, Steps, Leases, LeaseConstants, Idle
  <1>2. OneSession'
    BY DEF OneSession, TypeOK, Idle
  <1>3. Drawn'
    BY DEF Drawn, TypeOK, Leases, Idle
  <1>4. Apart'
    BY DEF Apart, Drawn, TypeOK, Leases, Idle
  <1>5. Unreleased'
    BY DEF Unreleased, Apart, Drawn, TypeOK, Leases, Idle
  <1>6. NotYetBeating'
    BY DEF NotYetBeating, Drawn, TypeOK, Leases, Idle
  <1>7. BeatsAreOwned'
    BY DEF BeatsAreOwned, InTable, InHand, NotYetBeating, TypeOK, Leases, Idle
  <1>8. ReleasedOnce'
    BY DEF ReleasedOnce, Unreleased, TypeOK, Leases, Idle
  <1> QED BY <1>1, <1>2, <1>3, <1>4, <1>5, <1>6, <1>7, <1>8

LEMMA HealthyStep == IInv /\ (\E t \in Threads : Healthy(t)) => IInv'
  <1> SUFFICES ASSUME IInv, NEW t \in Threads, Healthy(t) PROVE IInv'
    OBVIOUS
  <1> USE IdleHook, LeaseConstants DEF IInv, Healthy, At, Go
  <1>1. TypeOK'
    <2>1. /\ thread' \in [Threads -> Hooks] /\ thread'[t].at = "store"
          /\ thread'[t].lease = thread[t].lease
          /\ \A u \in Threads \ {t} : thread'[u] = thread[u]
      BY HookGoes DEF Steps
    <2> HIDE DEF Go, Healthy
    <2> QED BY <2>1 DEF Healthy, At, TypeOK, Hooks
  <1>2. OneSession'
    BY DEF OneSession, TypeOK, Idle
  <1>3. Drawn'
    BY DEF Drawn, TypeOK, Leases, Idle
  <1>4. Apart'
    BY DEF Apart, Drawn, TypeOK, Leases, Idle
  <1>5. Unreleased'
    BY DEF Unreleased, Apart, Drawn, TypeOK, Leases, Idle
  <1>6. NotYetBeating'
    BY DEF NotYetBeating, Drawn, TypeOK, Leases, Idle
  <1>7. BeatsAreOwned'
    BY DEF BeatsAreOwned, InTable, InHand, NotYetBeating, TypeOK, Leases, Idle
  <1>8. ReleasedOnce'
    BY DEF ReleasedOnce, Unreleased, TypeOK, Leases, Idle
  <1> QED BY <1>1, <1>2, <1>3, <1>4, <1>5, <1>6, <1>7, <1>8

LEMMA UnreachableStep == IInv /\ (\E t \in Threads : Unreachable(t)) => IInv'
  <1> SUFFICES ASSUME IInv, NEW t \in Threads, Unreachable(t) PROVE IInv'
    OBVIOUS
  <1> USE IdleHook, LeaseConstants DEF IInv, Unreachable, At, Go
  <1>1. TypeOK'
    <2>1. /\ thread' \in [Threads -> Hooks] /\ thread'[t].at = "rollback"
          /\ thread'[t].lease = thread[t].lease
          /\ \A u \in Threads \ {t} : thread'[u] = thread[u]
      BY HookGoes DEF Steps
    <2> HIDE DEF Go, Unreachable
    <2> QED BY <2>1 DEF Unreachable, At, TypeOK, Hooks
  <1>2. OneSession'
    BY DEF OneSession, TypeOK, Idle
  <1>3. Drawn'
    BY DEF Drawn, TypeOK, Leases, Idle
  <1>4. Apart'
    BY DEF Apart, Drawn, TypeOK, Leases, Idle
  <1>5. Unreleased'
    BY DEF Unreleased, Apart, Drawn, TypeOK, Leases, Idle
  <1>6. NotYetBeating'
    BY DEF NotYetBeating, Drawn, TypeOK, Leases, Idle
  <1>7. BeatsAreOwned'
    BY DEF BeatsAreOwned, InTable, InHand, NotYetBeating, TypeOK, Leases, Idle
  <1>8. ReleasedOnce'
    BY DEF ReleasedOnce, Unreleased, TypeOK, Leases, Idle
  <1> QED BY <1>1, <1>2, <1>3, <1>4, <1>5, <1>6, <1>7, <1>8

LEMMA HealthRefusedStep == IInv /\ (\E t \in Threads : HealthRefused(t)) => IInv'
  <1> SUFFICES ASSUME IInv, NEW t \in Threads, HealthRefused(t) PROVE IInv'
    OBVIOUS
  <1> USE IdleHook, LeaseConstants DEF IInv, HealthRefused, At, Fault, Return
  <1>1. TypeOK'
    BY DEF TypeOK, Steps, Leases, LeaseConstants, Idle
  <1>2. OneSession'
    BY DEF OneSession, TypeOK, Idle
  <1>3. Drawn'
    BY DEF Drawn, TypeOK, Leases, Idle
  <1>4. Apart'
    BY DEF Apart, Drawn, TypeOK, Leases, Idle
  <1>5. Unreleased'
    BY DEF Unreleased, Apart, Drawn, TypeOK, Leases, Idle
  <1>6. NotYetBeating'
    BY DEF NotYetBeating, Drawn, TypeOK, Leases, Idle
  <1>7. BeatsAreOwned'
    BY DEF BeatsAreOwned, InTable, InHand, NotYetBeating, TypeOK, Leases, Idle
  <1>8. ReleasedOnce'
    BY DEF ReleasedOnce, Unreleased, TypeOK, Leases, Idle
  <1> QED BY <1>1, <1>2, <1>3, <1>4, <1>5, <1>6, <1>7, <1>8

LEMMA RollsBackStep == IInv /\ (\E t \in Threads : RollsBack(t)) => IInv'
  <1> SUFFICES ASSUME IInv, NEW t \in Threads, RollsBack(t) PROVE IInv'
    OBVIOUS
  <1> USE IdleHook, LeaseConstants DEF IInv, RollsBack, At, Return, SendRelease, Fault
  <1>1. TypeOK'
    BY DEF TypeOK, Steps, Leases, LeaseConstants, Idle
  <1>2. OneSession'
    BY DEF OneSession, TypeOK, Idle
  <1>3. Drawn'
    BY DEF Drawn, TypeOK, Leases, Idle
  <1>4. Apart'
    BY DEF Apart, Drawn, TypeOK, Leases, Idle
  <1>5. Unreleased'
    BY DEF Unreleased, Apart, Drawn, TypeOK, Leases, Idle
  <1>6. NotYetBeating'
    BY DEF NotYetBeating, Drawn, TypeOK, Leases, Idle
  <1>7. BeatsAreOwned'
    BY DEF BeatsAreOwned, InTable, InHand, NotYetBeating, TypeOK, Leases, Idle
  <1>8. ReleasedOnce'
    BY DEF ReleasedOnce, Unreleased, TypeOK, Leases, Idle
  <1> QED BY <1>1, <1>2, <1>3, <1>4, <1>5, <1>6, <1>7, <1>8

\* The lease in hand starts to beat and enters the table.
LEMMA StoreStep == IInv /\ (\E t \in Threads : Store(t)) => IInv'
  <1> SUFFICES ASSUME IInv, NEW t \in Threads, Store(t) PROVE IInv'
    OBVIOUS
  <1> USE IdleHook DEF IInv
  <1>1. PICK s \in Sessions : s = CHOOSE x \in thread[t].session : TRUE
    <2>1. PICK s \in Sessions : thread[t].session = {s}
      BY DEF Store, At, OneSession
    <2> QED BY <2>1
  <1>2. PICK l \in Leases : l = thread[t].lease /\ l # None
    BY DEF Store, At, TypeOK
  <1>3. /\ table' = [table EXCEPT ![s] = l]
        /\ beating' = beating \cup {l}
        /\ raced' = raced \cup ({table[s]} \ {None})
        /\ late' \subseteq late \cup {l}
        /\ thread' = [thread EXCEPT ![t] = Idle]
        /\ UNCHANGED <<granted, drawn, released, stopped, leaving, faults>>
    BY <1>1, <1>2 DEF Store, Return
  <1>4. thread[t].at = "store"
    BY DEF Store, At
  <1>5. /\ thread' \in [Threads -> Hooks]
        /\ thread'[t] = Idle /\ \A u \in Threads \ {t} : thread'[u] = thread[u]
    BY <1>3 DEF TypeOK, Hooks
  <1>6. /\ table' \in [Sessions -> Leases \cup {None}]
        /\ table'[s] = l /\ \A x \in Sessions \ {s} : table'[x] = table[x]
    BY <1>3, <1>4 DEF TypeOK
  <1>7. TypeOK'
    <2>1. \A u \in Threads :
            /\ thread'[u].at = "idle" => thread'[u] = Idle
            /\ thread'[u].at \in {"health", "rollback", "store", "release"}
                 => thread'[u].lease # None
      BY <1>2, <1>5 DEF TypeOK, Idle
    <2>2. raced' \subseteq Leases /\ late' \subseteq Leases /\ beating' \subseteq Leases
      BY <1>2, <1>3, <1>4 DEF TypeOK
    <2> QED BY <1>3, <1>5, <1>6, <2>1, <2>2 DEF TypeOK, Hooks
  <1>8. OneSession'
    BY <1>2, <1>5 DEF OneSession, Idle
  <1>9. Drawn'
    BY <1>2, <1>3, <1>5, <1>6 DEF Drawn, TypeOK, Idle
  <1>10. Apart'
    BY <1>2, <1>4, <1>5, <1>6 DEF Apart, Idle
  <1>11. Unreleased'
    BY <1>2, <1>3, <1>4, <1>5, <1>6 DEF Unreleased, Idle
  <1>12. NotYetBeating'
    <2>1. \A u \in Threads \ {t} : thread[u].lease # l
      BY <1>2, <1>4 DEF Apart
    <2> QED BY <1>3, <1>5, <2>1 DEF NotYetBeating, Idle
  <1>13. BeatsAreOwned'
    <2>1. l \in raced' \/ InTable(l)'
      BY <1>2, <1>6 DEF InTable
    <2>2. ASSUME NEW b \in beating, b # l PROVE (InTable(b) \/ InHand(b) \/ b \in raced)'
      <3>1. CASE InTable(b)
        <4>1. PICK x \in Sessions : table[x] = b
          BY <3>1 DEF InTable
        <4>2. CASE x = s
          BY <1>3, <4>1, <4>2 DEF TypeOK
        <4>3. CASE x # s
          BY <1>2, <1>6, <4>1, <4>3 DEF InTable
        <4> QED BY <4>2, <4>3
      <3>2. CASE InHand(b)
        BY <1>2, <1>5, <2>2, <3>2 DEF InHand
      <3>3. CASE b \in raced
        BY <1>3, <3>3
      <3> QED BY <3>1, <3>2, <3>3 DEF BeatsAreOwned
    <2> QED BY <1>3, <2>1, <2>2 DEF BeatsAreOwned
  <1>14. ReleasedOnce'
    BY <1>3 DEF ReleasedOnce
  <1> QED BY <1>7, <1>8, <1>9, <1>10, <1>11, <1>12, <1>13, <1>14

\* A lease leaves the table into the hand of a hook.
LEMMA Popped ==
  ASSUME IInv, NEW t \in Threads, NEW s \in Sessions, thread[t] = Idle, Pop(t, s),
         leaving' \subseteq Sessions,
         UNCHANGED <<beating, granted, drawn, released, stopped, faults, raced, late>>
  PROVE  IInv'
  <1> USE IdleHook, LeaseConstants DEF IInv, Pop
  <1>1. TypeOK'
    BY DEF TypeOK, Steps, Leases, LeaseConstants, Idle
  <1>2. OneSession'
    BY DEF OneSession, TypeOK, Idle
  <1>3. Drawn'
    BY DEF Drawn, TypeOK, Leases, Idle
  <1>4. Apart'
    BY DEF Apart, Drawn, TypeOK, Leases, Idle
  <1>5. Unreleased'
    BY DEF Unreleased, Apart, Drawn, TypeOK, Leases, Idle
  <1>6. NotYetBeating'
    BY DEF NotYetBeating, Drawn, TypeOK, Leases, Idle
  <1>7. BeatsAreOwned'
    BY DEF BeatsAreOwned, InTable, InHand, NotYetBeating, TypeOK, Leases, Idle
  <1>8. ReleasedOnce'
    BY DEF ReleasedOnce, Unreleased, TypeOK, Leases, Idle
  <1> QED BY <1>1, <1>2, <1>3, <1>4, <1>5, <1>6, <1>7, <1>8

LEMMA FinishStep ==
  IInv /\ (\E t \in Threads, s \in Sessions : Finish(t, s)) => IInv'
  BY Popped DEF Finish, IInv, TypeOK

LEMMA ReleaseStep == IInv /\ (\E t \in Threads : Release(t)) => IInv'
  <1> SUFFICES ASSUME IInv, NEW t \in Threads, Release(t) PROVE IInv'
    OBVIOUS
  <1> USE IdleHook, LeaseConstants DEF IInv, Release, At, Return, SendRelease, Fault
  <1>1. TypeOK'
    BY DEF TypeOK, Steps, Leases, LeaseConstants, Idle
  <1>2. OneSession'
    BY DEF OneSession, TypeOK, Idle
  <1>3. Drawn'
    BY DEF Drawn, TypeOK, Leases, Idle
  <1>4. Apart'
    BY DEF Apart, Drawn, TypeOK, Leases, Idle
  <1>5. Unreleased'
    BY DEF Unreleased, Apart, Drawn, TypeOK, Leases, Idle
  <1>6. NotYetBeating'
    BY DEF NotYetBeating, Drawn, TypeOK, Leases, Idle
  <1>7. BeatsAreOwned'
    BY DEF BeatsAreOwned, InTable, InHand, NotYetBeating, TypeOK, Leases, Idle
  <1>8. ReleasedOnce'
    BY DEF ReleasedOnce, Unreleased, TypeOK, Leases, Idle
  <1> QED BY <1>1, <1>2, <1>3, <1>4, <1>5, <1>6, <1>7, <1>8

LEMMA ShutdownStep == IInv /\ (\E t \in Threads : Shutdown(t)) => IInv'
  <1> SUFFICES ASSUME IInv, NEW t \in Threads, Shutdown(t) PROVE IInv'
    OBVIOUS
  <1> USE IdleHook, LeaseConstants DEF IInv, Shutdown
  <1>1. TypeOK'
    BY DEF TypeOK, Steps, Leases, LeaseConstants, Idle
  <1>2. OneSession'
    BY DEF OneSession, TypeOK, Idle
  <1>3. Drawn'
    BY DEF Drawn, TypeOK, Leases, Idle
  <1>4. Apart'
    BY DEF Apart, Drawn, TypeOK, Leases, Idle
  <1>5. Unreleased'
    BY DEF Unreleased, Apart, Drawn, TypeOK, Leases, Idle
  <1>6. NotYetBeating'
    BY DEF NotYetBeating, Drawn, TypeOK, Leases, Idle
  <1>7. BeatsAreOwned'
    BY DEF BeatsAreOwned, InTable, InHand, NotYetBeating, TypeOK, Leases, Idle
  <1>8. ReleasedOnce'
    BY DEF ReleasedOnce, Unreleased, TypeOK, Leases, Idle
  <1> QED BY <1>1, <1>2, <1>3, <1>4, <1>5, <1>6, <1>7, <1>8

LEMMA ShutdownListsStep == IInv /\ ShutdownLists => IInv'
  <1> SUFFICES ASSUME IInv, ShutdownLists PROVE IInv'
    OBVIOUS
  <1> USE IdleHook, LeaseConstants DEF IInv, ShutdownLists
  <1>1. TypeOK'
    BY DEF TypeOK, Steps, Leases, LeaseConstants, Idle
  <1>2. OneSession'
    BY DEF OneSession, TypeOK, Idle
  <1>3. Drawn'
    BY DEF Drawn, TypeOK, Leases, Idle
  <1>4. Apart'
    BY DEF Apart, Drawn, TypeOK, Leases, Idle
  <1>5. Unreleased'
    BY DEF Unreleased, Apart, Drawn, TypeOK, Leases, Idle
  <1>6. NotYetBeating'
    BY DEF NotYetBeating, Drawn, TypeOK, Leases, Idle
  <1>7. BeatsAreOwned'
    BY DEF BeatsAreOwned, InTable, InHand, NotYetBeating, TypeOK, Leases, Idle
  <1>8. ReleasedOnce'
    BY DEF ReleasedOnce, Unreleased, TypeOK, Leases, Idle
  <1> QED BY <1>1, <1>2, <1>3, <1>4, <1>5, <1>6, <1>7, <1>8

LEMMA ShutdownPopsStep ==
  IInv /\ (\E t \in Threads, s \in Sessions : ShutdownPops(t, s)) => IInv'
  <1> SUFFICES ASSUME IInv, NEW t \in Threads, NEW s \in Sessions, ShutdownPops(t, s)
               PROVE  IInv'
    OBVIOUS
  <1>1. leaving' \subseteq Sessions
    BY DEF ShutdownPops, IInv, TypeOK
  <1>2. CASE table[s] = None
    <2>1. UNCHANGED <<table, thread, beating, granted, drawn, released, stopped,
                      faults, raced, late>>
      BY <1>2 DEF ShutdownPops
    <2> QED BY <1>1, <2>1
            DEF IInv, TypeOK, OneSession, Drawn, Apart, Unreleased, NotYetBeating,
                BeatsAreOwned, InTable, InHand, ReleasedOnce
  <1>3. CASE table[s] # None
    BY <1>1, <1>3, Popped DEF ShutdownPops
  <1> QED BY <1>2, <1>3

LEMMA ShutdownEndsStep == IInv /\ ShutdownEnds => IInv'
  <1> SUFFICES ASSUME IInv, ShutdownEnds PROVE IInv'
    OBVIOUS
  <1> USE IdleHook, LeaseConstants DEF IInv, ShutdownEnds
  <1>1. TypeOK'
    BY DEF TypeOK, Steps, Leases, LeaseConstants, Idle
  <1>2. OneSession'
    BY DEF OneSession, TypeOK, Idle
  <1>3. Drawn'
    BY DEF Drawn, TypeOK, Leases, Idle
  <1>4. Apart'
    BY DEF Apart, Drawn, TypeOK, Leases, Idle
  <1>5. Unreleased'
    BY DEF Unreleased, Apart, Drawn, TypeOK, Leases, Idle
  <1>6. NotYetBeating'
    BY DEF NotYetBeating, Drawn, TypeOK, Leases, Idle
  <1>7. BeatsAreOwned'
    BY DEF BeatsAreOwned, InTable, InHand, NotYetBeating, TypeOK, Leases, Idle
  <1>8. ReleasedOnce'
    BY DEF ReleasedOnce, Unreleased, TypeOK, Leases, Idle
  <1> QED BY <1>1, <1>2, <1>3, <1>4, <1>5, <1>6, <1>7, <1>8

LEMMA ExpireStep == IInv /\ (\E l \in Leases : Expire(l)) => IInv'
  <1> SUFFICES ASSUME IInv, NEW e \in Leases, Expire(e) PROVE IInv'
    OBVIOUS
  <1> USE IdleHook, LeaseConstants DEF IInv, Expire, Fault
  <1>1. TypeOK'
    BY DEF TypeOK, Steps, Leases, LeaseConstants, Idle
  <1>2. OneSession'
    BY DEF OneSession, TypeOK, Idle
  <1>3. Drawn'
    BY DEF Drawn, TypeOK, Leases, Idle
  <1>4. Apart'
    BY DEF Apart, Drawn, TypeOK, Leases, Idle
  <1>5. Unreleased'
    BY DEF Unreleased, Apart, Drawn, TypeOK, Leases, Idle
  <1>6. NotYetBeating'
    BY DEF NotYetBeating, Drawn, TypeOK, Leases, Idle
  <1>7. BeatsAreOwned'
    BY DEF BeatsAreOwned, InTable, InHand, NotYetBeating, TypeOK, Leases, Idle
  <1>8. ReleasedOnce'
    BY DEF ReleasedOnce, Unreleased, TypeOK, Leases, Idle
  <1> QED BY <1>1, <1>2, <1>3, <1>4, <1>5, <1>6, <1>7, <1>8

-----------------------------------------------------------------------------
(* The theorems. *)

LEMMA StepInv == IInv /\ [Next]_vars => IInv'
  <1>1. IInv /\ Next => IInv'
    BY BeginStep, AcquiredStep, AcquireFailsStep, AcquireRefusedStep,
       BootsStep, BootFailsStep, HealthyStep, UnreachableStep,
       HealthRefusedStep, RollsBackStep, StoreStep, FinishStep,
       ReleaseStep, ShutdownStep, ShutdownListsStep, ShutdownPopsStep,
       ShutdownEndsStep, ExpireStep
       DEF Next, Acquire
  <1>2. IInv /\ UNCHANGED vars => IInv'
    BY DEF vars, IInv, TypeOK, OneSession, Drawn, Apart, Unreleased, NotYetBeating,
           BeatsAreOwned, InTable, InHand, ReleasedOnce
  <1> QED BY <1>1, <1>2

LEMMA Invariance == Spec => []IInv
  BY InitInv, StepInv, PTL DEF Spec

\* Every reachable state of the table, its hooks and their leases is well typed.
THEOREM TypeCorrect == Spec => []TypeOK
  <1>1. IInv => TypeOK
    BY DEF IInv
  <1> QED BY <1>1, Invariance, PTL

\* RuntimeLease.start_heartbeat and _runtime_leases: whatever hooks, ends of
\* sessions and the shutdown do at the same time, a lease that is renewed can
\* still be released, or was replaced in the table by another hook's.
THEOREM HeartbeatsAreOwned == Spec => []BeatsAreOwned
  <1>1. IInv => BeatsAreOwned
    BY DEF IInv
  <1> QED BY <1>1, Invariance, PTL

\* _release_runtime_lease takes a lease out of the table before it is released:
\* no second release is sent for it.
THEOREM OneRelease == Spec => []ReleasedOnce
  <1>1. IInv => ReleasedOnce
    BY DEF IInv
  <1> QED BY <1>1, Invariance, PTL

-----------------------------------------------------------------------------
(* Leases nobody has any more.                                               *)

Orphans == {l \in granted \ raced : ~InTable(l) /\ ~InHand(l)}

\* A hook that asks for a lease has none.
AsksForOne == \A t \in Threads : thread[t].at \in {"acquire", "bootstrap"}
                                   => thread[t].lease = None

AInv == AsksForOne /\ LeasesAccounted

\* An orphan more is a fault more.
LEMMA OrphansCounted ==
  ASSUME TypeOK, TypeOK', LeasesAccounted,
         \/ Orphans' \subseteq Orphans /\ faults' \in {faults, faults + 1}
         \/ \E x : Orphans' \subseteq Orphans \cup {x} /\ faults' = faults + 1
  PROVE  LeasesAccounted'
  <1>1. MaxLeases \in Nat /\ faults \in Nat /\ faults' \in Nat
    BY LeaseConstants DEF TypeOK
  <1>2. IsFiniteSet(Orphans) /\ IsFiniteSet(Orphans')
    <2>1. IsFiniteSet(1 .. MaxLeases)
      BY <1>1, FS_Interval
    <2>2. Orphans \subseteq 1 .. MaxLeases /\ Orphans' \subseteq 1 .. MaxLeases
      BY DEF TypeOK, Orphans, Leases
    <2> QED BY <2>1, <2>2, FS_Subset
  <1>3. Cardinality(Orphans) \in Nat /\ Cardinality(Orphans') \in Nat
    BY <1>2, FS_CardinalityType
  <1>4. Cardinality(Orphans) <= faults
    BY DEF LeasesAccounted, Orphans
  <1>5. CASE Orphans' \subseteq Orphans /\ faults' \in {faults, faults + 1}
    <2>1. Cardinality(Orphans') <= Cardinality(Orphans)
      BY <1>2, <1>5, FS_Subset
    <2> QED BY <1>1, <1>3, <1>4, <1>5, <2>1 DEF LeasesAccounted, Orphans
  <1>6. ASSUME NEW x, Orphans' \subseteq Orphans \cup {x}, faults' = faults + 1
        PROVE  LeasesAccounted'
    <2>1. /\ IsFiniteSet(Orphans \cup {x})
          /\ Cardinality(Orphans \cup {x}) \in {Cardinality(Orphans), Cardinality(Orphans) + 1}
      BY <1>2, FS_AddElement
    <2>2. Cardinality(Orphans') <= Cardinality(Orphans \cup {x})
      BY <1>6, <2>1, FS_Subset
    <2>3. Cardinality(Orphans') <= faults'
      BY <1>1, <1>3, <1>4, <1>6, <2>1, <2>2
    <2> QED BY <2>3 DEF LeasesAccounted, Orphans
  <1> QED BY <1>5, <1>6

\* A step of one hook: what it had or was granted it has, or it is in the table,
\* or no longer granted.
LEMMA HandOver ==
  ASSUME TypeOK, NEW t \in Threads,
         \A u \in Threads \ {t} : thread'[u] = thread[u],
         raced \subseteq raced',
         \A s \in Sessions : \/ table'[s] = table[s]
                             \/ table[s] \in raced' \cup {None, thread'[t].lease},
         NEW x,
         \A l \in granted' : l \in granted \/ l \in {thread'[t].lease, x},
         thread[t].lease \in {None, thread'[t].lease, x}
           \/ thread[t].lease \notin granted'
           \/ \E s \in Sessions : table'[s] = thread[t].lease
  PROVE  Orphans' \subseteq Orphans \cup {x}
  <1> SUFFICES ASSUME NEW l \in Orphans', l # x PROVE l \in Orphans
    OBVIOUS
  <1>1. l \in granted' /\ l \notin raced' /\ ~InTable(l)' /\ ~InHand(l)'
    BY DEF Orphans
  <1>2. l # thread'[t].lease
    BY <1>1 DEF InHand
  <1>3. l \in granted \ raced /\ l # None
    BY <1>1, <1>2 DEF TypeOK, Leases, None
  <1>4. ~InTable(l)
    BY <1>1, <1>2, <1>3 DEF InTable
  <1>5. ~InHand(l)
    BY <1>1, <1>2, <1>3 DEF InHand, InTable
  <1> QED BY <1>3, <1>4, <1>5 DEF Orphans

\* What the hook gives away, the table has, or the core no longer.
LEMMA NoneOrphaned ==
  ASSUME TypeOK, TypeOK', LeasesAccounted, NEW t \in Threads,
         \A u \in Threads \ {t} : thread'[u] = thread[u],
         raced \subseteq raced', faults' \in {faults, faults + 1},
         \A s \in Sessions : \/ table'[s] = table[s]
                             \/ table[s] \in raced' \cup {None, thread'[t].lease},
         \A l \in granted' : l \in granted \/ l = thread'[t].lease,
         thread[t].lease \in {None, thread'[t].lease}
           \/ thread[t].lease \notin granted'
           \/ \E s \in Sessions : table'[s] = thread[t].lease
  PROVE  LeasesAccounted'
  <1>1. Orphans' \subseteq Orphans \cup {None}
    BY HandOver
  <1>2. None \notin Orphans'
    BY DEF Orphans, TypeOK, Leases, None
  <1> QED BY <1>1, <1>2, OrphansCounted

\* A fault may leave one lease behind.
LEMMA OneOrphaned ==
  ASSUME TypeOK, TypeOK', LeasesAccounted, NEW t \in Threads,
         \A u \in Threads \ {t} : thread'[u] = thread[u],
         UNCHANGED <<table, raced>>, Fault, NEW x,
         \A l \in granted' : l \in granted \/ l = x,
         thread[t].lease \in {None, thread'[t].lease, x}
  PROVE  LeasesAccounted'
  <1>1. Orphans' \subseteq Orphans \cup {x}
    BY HandOver
  <1> QED BY <1>1, OrphansCounted DEF Fault

\* Nothing a lease depends on changes, or the core drops one.
LEMMA FewerOrphans ==
  ASSUME TypeOK, TypeOK', LeasesAccounted, UNCHANGED <<table, thread, raced>>,
         granted' \subseteq granted, faults' \in {faults, faults + 1}
  PROVE  LeasesAccounted'
  <1>1. Orphans' \subseteq Orphans
    BY DEF Orphans, InTable, InHand
  <1> QED BY <1>1, OrphansCounted

LEMMA HookAccounted ==
  ASSUME IInv, IInv', AInv, NEW t \in Threads, Acquire(t) \/ Release(t)
  PROVE  AInv'
  <1>0. TypeOK /\ TypeOK' /\ LeasesAccounted /\ AsksForOne
    BY DEF IInv, AInv
  <1>1. thread \in [Threads -> Hooks] /\ thread[t].lease \in Leases \cup {None}
    BY <1>0 DEF TypeOK, Hooks
  <1>2. CASE Acquired(t)
    <2>1. /\ thread'[t].at = "store" /\ thread'[t].lease = drawn + 1
          /\ \A u \in Threads \ {t} : thread'[u] = thread[u]
          /\ granted' = granted \cup {drawn + 1} /\ thread[t].lease = None
      BY <1>0, <1>1, <1>2 DEF Acquired, Grant, At, AsksForOne, Hooks
    <2>2. UNCHANGED <<table, raced, faults>>
      BY <1>2 DEF Acquired
    <2>3. LeasesAccounted'
      BY <1>0, <2>1, <2>2, NoneOrphaned
    <2> QED BY <1>0, <2>1, <2>3 DEF AInv, AsksForOne
  <1>3. CASE AcquireFails(t)
    <2>1. /\ thread'[t].lease = None /\ thread[t].lease = None
          /\ \A u \in Threads \ {t} : thread'[u] = thread[u]
      BY <1>0, <1>1, <1>3 DEF AcquireFails, Go, Return, Idle, At, AsksForOne, Hooks
    <2>2. UNCHANGED <<table, raced>> /\ Fault
      BY <1>3 DEF AcquireFails
    <2>3. \A l \in granted' : l \in granted \/ l = drawn + 1
      BY <1>3 DEF AcquireFails, Grant
    <2>4. LeasesAccounted'
      BY <1>0, <2>1, <2>2, <2>3, OneOrphaned
    <2> QED BY <1>0, <2>1, <2>4 DEF AInv, AsksForOne
  <1>4. CASE AcquireRefused(t) \/ BootFails(t)
    <2>1. /\ thread'[t] = Idle /\ thread[t].lease = None
          /\ \A u \in Threads \ {t} : thread'[u] = thread[u]
          /\ UNCHANGED <<table, raced, granted, faults>>
      BY <1>0, <1>1, <1>4 DEF AcquireRefused, BootFails, Return, At, AsksForOne
    <2>2. LeasesAccounted'
      BY <1>0, <2>1, NoneOrphaned
    <2> QED BY <1>0, <2>1, <2>2 DEF AInv, AsksForOne, Idle
  <1>5. CASE Boots(t)
    <2>1. /\ thread'[t].at \in {"health", "store"} /\ thread'[t].lease = drawn + 1
          /\ \A u \in Threads \ {t} : thread'[u] = thread[u]
          /\ granted' = granted \cup {drawn + 1} /\ thread[t].lease = None
      BY <1>0, <1>1, <1>5 DEF Boots, Grant, At, AsksForOne, Hooks
    <2>2. UNCHANGED <<table, raced, faults>>
      BY <1>5 DEF Boots
    <2>3. LeasesAccounted'
      BY <1>0, <2>1, <2>2, NoneOrphaned
    <2> QED BY <1>0, <2>1, <2>3 DEF AInv, AsksForOne
  <1>6. CASE Healthy(t) \/ Unreachable(t)
    <2>1. /\ thread'[t].at \in {"store", "rollback"} /\ thread'[t].lease = thread[t].lease
          /\ \A u \in Threads \ {t} : thread'[u] = thread[u]
          /\ UNCHANGED <<table, raced, granted, faults>>
      BY <1>1, <1>6 DEF Healthy, Unreachable, Go, Hooks
    <2>2. LeasesAccounted'
      BY <1>0, <2>1, NoneOrphaned
    <2> QED BY <1>0, <2>1, <2>2 DEF AInv, AsksForOne
  <1>7. CASE HealthRefused(t)
    <2>1. /\ thread'[t] = Idle /\ \A u \in Threads \ {t} : thread'[u] = thread[u]
          /\ UNCHANGED <<table, raced, granted>> /\ Fault
      BY <1>1, <1>7 DEF HealthRefused, Return
    <2>2. LeasesAccounted'
      BY <1>0, <2>1, OneOrphaned
    <2> QED BY <1>0, <2>1, <2>2 DEF AInv, AsksForOne, Idle
  <1>8. CASE RollsBack(t) \/ Release(t)
    <2>1. /\ thread'[t] = Idle /\ \A u \in Threads \ {t} : thread'[u] = thread[u]
          /\ UNCHANGED <<table, raced>>
          /\ \/ granted' = granted \ {thread[t].lease} /\ UNCHANGED faults
             \/ Fault /\ UNCHANGED granted
      BY <1>1, <1>8 DEF RollsBack, Release, Return, SendRelease
    <2>2. LeasesAccounted'
      BY <1>0, <2>1, NoneOrphaned, OneOrphaned
    <2> QED BY <1>0, <2>1, <2>2 DEF AInv, AsksForOne, Idle
  <1>9. CASE Store(t)
    <2>1. PICK s \in Sessions : thread[t].session = {s}
      BY <1>9 DEF Store, At, IInv, OneSession
    <2>2. (CHOOSE x \in thread[t].session : TRUE) = s
      BY <2>1
    <2>3. /\ thread'[t] = Idle /\ \A u \in Threads \ {t} : thread'[u] = thread[u]
          /\ table' = [table EXCEPT ![s] = thread[t].lease]
          /\ raced' = raced \cup ({table[s]} \ {None})
          /\ UNCHANGED <<granted, faults>>
      BY <1>1, <1>9, <2>2 DEF Store, Return
    <2>4. /\ table'[s] = thread[t].lease
          /\ \A r \in Sessions : table'[r] = table[r] \/ table[r] \in raced' \cup {None}
      BY <1>0, <2>3 DEF TypeOK
    <2>5. LeasesAccounted'
      BY <1>0, <2>3, <2>4, NoneOrphaned
    <2> QED BY <1>0, <2>3, <2>5 DEF AInv, AsksForOne, Idle
  <1> QED BY <1>2, <1>3, <1>4, <1>5, <1>6, <1>7, <1>8, <1>9 DEF Acquire

LEMMA PopAccounted ==
  ASSUME IInv, IInv', AInv, NEW t \in Threads, NEW s \in Sessions, thread[t] = Idle, Pop(t, s),
         UNCHANGED <<granted, faults, raced>>
  PROVE  AInv'
  <1>0. TypeOK /\ TypeOK' /\ LeasesAccounted /\ AsksForOne
    BY DEF IInv, AInv
  <1>1. /\ thread'[t].at = "release" /\ thread'[t].lease = table[s]
        /\ \A u \in Threads \ {t} : thread'[u] = thread[u]
        /\ \A r \in Sessions : table'[r] = table[r] \/ table[r] = thread'[t].lease
    BY <1>0 DEF Pop, TypeOK
  <1>2. LeasesAccounted'
    BY <1>0, <1>1, NoneOrphaned DEF Idle
  <1> QED BY <1>0, <1>1, <1>2 DEF AInv, AsksForOne

LEMMA AccountedStep == IInv /\ IInv' /\ AInv /\ [Next]_vars => AInv'
  <1> SUFFICES ASSUME IInv, IInv', AInv, [Next]_vars PROVE AInv'
    OBVIOUS
  <1>0. TypeOK /\ TypeOK' /\ LeasesAccounted /\ AsksForOne
    BY DEF IInv, AInv
  <1>1. CASE \E t \in Threads : Acquire(t) \/ Release(t)
    BY <1>1, HookAccounted
  <1>2. ASSUME NEW t \in Threads, NEW s \in Sessions, Begin(t, s) PROVE AInv'
    <2>1. /\ thread[t].lease = None /\ thread'[t].lease = None
          /\ \A u \in Threads \ {t} : thread'[u] = thread[u]
          /\ UNCHANGED <<table, raced, granted, faults>>
      BY <1>0, <1>2 DEF Begin, TypeOK, Idle
    <2>2. LeasesAccounted'
      BY <1>0, <2>1, NoneOrphaned
    <2> QED BY <1>0, <2>1, <2>2 DEF AInv, AsksForOne
  <1>3. ASSUME NEW t \in Threads, NEW s \in Sessions, Finish(t, s) \/ ShutdownPops(t, s)
        PROVE  AInv'
    <2>1. thread[t] = Idle /\ UNCHANGED <<granted, faults, raced>>
      BY <1>3 DEF Finish, ShutdownPops
    <2>2. CASE Pop(t, s)
      BY <2>1, <2>2, PopAccounted
    <2>3. CASE UNCHANGED <<table, thread>>
      BY <1>0, <2>1, <2>3, FewerOrphans DEF AInv, AsksForOne
    <2> QED BY <1>3, <2>2, <2>3 DEF Finish, ShutdownPops
  <1>4. CASE \/ \E t \in Threads : Shutdown(t)
             \/ ShutdownLists \/ ShutdownEnds \/ UNCHANGED vars
    <2>1. UNCHANGED <<table, thread, granted, faults, raced>>
      BY <1>4 DEF Shutdown, ShutdownLists, ShutdownEnds, vars
    <2> QED BY <1>0, <2>1, FewerOrphans DEF AInv, AsksForOne
  <1>5. ASSUME NEW l \in Leases, Expire(l) PROVE AInv'
    <2>1. /\ UNCHANGED <<table, thread, raced>> /\ granted' \subseteq granted
          /\ faults' \in {faults, faults + 1}
      BY <1>5 DEF Expire, Fault
    <2> QED BY <1>0, <2>1, FewerOrphans DEF AInv, AsksForOne
  <1> QED BY <1>1, <1>2, <1>3, <1>4, <1>5 DEF Next

\* RuntimeLease.acquire and release: however hooks, ends of sessions and the
\* shutdown run side by side, the core holds no more leases that nobody has than
\* requests have failed, but for those another hook's lease replaced.
THEOREM LeasesAreAccounted == Spec => []LeasesAccounted
  <1>1. Init => AInv
    <2>1. ASSUME Init PROVE Orphans = {}
      BY <2>1 DEF Init, Orphans
    <2>2. Init => LeasesAccounted
      BY <2>1, FS_EmptySet DEF Init, LeasesAccounted, Orphans
    <2> QED BY <2>2 DEF Init, AInv, AsksForOne, Idle
  <1>2. AInv => LeasesAccounted
    BY DEF AInv
  <1> QED BY <1>1, <1>2, AccountedStep, Invariance, PTL DEF Spec

=============================================================================
