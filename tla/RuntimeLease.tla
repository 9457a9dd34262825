---------------------------- MODULE RuntimeLease ----------------------------
(***************************************************************************)
(* Leases that keep the core's runtime alive for the sessions of a Hermes  *)
(* process: RuntimeLease with its heartbeat and the bootstrap of the core  *)
(* (runtime/lease.py), and the table of leases of HermesPluginRuntime with *)
(* the hooks, the ends of sessions and the shutdown that use it.           *)
(*                                                                         *)
(* The table is not under the runtime's lock.  A request reaches the core  *)
(* or not, and its answer comes back or not; the core drops a lease that is*)
(* not renewed.                                                            *)
(***************************************************************************)
EXTENDS Integers, FiniteSets

CONSTANTS
  Sessions, Threads,
  Bootstrap,     \* a runtime_command is configured
  MaxLeases,     \* bound: leases the core grants
  MaxFaults      \* bound: requests that fail, of either side

ASSUME LeaseConstants ==
  Bootstrap \in BOOLEAN /\ {MaxLeases, MaxFaults} \subseteq Nat

VARIABLES
  table,      \* _runtime_leases: session -> lease or None
  thread,     \* thread -> what it does, for which session, with which lease
  beating,    \* leases with a heartbeat thread
  granted,    \* leases the core holds alive
  drawn,      \* leases granted so far
  released,   \* history: lease -> release requests sent for it
  stopped,    \* how far shutdown has come
  leaving,    \* the sessions whose leases shutdown is still to release
  faults,     \* history: requests that failed
  raced,      \* history: leases replaced in the table
  late        \* history: leases stored after shutdown had emptied the table

vars == <<table, thread, beating, granted, drawn, released, stopped,
          leaving, faults, raced, late>>

None    == 0
Leases  == 1 .. MaxLeases
Idle    == [at |-> "idle", session |-> {}, lease |-> None]
Steps   == {"idle", "acquire", "bootstrap", "health", "rollback", "store",
            "release"}

TypeOK ==
  /\ table \in [Sessions -> Leases \cup {None}]
  /\ thread \in [Threads -> [at : Steps, session : SUBSET Sessions,
                             lease : Leases \cup {None}]]
  /\ {beating, granted, raced, late} \subseteq SUBSET Leases
  /\ drawn \in 0 .. MaxLeases
  /\ released \in [Leases -> 0 .. 2]
  /\ stopped \in {"no", "stopping", "emptying", "yes"}
  /\ leaving \subseteq Sessions
  \* A hook keeps its lease to the end, and nothing afterwards.
  /\ \A t \in Threads : /\ thread[t].at = "idle" => thread[t] = Idle
                        /\ thread[t].at \in {"health", "rollback", "store", "release"}
                             => thread[t].lease # None
  /\ faults \in 0 .. MaxFaults

Init ==
  /\ table = [s \in Sessions |-> None]
  /\ thread = [t \in Threads |-> Idle]
  /\ beating = {} /\ granted = {} /\ raced = {} /\ late = {}
  /\ drawn = 0 /\ faults = 0
  /\ released = [l \in Leases |-> 0]
  /\ stopped = "no" /\ leaving = {}

-----------------------------------------------------------------------------
At(t, step)    == thread[t].at = step
Go(t, step)    == thread' = [thread EXCEPT ![t].at = step]

Return(t)      == thread' = [thread EXCEPT ![t] = Idle]
Fault          == faults < MaxFaults /\ faults' = faults + 1

\* The core grants the next lease.
Grant ==
  /\ drawn < MaxLeases
  /\ drawn' = drawn + 1
  /\ granted' = granted \cup {drawn + 1}

\* The core is asked to release a lease; the request may get lost.
SendRelease(l) ==
  /\ released' = [released EXCEPT ![l] = IF @ < 2 THEN @ + 1 ELSE @]
  /\ \/ granted' = granted \ {l} /\ UNCHANGED faults
     \/ Fault /\ UNCHANGED granted

\* A hook of a session without a lease: start() does nothing after shutdown,
\* and the hook goes on.
Begin(t, s) ==
  /\ thread[t] = Idle
  /\ table[s] = None
  /\ drawn < MaxLeases
  /\ thread' = [thread EXCEPT ![t] = [at |-> "acquire", session |-> {s},
                                      lease |-> None]]
  /\ UNCHANGED <<table, beating, granted, drawn, released, stopped,
                 leaving, faults, raced, late>>

Acquired(t) ==
  /\ At(t, "acquire")
  /\ Grant
  /\ thread' = [thread EXCEPT ![t].at = "store", ![t].lease = drawn + 1]
  /\ UNCHANGED <<table, beating, released, stopped, leaving, faults,
                 raced, late>>

\* No answer, or a 5xx; the core may have granted a lease all the same.
AcquireFails(t) ==
  /\ At(t, "acquire")
  /\ Fault
  /\ IF Bootstrap THEN Go(t, "bootstrap") ELSE Return(t)
  /\ Grant \/ UNCHANGED <<granted, drawn>>
  /\ UNCHANGED <<table, beating, released, stopped, leaving, raced,
                 late>>

\* Any other answer leaves the hook as an exception.
AcquireRefused(t) ==
  /\ At(t, "acquire")
  /\ Return(t)
  /\ UNCHANGED <<table, beating, granted, drawn, released, stopped,
                 leaving, faults, raced, late>>

-----------------------------------------------------------------------------
(* _bootstrap_runtime: a command that starts the core and takes a lease. *)

Boots(t) ==
  /\ At(t, "bootstrap")
  /\ Grant
  /\ \E next \in {"health", "store"} :   \* with and without a new endpoint
       thread' = [thread EXCEPT ![t].at = next, ![t].lease = drawn + 1]
  /\ UNCHANGED <<table, beating, released, stopped, leaving, faults, raced,
                 late>>

BootFails(t) ==
  /\ At(t, "bootstrap")
  /\ Return(t)
  /\ UNCHANGED <<table, beating, granted, drawn, released, stopped,
                 leaving, faults, raced, late>>

Healthy(t) ==
  /\ At(t, "health")
  /\ Go(t, "store")
  /\ UNCHANGED <<table, beating, granted, drawn, released, stopped,
                 leaving, faults, raced, late>>

\* Defect: no rollback.
UnreachableRaises(t) ==
  /\ At(t, "health")
  /\ Return(t)
  /\ UNCHANGED <<table, beating, granted, drawn, released, stopped,
                 leaving, faults, raced, late>>

\* Only network errors are polled through to the deadline and rolled back.
Unreachable(t) ==
  /\ At(t, "health")
  /\ Go(t, "rollback")
  /\ UNCHANGED <<table, beating, granted, drawn, released, stopped,
                 leaving, faults, raced, late>>

\* A 401 or an answer that is no JSON leaves _bootstrap_runtime at once.
HealthRefused(t) ==
  /\ At(t, "health")
  /\ Fault
  /\ Return(t)
  /\ UNCHANGED <<table, beating, granted, drawn, released, stopped,
                 leaving, raced, late>>

RollsBack(t) ==
  /\ At(t, "rollback")
  /\ Return(t)
  /\ SendRelease(thread[t].lease)
  /\ UNCHANGED <<table, beating, drawn, stopped, leaving, raced, late>>

-----------------------------------------------------------------------------
\* The heartbeat starts and the lease enters the table, over whatever another
\* hook of the session has put there since this one looked.
Store(t) ==
  /\ At(t, "store")
  /\ LET s == CHOOSE s \in thread[t].session : TRUE
         l == thread[t].lease
     IN  /\ table' = [table EXCEPT ![s] = l]
         /\ beating' = beating \cup {l}
         /\ raced' = raced \cup ({table[s]} \ {None})
         /\ late' = IF stopped \in {"emptying", "yes"} THEN late \cup {l} ELSE late
  /\ Return(t)
  /\ UNCHANGED <<granted, drawn, released, stopped, leaving, faults>>

\* Defect: the lease is released and stays in the table.
PopKept(t, s) ==
  /\ table[s] # None
  /\ thread' = [thread EXCEPT ![t] = [at |-> "release", session |-> {s},
                                      lease |-> table[s]]]
  /\ UNCHANGED table

\* _release_runtime_lease takes the lease out of the table first.
Pop(t, s) ==
  /\ table[s] # None
  /\ table' = [table EXCEPT ![s] = None]
  /\ thread' = [thread EXCEPT ![t] = [at |-> "release", session |-> {s},
                                      lease |-> table[s]]]

\* finish_session.
Finish(t, s) ==
  /\ thread[t] = Idle
  /\ Pop(t, s)
  /\ UNCHANGED <<beating, granted, drawn, released, stopped, leaving,
                 faults, raced, late>>

\* Defect: the heartbeat goes on.
ReleaseBeating(t) ==
  /\ At(t, "release")
  /\ Return(t)
  /\ SendRelease(thread[t].lease)
  /\ UNCHANGED <<table, beating, drawn, stopped, leaving, raced, late>>

\* release: the heartbeat is stopped; a request that fails is only logged.
Release(t) ==
  /\ At(t, "release")
  /\ beating' = beating \ {thread[t].lease}
  /\ Return(t)
  /\ SendRelease(thread[t].lease)
  /\ UNCHANGED <<table, drawn, stopped, leaving, raced, late>>

\* shutdown happens once: runtime_stopped is set under the lock, the loop and
\* the executor stop, then every lease that is in the table at that moment is
\* released.
Shutdown(t) ==
  /\ thread[t] = Idle
  /\ stopped = "no"
  /\ stopped' = "stopping"
  /\ UNCHANGED <<table, thread, beating, granted, drawn, released,
                 leaving, faults, raced, late>>

ShutdownLists ==
  /\ stopped = "stopping"
  /\ stopped' = "emptying"
  /\ leaving' = {s \in Sessions : table[s] # None}
  /\ UNCHANGED <<table, thread, beating, granted, drawn, released,
                 faults, raced, late>>

ShutdownPops(t, s) ==
  /\ s \in leaving
  /\ thread[t] = Idle
  /\ leaving' = leaving \ {s}
  /\ IF table[s] = None THEN UNCHANGED <<table, thread>> ELSE Pop(t, s)
  /\ UNCHANGED <<beating, granted, drawn, released, stopped, faults,
                 raced, late>>

ShutdownEnds ==
  /\ stopped = "emptying"
  /\ leaving = {}
  /\ stopped' = "yes"
  /\ UNCHANGED <<table, thread, beating, granted, drawn, released,
                 leaving, faults, raced, late>>

\* The core drops a lease: nobody renews it, or the renewals do not arrive.
Expire(l) ==
  /\ l \in granted
  /\ IF l \in beating THEN Fault ELSE UNCHANGED faults
  /\ granted' = granted \ {l}
  /\ UNCHANGED <<table, thread, beating, drawn, released, stopped,
                 leaving, raced, late>>

Acquire(t) ==
  \/ Acquired(t) \/ AcquireFails(t) \/ AcquireRefused(t) \/ Boots(t)
  \/ BootFails(t) \/ Healthy(t) \/ Unreachable(t) \/ HealthRefused(t)
  \/ RollsBack(t) \/ Store(t)

Next ==
  \/ \E t \in Threads :
       \/ Acquire(t) \/ Release(t) \/ Shutdown(t)
       \/ \E s \in Sessions : Begin(t, s) \/ Finish(t, s) \/ ShutdownPops(t, s)
  \/ ShutdownLists \/ ShutdownEnds
  \/ \E l \in Leases : Expire(l)

Spec == Init /\ [][Next]_vars

\* A hook that waits for an answer gets one or a timeout, and a lease that
\* nobody renews runs out.
FairSpec ==
  /\ Spec
  /\ \A t \in Threads : WF_vars(Acquire(t)) /\ WF_vars(Release(t))
  /\ \A l \in Leases : WF_vars(Expire(l) /\ l \notin beating)

-----------------------------------------------------------------------------
(* Properties. *)

InTable(l) == \E s \in Sessions : table[s] = l
InHand(l)  == \E t \in Threads : thread[t].lease = l

\* A heartbeat renews a lease somebody can still release: only two hooks that
\* took a lease for one session at the same time leave one behind.
BeatsAreOwned == \A l \in beating : InTable(l) \/ InHand(l) \/ l \in raced

\* A lease is released at most once, whether its session ends twice, or ends
\* while the runtime shuts down.
ReleasedOnce == \A l \in Leases : released[l] <= 1

\* Every lease the core holds alive that no hook and no session has any more
\* comes from a request that failed, or from such a race.
LeasesAccounted ==
  Cardinality({l \in granted \ raced : ~InTable(l) /\ ~InHand(l)}) <= faults

\* When the runtime has shut down, every lease comes to its end: it is
\* released, or runs out because nothing renews it.
LeasesEnd ==
  \A l \in Leases : (stopped = "yes" /\ l \in granted)
                      ~> (l \notin granted \/ l \in raced \cup late)
=============================================================================
