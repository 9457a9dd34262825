----------------------------- MODULE RoundQueue -----------------------------
(***************************************************************************)
(* What the delivery spool promises its callers, without files, claims or  *)
(* timers: a round once accepted is held until the core has stored it or   *)
(* it has been put in quarantine, and only then let go.                    *)
(***************************************************************************)
CONSTANT Rounds

VARIABLES
  held,         \* rounds the queue will still try to deliver
  delivered,    \* rounds the core has stored
  quarantined   \* rounds kept aside for a human, never to be retried

vars == <<held, delivered, quarantined>>

Init ==
  /\ held = {}
  /\ delivered = {}
  /\ quarantined = {}

\* A hook hands a completed round over (again, if it cannot tell that an
\* earlier hand-over succeeded).
Accept(r) ==
  /\ held' = held \cup {r}
  /\ UNCHANGED <<delivered, quarantined>>

\* The core stores a round the queue holds, once or more often.
Deliver(r) ==
  /\ r \in held
  /\ delivered' = delivered \cup {r}
  /\ UNCHANGED <<held, quarantined>>

\* The queue gives up on a round and keeps its whole content aside.
Quarantine(r) ==
  /\ r \in held
  /\ quarantined' = quarantined \cup {r}
  /\ UNCHANGED <<held, delivered>>

\* The queue lets go of a round whose content is safe elsewhere.
Forget(r) ==
  /\ r \in held
  /\ r \in delivered \cup quarantined
  /\ held' = held \ {r}
  /\ UNCHANGED <<delivered, quarantined>>

Next == \E r \in Rounds :
          Accept(r) \/ Deliver(r) \/ Quarantine(r) \/ Forget(r)

Spec == Init /\ [][Next]_vars
=============================================================================
