---------------------------- MODULE SpoolMigration ----------------------------
(***************************************************************************)
(* The migration of a spool to the current record format, run by every     *)
(* start of a Hermes runtime (runtime/spool_migration.py), the restarts    *)
(* that repeat it, and the delivery worker of another process that has the *)
(* same spool directory.                                                   *)
(*                                                                         *)
(* One step is one access to the file system.  Of a record the model keeps *)
(* what the migration decides by: whether it has the current format, an    *)
(* older one, or one it refuses, and whether it is marked retryable.       *)
(***************************************************************************)
EXTENDS Integers, FiniteSets

CONSTANTS
  Items,        \* item names, ordered as their file names sort
  Forms,        \* formats of the records there are at first
  MaxPasses     \* bound: migrations begun

ASSUME MigrationConstants ==
  /\ Items \subseteq Nat
  /\ Forms \subseteq {"old", "new", "bad"}
  /\ MaxPasses \in Nat

VARIABLES
  disk,       \* queue -> item -> file
  stage,      \* the queue the migration is at
  todo,       \* the rest of its listing
  doing,      \* the item it works at, and what it has read
  passes,     \* history: migrations begun
  complete,   \* history: an earlier one came to its end
  rewrites,   \* history: files this one has written
  worker,     \* what the other process has claimed, and is about to do
  delivered,  \* the core's state: items it has stored
  present     \* history: the items there were at first

vars == <<disk, stage, todo, doing, passes, complete, rewrites, worker,
          delivered, present>>

Queues == {"inflight", "pending", "ready", "failed"}
File   == [form : {"old", "new", "bad"}, retryable : BOOLEAN]
NoFile == [form |-> "none", retryable |-> FALSE]
Entry  == File \cup {NoFile}

Listing(q)  == {n \in Items : disk[q][n] # NoFile}
IsFirst(n)  == n \in todo /\ \A m \in todo : n <= m
Alone       == [step |-> "absent", item |-> 0, file |-> NoFile]
NotBusy     == [step |-> "none", item |-> 0, file |-> NoFile]
MigratorSteps == {"none", "write", "promote", "unlink"}
WorkerSteps   == {"absent", "none", "stamp", "submit", "put", "drop", "done"}

TypeOK ==
  /\ disk \in [Queues -> [Items -> Entry]]
  /\ stage \in Queues \cup {"idle", "done", "aborted"}
  /\ todo \subseteq Items
  /\ doing \in [step : MigratorSteps, item : Items \cup {0}, file : Entry]
  /\ passes \in 0 .. MaxPasses
  /\ complete \in BOOLEAN
  /\ rewrites \subseteq Items
  /\ worker \in [step : WorkerSteps, item : Items \cup {0}, file : Entry]
  /\ delivered \subseteq Items
  /\ present \subseteq Items
  /\ stage \in {"idle", "done", "aborted"} => doing = NotBusy /\ todo = {}

\* An older version may have marked failed records retryable; another process
\* delivers from the spool, or none does.  Together the two are left out: then
\* a record can be lost (see the README).
\* Every item is in one queue, or a worker was killed between the write and
\* the unlink of a move; only a failed one is marked, if it can be read.
Homes == {{}, {"inflight", "ready"}} \cup {{q} : q \in Queues}

Init ==
  /\ \E home \in [Items -> Homes],
        form \in [Items -> Forms], marked \in SUBSET Items :
       /\ \A n \in marked : home[n] = {"failed"} /\ form[n] # "bad"
       /\ disk = [q \in Queues |-> [n \in Items |->
            IF q \in home[n] THEN [form |-> form[n], retryable |-> n \in marked]
                             ELSE NoFile]]
       /\ worker \in {Alone} \cup (IF marked = {} THEN {NotBusy} ELSE {})
       /\ present = {n \in Items : home[n] # {}}
  /\ stage = "idle" /\ todo = {} /\ doing = NotBusy
  /\ passes = 0 /\ complete = FALSE /\ rewrites = {}
  /\ delivered = {}

-----------------------------------------------------------------------------
(* The migration. *)

Quiet    == UNCHANGED <<worker, delivered, present>>
File_(q, n, f) == disk' = [disk EXCEPT ![q][n] = f]

\* Defect: what is current is taken to be old.
AlwaysChanged(f) == TRUE

\* _migrate_record raises for a record it refuses, and returns a record that
\* is current as it is.
Refused(f)  == f.form \in {"bad", "none"}
Changed(f)  == f.form = "old"
Migrated(f) == [f EXCEPT !.form = IF Changed(f) THEN "new" ELSE @]

Begins ==
  /\ stage \in {"idle", "done", "aborted"}
  /\ passes < MaxPasses
  /\ passes' = passes + 1
  /\ stage' = "inflight"
  /\ todo' = Listing("inflight")
  /\ rewrites' = {}
  /\ complete' = (complete \/ stage = "done")
  /\ UNCHANGED <<disk, doing>> /\ Quiet

\* Defect: a queue is forgotten.
FollowingForgets == [inflight |-> "ready", pending |-> "ready",
                     ready |-> "failed", failed |-> "done"]

\* The next queue is listed; after the last one the runtime comes up.
Following == [inflight |-> "pending", pending |-> "ready", ready |-> "failed",
              failed |-> "done"]

NextQueue ==
  /\ stage \in Queues
  /\ doing = NotBusy
  /\ todo = {}
  /\ stage' = Following[stage]
  /\ todo' = IF stage' = "done" THEN {} ELSE Listing(stage')
  /\ UNCHANGED <<disk, doing, passes, complete, rewrites>> /\ Quiet

\* An unreadable record, one of an unknown format, or one that has gone since
\* the listing: the runtime does not come up.
Aborts ==
  /\ doing = NotBusy
  /\ \E n \in todo : IsFirst(n) /\ Refused(disk[stage][n])
  /\ stage' = "aborted"
  /\ todo' = {}
  /\ UNCHANGED <<disk, doing, passes, complete, rewrites>> /\ Quiet

\* What is to be done with a record that was read: an inflight one goes back
\* to ready in any case, a failed one if it is marked.
Reads(n) ==
  /\ doing = NotBusy
  /\ IsFirst(n) /\ ~Refused(disk[stage][n])
  /\ LET f    == disk[stage][n]
         next == CASE stage = "inflight" -> "promote"
                   [] stage # "inflight" /\ Changed(f) -> "write"
                   [] stage = "failed" /\ ~Changed(f) /\ f.retryable -> "promote"
                   [] OTHER -> "none"
     IN  doing' = IF next = "none" THEN NotBusy
                  ELSE [step |-> next, item |-> n, file |-> Migrated(f)]
  /\ todo' = todo \ {n}
  /\ UNCHANGED <<disk, stage, passes, complete, rewrites>> /\ Quiet

Wrote == rewrites' = rewrites \cup {doing.item}

\* The record is rewritten in place.
Rewrites ==
  /\ doing.step = "write"
  /\ File_(stage, doing.item, doing.file)
  /\ Wrote
  /\ doing' = IF stage = "failed" /\ doing.file.retryable
                THEN [doing EXCEPT !.step = "promote"] ELSE NotBusy
  /\ UNCHANGED <<stage, todo, passes, complete>> /\ Quiet

\* Defect: the record leaves its queue first.
PromotesLate ==
  /\ doing.step = "promote"
  /\ disk' = [disk EXCEPT ![stage][doing.item] = NoFile]
  /\ Wrote
  /\ doing' = [doing EXCEPT !.step = "unlink"]
  /\ UNCHANGED <<stage, todo, passes, complete>> /\ Quiet

\* To `ready', whatever is there and however full it is.
Promotes ==
  /\ doing.step = "promote"
  /\ File_("ready", doing.item, doing.file)
  /\ Wrote
  /\ doing' = [doing EXCEPT !.step = "unlink"]
  /\ UNCHANGED <<stage, todo, passes, complete>> /\ Quiet

Unlinks ==
  /\ doing.step = "unlink"
  /\ File_(stage, doing.item, NoFile)
  /\ doing' = NotBusy
  /\ UNCHANGED <<stage, todo, passes, complete, rewrites>> /\ Quiet

\* The process is killed; the next start begins again.
Crash ==
  /\ stage \in Queues
  /\ stage' = "idle" /\ todo' = {} /\ doing' = NotBusy
  /\ UNCHANGED <<disk, passes, complete, rewrites>> /\ Quiet

-----------------------------------------------------------------------------
(* The delivery worker of the other process. *)

Elsewhere == UNCHANGED <<stage, todo, doing, passes, complete, rewrites, present>>
Works(step) == worker' = [worker EXCEPT !.step = step]

Claims(n) ==
  /\ worker = NotBusy
  /\ disk["ready"][n] # NoFile
  /\ disk' = [disk EXCEPT !["ready"][n] = NoFile, !["inflight"][n] = disk["ready"][n]]
  /\ worker' = [step |-> "stamp", item |-> n, file |-> disk["ready"][n]]
  /\ UNCHANGED delivered /\ Elsewhere

Stamps ==
  /\ worker.step = "stamp"
  /\ File_("inflight", worker.item, worker.file)
  /\ Works("submit")
  /\ UNCHANGED delivered /\ Elsewhere

Delivers ==
  /\ worker.step = "submit" /\ worker.file.form = "new"
  /\ delivered' = delivered \cup {worker.item}
  /\ Works("done")
  /\ UNCHANGED disk /\ Elsewhere

\* A network error, or a conflict or a record that is not current.
Fails ==
  /\ worker.step = "submit"
  /\ \/ worker.file.form = "new" /\ File_("ready", worker.item, worker.file)
     \/ File_("failed", worker.item, worker.file)
  /\ Works("done")
  /\ UNCHANGED delivered /\ Elsewhere

Done ==
  /\ worker.step = "done"
  /\ File_("inflight", worker.item, NoFile)
  /\ worker' = NotBusy
  /\ UNCHANGED delivered /\ Elsewhere

Migrate == \/ NextQueue \/ Aborts \/ Rewrites \/ Promotes \/ Unlinks
           \/ \E n \in Items : Reads(n)

Next ==
  \/ Begins \/ Migrate \/ Crash
  \/ \E n \in Items : Claims(n)
  \/ Stamps \/ Delivers \/ Fails \/ Done

Spec == Init /\ [][Next]_vars

-----------------------------------------------------------------------------
(* Properties. *)

\* An item that was on disk stays there until the core has it, through kills
\* and restarts of the migration.
NothingLost ==
  \A n \in present \ delivered :
    \/ \E q \in Queues : disk[q][n] # NoFile
    \/ worker.item = n /\ worker.step \in {"stamp", "submit"}

\* A migration that came to its end, alone, leaves current records only, and none
\* claimed.
SpoolCurrent ==
  stage = "done" /\ worker = Alone =>
    /\ Listing("inflight") = {}
    /\ \A q \in Queues, n \in Items : disk[q][n].form # "old"

\* test_spool_migration: a second migration of a migrated spool does nothing.
SecondIsIdle == complete /\ worker = Alone => rewrites = {}
=============================================================================
