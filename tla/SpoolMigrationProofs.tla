------------------------- MODULE SpoolMigrationProofs -------------------------
(***************************************************************************)
(* Theorems about SpoolMigration for any items, any number of passes and   *)
(* kills, alone or beside a delivery worker.                               *)
(***************************************************************************)
EXTENDS SpoolMigration, TLAPS

\* A file is there when it has a format.
WellFormed(f) == {"form", "retryable"} \subseteq DOMAIN f /\ (f = NoFile <=> f.form = "none")
There(q, n)   == disk[q][n].form # "none"
Accompanied   == worker.step # "absent"

DiskShaped ==
  /\ DOMAIN disk = Queues
  /\ \A q \in Queues :
       /\ DOMAIN disk[q] = Items
       /\ \A n \in Items : WellFormed(disk[q][n])
  /\ todo \subseteq Items /\ present \subseteq Items
  /\ stage \in Queues \cup {"idle", "done", "aborted"}
  /\ todo # {} => stage \in Queues

\* The migration takes a record from its queue only where it promotes, and
\* from `failed' only if it is marked.
DoingShaped ==
  /\ {"step", "item", "file"} \subseteq DOMAIN doing
  /\ doing.step \in MigratorSteps
  /\ doing.step # "none" =>
       /\ stage \in Queues /\ doing.item \in Items
       /\ WellFormed(doing.file) /\ doing.file.form \notin {"none", "old"}
  /\ doing.step = "write" => stage # "inflight"
  /\ doing.step \in {"promote", "unlink"} =>
       stage = "inflight" \/ (stage = "failed" /\ doing.file.retryable)

WorkerShaped ==
  /\ {"step", "item", "file"} \subseteq DOMAIN worker
  /\ worker.step \in WorkerSteps
  /\ worker.step \in {"stamp", "submit", "done"} => worker.item \in Items
  /\ worker.step \in {"stamp", "submit"} =>
       WellFormed(worker.file) /\ worker.file.form # "none"

\* Nothing is marked beside another process.
Unmarked ==
  Accompanied =>
    /\ \A q \in Queues, n \in Items : ~disk[q][n].retryable
    /\ doing.step # "none" => ~doing.file.retryable
    /\ worker.step \in {"stamp", "submit"} => ~worker.file.retryable

\* What is about to leave a queue has come to another, or to the core, or is
\* with the worker.
Kept(n) == n \in delivered \/ There("ready", n) \/ There("failed", n)
Held(n) == worker.step \in {"stamp", "submit"} /\ worker.item = n
Landed ==
  /\ doing.step = "unlink" /\ stage = "inflight" => Kept(doing.item) \/ Held(doing.item)
  /\ doing.step = "unlink" /\ stage = "failed" => There("ready", doing.item)
  /\ worker.step = "done" => Kept(worker.item)

\* Alone, a queue that was gone through has nothing left to do; nor has any
\* after a migration came to its end.
Clean(q, n) ==
  /\ disk[q][n].form # "old"
  /\ q = "inflight" => disk[q][n].form = "none"
  /\ q = "failed" => ~disk[q][n].retryable

Behind ==
  CASE stage = "pending" -> {"inflight"}
    [] stage = "ready"   -> {"inflight", "pending"}
    [] stage = "failed"  -> {"inflight", "pending", "ready"}
    [] stage = "done"    -> Queues
    [] OTHER             -> {}

Progress ==
  ~Accompanied =>
    /\ \A q \in Behind, n \in Items : Clean(q, n)
    /\ stage \in Queues =>
         \A n \in Items \ todo :
           Clean(stage, n) \/ (doing.step # "none" /\ doing.item = n)
    /\ complete =>
         /\ \A q \in Queues, n \in Items : Clean(q, n)
         /\ rewrites = {} /\ doing.step = "none"

IInv == /\ DiskShaped /\ DoingShaped /\ WorkerShaped /\ Unmarked /\ Landed /\ Progress
        /\ NothingLost

-----------------------------------------------------------------------------

LEMMA NoFileFormed == WellFormed(NoFile) /\ NoFile.form = "none" /\ ~NoFile.retryable
  BY DEF WellFormed, NoFile

LEMMA Resting ==
  /\ {"step", "item", "file"} \subseteq DOMAIN NotBusy /\ NotBusy.step = "none"
  /\ {"step", "item", "file"} \subseteq DOMAIN Alone /\ Alone.step = "absent"
  BY DEF NotBusy, Alone

LEMMA InitInv == Init => IInv
  <1> SUFFICES ASSUME Init PROVE IInv
    OBVIOUS
  <1>1. PICK home \in [Items -> Homes], form \in [Items -> Forms], marked \in SUBSET Items :
          /\ \A n \in marked : home[n] = {"failed"} /\ form[n] # "bad"
          /\ disk = [q \in Queues |-> [n \in Items |->
               IF q \in home[n] THEN [form |-> form[n], retryable |-> n \in marked]
                                ELSE NoFile]]
          /\ worker \in {Alone} \cup (IF marked = {} THEN {NotBusy} ELSE {})
          /\ present = {n \in Items : home[n] # {}}
    BY DEF Init
  <1>2. ASSUME NEW q \in Queues, NEW n \in Items
        PROVE  /\ WellFormed(disk[q][n])
               /\ q \in home[n] => There(q, n)
               /\ marked = {} => ~disk[q][n].retryable
    <2>1. CASE q \in home[n]
      <3>1. disk[q][n] = [form |-> form[n], retryable |-> n \in marked]
        BY <1>1, <2>1
      <3>2. form[n] # "none"
        BY MigrationConstants DEF MigrationConstants
      <3>3. PICK b, f : b = (n \in marked) /\ f = disk[q][n]
        OBVIOUS
      <3>4. /\ {"form", "retryable"} \subseteq DOMAIN f /\ f.form # "none"
            /\ marked = {} => ~f.retryable
        <4>1. f = [form |-> form[n], retryable |-> b]
          BY <3>1, <3>3
        <4>2. marked = {} => ~b
          BY <3>3
        <4> QED BY <3>2, <4>1, <4>2
      <3>5. f # NoFile
        BY <3>4, NoFileFormed
      <3> QED BY <3>3, <3>4, <3>5 DEF WellFormed, There
    <2>2. CASE q \notin home[n]
      BY <1>1, <2>2, NoFileFormed
    <2> QED BY <2>1, <2>2
  <1>3. DiskShaped
    BY <1>1, <1>2 DEF Init, DiskShaped
  <1>4. DoingShaped
    BY Resting DEF Init, DoingShaped, MigratorSteps
  <1>5. WorkerShaped /\ worker.step \in {"absent", "none"}
    BY <1>1, Resting DEF WorkerShaped, WorkerSteps
  <1>6. Unmarked
    BY <1>1, <1>2, <1>5, Resting DEF Init, Unmarked, Accompanied
  <1>7. Landed
    BY <1>5, Resting DEF Init, Landed
  <1>8. Progress
    BY DEF Init, Progress, Behind, Queues
  <1>9. NothingLost
    <2>1. ASSUME NEW n \in present PROVE \E q \in Queues : disk[q][n] # NoFile
      <3>1. n \in Items /\ home[n] # {} /\ home[n] \in Homes
        BY <1>1
      <3>2. PICK q \in Queues : q \in home[n]
        BY <3>1 DEF Homes, Queues
      <3> QED BY <1>2, <3>1, <3>2 DEF WellFormed, There
    <2> QED BY <2>1 DEF NothingLost
  <1> QED BY <1>3, <1>4, <1>5, <1>6, <1>7, <1>8, <1>9 DEF IInv

-----------------------------------------------------------------------------
(* One file changes. *)

LEMMA Puts ==
  ASSUME DiskShaped, NEW q \in Queues, NEW n \in Items, NEW f, WellFormed(f),
         File_(q, n, f)
  PROVE  /\ DOMAIN disk' = Queues
         /\ \A p \in Queues : DOMAIN disk'[p] = Items
         /\ \A p \in Queues, m \in Items :
              disk'[p][m] = IF p = q /\ m = n THEN f ELSE disk[p][m]
         /\ \A p \in Queues, m \in Items : WellFormed(disk'[p][m])
  <1>1. DOMAIN disk = Queues /\ \A p \in Queues : DOMAIN disk[p] = Items
    BY DEF DiskShaped
  <1>2. /\ DOMAIN disk' = Queues
        /\ \A p \in Queues : DOMAIN disk'[p] = Items
        /\ \A p \in Queues, m \in Items :
             disk'[p][m] = IF p = q /\ m = n THEN f ELSE disk[p][m]
    BY <1>1 DEF File_
  <1> QED BY <1>2 DEF DiskShaped

\* Nothing changes but the migration's memory.
LEMMA Looks ==
  ASSUME IInv, UNCHANGED disk, Quiet, DoingShaped', todo' \subseteq Items,
         stage' \in Queues \cup {"idle", "done", "aborted"}, todo' # {} => stage' \in Queues,
         Accompanied /\ doing'.step # "none" => ~doing'.file.retryable,
         doing'.step # "unlink", Progress'
  PROVE  IInv'
  <1> USE DEF IInv, Quiet
  <1>1. DiskShaped'
    BY DEF DiskShaped
  <1>2. WorkerShaped' /\ Unmarked'
    BY DEF WorkerShaped, Unmarked, Accompanied
  <1>3. Landed'
    BY DEF Landed, Kept, There
  <1>4. NothingLost'
    BY DEF NothingLost
  <1> QED BY <1>1, <1>2, <1>3, <1>4

LEMMA BeginsStep == IInv /\ Begins => IInv'
  <1> SUFFICES ASSUME IInv, Begins PROVE IInv'
    OBVIOUS
  <1> USE DEF IInv, Begins
  <1>1. doing.step = "none" /\ stage' = "inflight" /\ "inflight" \in Queues
    BY DEF DoingShaped, Queues
  <1>2. DoingShaped'
    BY <1>1 DEF DoingShaped
  <1>3. todo' \subseteq Items
    BY DEF Listing
  <1>4. Progress'
    <2> SUFFICES ASSUME ~Accompanied PROVE Progress'
      BY DEF Progress, Accompanied, Quiet
    <2>1. Behind' = {}
      BY <1>1 DEF Behind
    <2>2. ASSUME NEW n \in Items, n \notin todo' PROVE Clean("inflight", n)'
      <3>1. disk[stage'][n] = NoFile
        BY <1>1, <2>2 DEF Listing
      <3> QED BY <1>1, <3>1, NoFileFormed DEF Clean
    <2>3. ASSUME complete' PROVE \A q \in Queues, n \in Items : Clean(q, n)'
      <3>1. CASE complete
        BY <3>1 DEF Progress, Clean
      <3>2. CASE stage = "done"
        BY <3>2 DEF Progress, Behind, Clean
      <3> QED BY <2>3, <3>1, <3>2
    <2>4. \A n \in Items \ todo' : Clean(stage, n)'
      BY <1>1, <2>2
    <2>5. rewrites' = {} /\ doing'.step = "none"
      BY <1>1
    <2> HIDE DEF IInv, Begins
    <2> QED BY <2>1, <2>3, <2>4, <2>5 DEF Progress
  <1> QED BY <1>1, <1>2, <1>3, <1>4, Looks

LEMMA NextQueueStep == IInv /\ NextQueue => IInv'
  <1> SUFFICES ASSUME IInv, NextQueue PROVE IInv'
    OBVIOUS
  <1> USE DEF IInv, NextQueue
  <1>1. doing.step = "none"
    BY Resting
  <1>2. stage' \in Queues \cup {"done"}
    BY DEF Following, Queues
  <1>3. todo' \subseteq Items
    BY DEF Listing
  <1>4. DoingShaped'
    BY <1>1 DEF DoingShaped
  <1>5. Progress'
    <2> SUFFICES ASSUME ~Accompanied PROVE Progress'
      BY DEF Progress, Accompanied, Quiet
    <2>1. \A n \in Items : Clean(stage, n)
      BY <1>1 DEF Progress
    <2>2. \A q \in Behind' : q \in Behind \/ q = stage
      BY DEF Behind, Following, Queues
    <2>3. \A q \in Behind', n \in Items : Clean(q, n)'
      BY <2>1, <2>2 DEF Progress, Clean
    <2>4. ASSUME stage' \in Queues, NEW n \in Items, n \notin todo' PROVE Clean(stage, n)'
      <3>1. stage' # "done" /\ stage' # "inflight"
        BY <2>4 DEF Queues, Following
      <3>2. disk[stage'][n] = NoFile
        BY <2>4, <3>1 DEF Listing
      <3> QED BY <3>1, <3>2, NoFileFormed DEF Clean
    <2>5. complete' => \A q \in Queues, n \in Items : Clean(q, n)'
      BY DEF Progress, Clean
    <2> QED BY <1>1, <2>3, <2>4, <2>5 DEF Progress
  <1> QED BY <1>1, <1>2, <1>3, <1>4, <1>5, Looks

\* The migration stops where it is: killed, or before a record it refuses.
LEMMA Halts ==
  ASSUME IInv, UNCHANGED <<disk, complete, rewrites>>, Quiet,
         stage' \in {"idle", "aborted"}, todo' = {}, doing' = NotBusy
  PROVE  IInv'
  <1>1. DoingShaped'
    BY Resting DEF DoingShaped, MigratorSteps
  <1>2. Progress'
    <2>1. Behind' = {} /\ stage' \notin Queues
      BY DEF Behind, Queues
    <2> QED BY <2>1, Resting DEF IInv, Progress, Clean, Accompanied, Quiet
  <1> QED BY <1>1, <1>2, Looks, Resting

LEMMA AbortsStep == IInv /\ Aborts => IInv'
  <1> SUFFICES ASSUME IInv, Aborts PROVE IInv'
    OBVIOUS
  <1> QED BY Halts DEF Aborts

LEMMA CrashStep == IInv /\ Crash => IInv'
  BY Halts DEF Crash

LEMMA MigratedFile ==
  ASSUME NEW f, WellFormed(f), ~Refused(f)
  PROVE  /\ WellFormed(Migrated(f)) /\ Migrated(f).form \notin {"none", "old"}
         /\ Migrated(f).retryable = f.retryable
  <1>1. {"form", "retryable"} \subseteq DOMAIN f /\ f.form # "none"
    BY DEF WellFormed, Refused
  <1>2. PICK g, form : /\ g = Migrated(f) /\ g = [f EXCEPT !.form = form]
                       /\ form \notin {"none", "old"}
    <2>1. PICK form : form = IF Changed(f) THEN "new" ELSE f.form
      OBVIOUS
    <2>2. Migrated(f) = [f EXCEPT !.form = form]
      BY <2>1 DEF Migrated
    <2>3. form \notin {"none", "old"}
      BY <1>1, <2>1 DEF Changed
    <2> QED BY <2>2, <2>3
  <1>3. DOMAIN g = DOMAIN f /\ g.form = form /\ g.retryable = f.retryable
    BY <1>1, <1>2
  <1>4. g # NoFile
    BY <1>2, <1>3, NoFileFormed
  <1> QED BY <1>1, <1>2, <1>3, <1>4 DEF WellFormed

LEMMA ReadsStep == IInv /\ (\E n \in Items : Reads(n)) => IInv'
  <1> SUFFICES ASSUME IInv, NEW n \in Items, Reads(n) PROVE IInv'
    OBVIOUS
  <1>1. /\ UNCHANGED <<disk, stage, complete, rewrites>> /\ Quiet
        /\ todo' = todo \ {n} /\ doing.step = "none"
    BY Resting DEF Reads
  <1>2. n \in todo /\ stage \in Queues
    BY DEF Reads, IsFirst, IInv, DiskShaped
  <1>3. PICK f : f = disk[stage][n] /\ WellFormed(f) /\ ~Refused(f)
    BY <1>2 DEF Reads, IInv, DiskShaped
  <1>4. PICK g : /\ g = Migrated(f) /\ WellFormed(g) /\ g.form \notin {"none", "old"}
                 /\ g.retryable = f.retryable
    BY <1>3, MigratedFile
  <1>5. \/ /\ doing' = NotBusy
           /\ stage # "inflight" /\ ~Changed(f) /\ ~(stage = "failed" /\ f.retryable)
        \/ /\ doing' = [step |-> "promote", item |-> n, file |-> g]
           /\ stage = "inflight" \/ (stage = "failed" /\ f.retryable)
        \/ /\ doing' = [step |-> "write", item |-> n, file |-> g]
           /\ stage # "inflight" /\ Changed(f)
    <2>1. PICK next :
            /\ next = CASE stage = "inflight" -> "promote"
                        [] stage # "inflight" /\ Changed(f) -> "write"
                        [] stage = "failed" /\ ~Changed(f) /\ f.retryable -> "promote"
                        [] OTHER -> "none"
            /\ doing' = IF next = "none" THEN NotBusy
                        ELSE [step |-> next, item |-> n, file |-> g]
      BY <1>3, <1>4 DEF Reads
    <2>2. CASE stage = "inflight"
      BY <2>1, <2>2
    <2>3. CASE stage # "inflight" /\ Changed(f)
      BY <2>1, <2>3
    <2>4. CASE stage # "inflight" /\ ~Changed(f) /\ stage = "failed" /\ f.retryable
      BY <2>1, <2>4
    <2>5. CASE stage # "inflight" /\ ~Changed(f) /\ ~(stage = "failed" /\ f.retryable)
      BY <2>1, <2>5
    <2> QED BY <2>2, <2>3, <2>4, <2>5
  <1>6. /\ {"step", "item", "file"} \subseteq DOMAIN doing'
        /\ doing'.step \in {"none", "promote", "write"}
        /\ doing'.step # "none" => doing'.item = n /\ doing'.file = g
        /\ doing'.step = "write" => stage # "inflight"
        /\ doing'.step = "promote" =>
             stage = "inflight" \/ (stage = "failed" /\ f.retryable)
    BY <1>5, Resting
  <1>7. DoingShaped'
    BY <1>1, <1>2, <1>4, <1>6 DEF DoingShaped, MigratorSteps
  <1>8. Accompanied /\ doing'.step # "none" => ~doing'.file.retryable
    BY <1>2, <1>3, <1>4, <1>6 DEF IInv, Unmarked
  <1>9. Progress'
    <2> SUFFICES ASSUME ~Accompanied PROVE Progress'
      BY <1>1 DEF Progress, Accompanied, Quiet
    <2>1. doing'.step = "none" => Clean(stage, n)
      BY <1>3, <1>5 DEF Clean, Changed
    <2>2. \A m \in Items \ todo' :
            Clean(stage, m)' \/ (doing'.step # "none" /\ doing'.item = m)
      <3>1. ASSUME NEW m \in Items, m # n, m \notin todo PROVE Clean(stage, m)
        BY <1>1, <1>2, <3>1 DEF IInv, Progress
      <3> QED BY <1>1, <1>6, <2>1, <3>1 DEF Clean
    <2>3. ASSUME complete'
          PROVE  /\ \A q \in Queues, m \in Items : Clean(q, m)'
                 /\ rewrites' = {} /\ doing'.step = "none"
      <3>1. \A q \in Queues, m \in Items : Clean(q, m)
        BY <1>1, <2>3 DEF IInv, Progress
      <3>2. Clean(stage, n)
        BY <1>2, <3>1
      <3>3. doing' = NotBusy
        BY <1>3, <1>5, <3>2 DEF Clean, Changed, Refused
      <3> QED BY <1>1, <2>3, <3>1, <3>3, Resting DEF IInv, Progress, Clean
    <2>4. \A q \in Behind', m \in Items : Clean(q, m)'
      BY <1>1 DEF IInv, Progress, Behind, Clean
    <2> QED BY <2>2, <2>3, <2>4 DEF Progress
  <1>10. todo' \subseteq Items
    BY <1>1 DEF IInv, DiskShaped
  <1>11. stage' \in Queues \cup {"idle", "done", "aborted"} /\ stage' \in Queues
    BY <1>1, <1>2
  <1>12. UNCHANGED disk /\ Quiet /\ doing'.step # "unlink"
    BY <1>1, <1>6
  <1> QED BY <1>7, <1>8, <1>9, <1>10, <1>11, <1>12, Looks

\* The migration writes a record: nothing that was there goes.
LEMMA Writes ==
  ASSUME IInv, NEW q \in Queues, NEW n \in Items, NEW f, WellFormed(f),
         f.form # "none", Accompanied => ~f.retryable, File_(q, n, f), Quiet,
         UNCHANGED <<stage, todo>>, DoingShaped', Progress',
         Accompanied /\ doing'.step # "none" => ~doing'.file.retryable,
         doing'.step = "unlink" => q = "ready" /\ n = doing'.item
  PROVE  IInv'
  <1>1. /\ DOMAIN disk' = Queues
        /\ \A p \in Queues : DOMAIN disk'[p] = Items
        /\ \A p \in Queues, m \in Items :
             disk'[p][m] = IF p = q /\ m = n THEN f ELSE disk[p][m]
        /\ \A p \in Queues, m \in Items : WellFormed(disk'[p][m])
    BY Puts DEF IInv
  <1>2. DiskShaped'
    BY <1>1 DEF IInv, DiskShaped, Quiet
  <1>3. WorkerShaped' /\ Unmarked'
    BY <1>1 DEF IInv, WorkerShaped, Unmarked, Accompanied, Quiet
  <1>4. /\ \A p \in Queues, m \in Items : There(p, m) => There(p, m)'
        /\ There(q, n)'
    BY <1>1 DEF There
  <1>5. Landed'
    <2>1. {"ready", "failed"} \subseteq Queues
      BY DEF Queues
    <2>2. \A m \in Items : Kept(m) => Kept(m)'
      BY <1>4, <2>1 DEF Kept, Quiet
    <2>3. doing'.step = "unlink" => There("ready", n)' /\ Kept(n)'
      BY <1>4 DEF Kept
    <2> QED BY <2>2, <2>3 DEF IInv, Landed, WorkerShaped, Quiet
  <1>6. NothingLost'
    <2>1. \A p \in Queues, m \in Items : disk[p][m] # NoFile => disk'[p][m] # NoFile
      BY <1>1, <1>4 DEF WellFormed, There, IInv, DiskShaped
    <2> QED BY <2>1 DEF IInv, NothingLost, DiskShaped, Quiet
  <1> QED BY <1>2, <1>3, <1>5, <1>6 DEF IInv

\* What the record the migration works at means for the queues.
LEMMA Doing ==
  ASSUME IInv, doing.step # "none"
  PROVE  /\ stage \in Queues /\ doing.item \in Items /\ WellFormed(doing.file)
         /\ doing.file.form \notin {"none", "old"}
         /\ Accompanied => ~doing.file.retryable
         /\ {"step", "item", "file"} \subseteq DOMAIN doing
         /\ ~(complete /\ ~Accompanied) /\ stage \notin Behind
  BY DEF IInv, DoingShaped, Unmarked, Progress, Behind, Queues

LEMMA RewritesStep == IInv /\ Rewrites => IInv'
  <1> SUFFICES ASSUME IInv, Rewrites PROVE IInv'
    OBVIOUS
  <1>1. /\ doing.step = "write" /\ File_(stage, doing.item, doing.file)
        /\ UNCHANGED <<stage, todo, complete>> /\ Quiet
    BY DEF Rewrites
  <1>2. PICK g : g = [doing EXCEPT !.step = "promote"]
    OBVIOUS
  <1>3. /\ {"step", "item", "file"} \subseteq DOMAIN g /\ g.step = "promote"
        /\ g.item = doing.item /\ g.file = doing.file
    BY <1>1, <1>2, Doing
  <1>4. \/ doing' = NotBusy /\ ~(stage = "failed" /\ doing.file.retryable)
        \/ doing' = g /\ stage = "failed" /\ doing.file.retryable
    BY <1>2 DEF Rewrites
  <1>5. DoingShaped'
    BY <1>1, <1>3, <1>4, Doing, Resting DEF DoingShaped, MigratorSteps
  <1>6. Progress'
    <2> SUFFICES ASSUME ~Accompanied PROVE Progress'
      BY <1>1 DEF Progress, Accompanied, Quiet
    <2>1. \A p \in Queues, m \in Items :
            disk'[p][m] = IF p = stage /\ m = doing.item THEN doing.file ELSE disk[p][m]
      BY <1>1, Doing, Puts DEF IInv
    <2>2. \A q \in Behind', m \in Items : Clean(q, m)'
      <3>1. \A q \in Behind', m \in Items : q \in Queues /\ q # stage /\ Clean(q, m)
        BY <1>1, Doing DEF IInv, Progress, Behind, Queues
      <3> QED BY <2>1, <3>1 DEF Clean
    <2>3. \A m \in Items \ todo' :
            Clean(stage, m)' \/ (doing'.step # "none" /\ doing'.item = m)
      <3>1. ASSUME NEW m \in Items, m \notin todo, m # doing.item PROVE Clean(stage, m)'
        <4>1. Clean(stage, m)
          BY <1>1, <3>1, Doing DEF IInv, Progress
        <4> QED BY <1>1, <2>1, <3>1, <4>1, Doing DEF Clean
      <3>2. PICK n : n = doing.item
        OBVIOUS
      <3>3. Clean(stage, n)' \/ (doing'.step # "none" /\ doing'.item = n)
        <4>1. stage # "inflight"
          BY <1>1 DEF IInv, DoingShaped
        <4>2. disk'[stage][n] = doing.file
          BY <1>1, <2>1, <3>2, Doing
        <4>3. CASE doing' = NotBusy /\ ~(stage = "failed" /\ doing.file.retryable)
          BY <1>1, <4>1, <4>2, <4>3, Doing DEF Clean
        <4>4. CASE doing' = g
          BY <1>3, <3>2, <4>4
        <4> QED BY <1>4, <4>3, <4>4
      <3> QED BY <1>1, <3>1, <3>2, <3>3
    <2>4. ~complete'
      BY <1>1, Doing
    <2> QED BY <1>1, <2>2, <2>3, <2>4 DEF Progress
  <1>7. doing'.step # "none" => doing'.file = doing.file
    BY <1>3, <1>4, Resting
  <1>8. doing'.step # "unlink"
    BY <1>3, <1>4, Resting
  <1>9. PICK q, n, f : q = stage /\ n = doing.item /\ f = doing.file
    OBVIOUS
  <1>10. /\ q \in Queues /\ n \in Items /\ WellFormed(f) /\ f.form # "none"
         /\ Accompanied => ~f.retryable /\ File_(q, n, f)
         /\ Accompanied /\ doing'.step # "none" => ~doing'.file.retryable
    BY <1>1, <1>7, <1>9, Doing
  <1>11. File_(q, n, f)
    BY <1>1, <1>9
  <1> QED BY <1>1, <1>5, <1>6, <1>8, <1>10, <1>11, Writes

LEMMA PromotesStep == IInv /\ Promotes => IInv'
  <1> SUFFICES ASSUME IInv, Promotes PROVE IInv'
    OBVIOUS
  <1>1. /\ doing.step = "promote" /\ File_("ready", doing.item, doing.file)
        /\ UNCHANGED <<stage, todo, complete>> /\ Quiet
        /\ doing' = [doing EXCEPT !.step = "unlink"] /\ "ready" \in Queues
    BY DEF Promotes, Queues
  <1>2. /\ {"step", "item", "file"} \subseteq DOMAIN doing' /\ doing'.step = "unlink"
        /\ doing'.item = doing.item /\ doing'.file = doing.file
    BY <1>1, Doing
  <1>3. stage = "inflight" \/ (stage = "failed" /\ doing.file.retryable)
    BY <1>1 DEF IInv, DoingShaped
  <1>4. DoingShaped'
    BY <1>1, <1>2, <1>3, Doing DEF DoingShaped, MigratorSteps
  <1>5. Progress'
    <2> SUFFICES ASSUME ~Accompanied PROVE Progress'
      BY <1>1 DEF Progress, Accompanied, Quiet
    <2>1. \A p \in Queues, m \in Items :
            disk'[p][m] = IF p = "ready" /\ m = doing.item THEN doing.file ELSE disk[p][m]
      BY <1>1, Doing, Puts DEF IInv
    <2>2. \A q \in Behind', m \in Items : Clean(q, m)'
      <3>1. \A q \in Behind', m \in Items : q \in Queues /\ Clean(q, m)
        BY <1>1 DEF IInv, Progress, Behind, Queues
      <3> QED BY <1>1, <2>1, <3>1, Doing DEF Clean
    <2>3. \A m \in Items \ todo' :
            Clean(stage, m)' \/ (doing'.step # "none" /\ doing'.item = m)
      <3>1. ASSUME NEW m \in Items, m \notin todo, m # doing.item PROVE Clean(stage, m)'
        <4>1. Clean(stage, m)
          BY <1>1, <3>1, Doing DEF IInv, Progress
        <4> QED BY <1>1, <2>1, <3>1, <4>1, Doing DEF Clean
      <3> QED BY <1>1, <1>2, <3>1
    <2>4. ~complete'
      BY <1>1, Doing
    <2> QED BY <1>1, <2>2, <2>3, <2>4 DEF Progress
  <1>6. PICK n, f : n = doing.item /\ f = doing.file
    OBVIOUS
  <1>7. /\ n \in Items /\ WellFormed(f) /\ f.form # "none"
        /\ Accompanied => ~f.retryable
        /\ Accompanied /\ doing'.step # "none" => ~doing'.file.retryable
        /\ n = doing'.item
    BY <1>1, <1>2, <1>6, Doing
  <1>8. File_("ready", n, f)
    BY <1>1, <1>6
  <1> QED BY <1>1, <1>4, <1>5, <1>7, <1>8, Writes

\* The copy that is removed is not the last one.
LEMMA UnlinksStep == IInv /\ Unlinks => IInv'
  <1> SUFFICES ASSUME IInv, Unlinks PROVE IInv'
    OBVIOUS
  <1>1. /\ doing.step = "unlink" /\ File_(stage, doing.item, NoFile)
        /\ UNCHANGED <<stage, todo, complete>> /\ Quiet
        /\ doing' = NotBusy
    BY DEF Unlinks
  <1>2. PICK n : n = doing.item /\ n \in Items
    BY <1>1, Doing
  <1>3. stage \in Queues
        /\ (stage = "inflight" \/ (stage = "failed" /\ ~Accompanied))
    BY <1>1, Doing DEF IInv, DoingShaped
  <1>4. /\ DOMAIN disk' = Queues
        /\ \A p \in Queues : DOMAIN disk'[p] = Items
        /\ \A p \in Queues, m \in Items :
             disk'[p][m] = IF p = stage /\ m = n THEN NoFile ELSE disk[p][m]
        /\ \A p \in Queues, m \in Items : WellFormed(disk'[p][m])
    BY <1>1, <1>2, <1>3, Puts, NoFileFormed DEF IInv
  <1>5. DiskShaped'
    BY <1>1, <1>4 DEF IInv, DiskShaped, Quiet
  <1>6. DoingShaped'
    BY <1>1, Resting DEF DoingShaped, MigratorSteps
  <1>7. WorkerShaped' /\ Unmarked'
    BY <1>1, <1>4, Resting, NoFileFormed
    DEF IInv, WorkerShaped, Unmarked, Accompanied, Quiet
  <1>8. Landed'
    <2>1. ASSUME Accompanied, NEW m \in Items, Kept(m) PROVE Kept(m)'
      BY <1>1, <1>3, <1>4, <2>1 DEF Kept, There, Quiet, Queues
    <2>2. ASSUME worker'.step = "done" PROVE Kept(worker.item)'
      <3>1. PICK m : m = worker.item
        OBVIOUS
      <3>2. UNCHANGED worker /\ worker.step = "done" /\ Accompanied
        BY <1>1, <2>2 DEF Quiet, Accompanied
      <3>3. m \in Items /\ Kept(m)
        BY <3>1, <3>2 DEF IInv, Landed, WorkerShaped
      <3> QED BY <2>1, <3>1, <3>2, <3>3
    <2> QED BY <1>1, <2>2, Resting DEF Landed
  <1>9. Progress'
    <2> SUFFICES ASSUME ~Accompanied PROVE Progress'
      BY <1>1 DEF Progress, Accompanied, Quiet
    <2>1. \A p \in Queues, m \in Items : Clean(p, m) => Clean(p, m)'
      BY <1>4, NoFileFormed DEF Clean
    <2>2. Clean(stage, n)'
      BY <1>1, <1>2, <1>3, <1>4, NoFileFormed DEF Clean
    <2>3. \A q \in Behind', m \in Items : Clean(q, m)'
      <3>1. \A q \in Behind', m \in Items : q \in Queues /\ Clean(q, m)
        BY <1>1 DEF IInv, Progress, Behind, Queues
      <3> QED BY <2>1, <3>1
    <2>4. \A m \in Items \ todo' : Clean(stage, m)'
      <3>1. ASSUME NEW m \in Items, m \notin todo, m # n PROVE Clean(stage, m)'
        <4>1. Clean(stage, m)
          BY <1>2, <1>3, <3>1 DEF IInv, Progress
        <4> QED BY <1>1, <1>3, <3>1, <4>1, <1>4 DEF Clean
      <3> QED BY <1>1, <2>2, <3>1
    <2>5. ~complete'
      BY <1>1, Doing
    <2> QED BY <1>1, <2>3, <2>4, <2>5 DEF Progress
  <1>10. NothingLost'
    <2>1. ASSUME NEW m \in present \ delivered
          PROVE  (\E q \in Queues : disk'[q][m] # NoFile) \/ Held(m)
      <3>1. m \in Items
        BY DEF IInv, DiskShaped
      <3>2. CASE m # n
        BY <1>4, <3>1, <3>2 DEF IInv, NothingLost, Held
      <3>3. CASE m = n /\ Held(n)
        BY <3>3
      <3>4. CASE m = n /\ ~Held(n)
        <4>1. There("ready", n) \/ (stage = "inflight" /\ There("failed", n))
          BY <1>1, <1>2, <1>3, <3>4 DEF IInv, Landed, Kept
        <4>2. {"ready", "failed"} \subseteq Queues
          BY DEF Queues
        <4> QED BY <1>3, <1>4, <3>1, <3>4, <4>1, <4>2 DEF WellFormed, There
      <3> QED BY <3>2, <3>3, <3>4
    <2> QED BY <1>1, <2>1 DEF NothingLost, Held, Quiet
  <1> QED BY <1>5, <1>6, <1>7, <1>8, <1>9, <1>10 DEF IInv

-----------------------------------------------------------------------------
(* The worker of the other process. *)

\* The worker is there before and after; the migration's memory is as it was.
LEMMA WorkerMoves ==
  ASSUME IInv, Elsewhere, Accompanied, WorkerShaped', worker'.step # "absent",
         DOMAIN disk' = Queues, \A q \in Queues : DOMAIN disk'[q] = Items,
         \A q \in Queues, n \in Items : WellFormed(disk'[q][n]) /\ ~disk'[q][n].retryable,
         worker'.step \in {"stamp", "submit"} => ~worker'.file.retryable,
         \A n \in Items : Kept(n) \/ Held(n) => Kept(n)' \/ Held(n)',
         \A n \in Items : worker'.step = "done" /\ worker'.item = n => Kept(n)',
         \A n \in Items \ delivered' :
           (\E q \in Queues : There(q, n)) =>
             (\E q \in Queues : There(q, n)') \/ Held(n)',
         \A n \in Items \ delivered' :
           Held(n) => (\E q \in Queues : There(q, n)') \/ Held(n)',
         delivered \subseteq delivered'
  PROVE  IInv'
  <1>1. UNCHANGED <<stage, todo, doing, passes, complete, rewrites, present>>
    BY DEF Elsewhere
  <1>2. DiskShaped'
    BY <1>1 DEF IInv, DiskShaped
  <1>3. DoingShaped'
    BY <1>1 DEF IInv, DoingShaped
  <1>4. Unmarked'
    BY <1>1 DEF IInv, Unmarked
  <1>5. Landed'
    <2>1. ~(doing.step = "unlink" /\ stage = "failed")
      BY DEF IInv, DoingShaped, Unmarked
    <2>2. doing.step = "unlink" => doing.item \in Items
      BY Doing
    <2>3. doing.step = "unlink" /\ stage = "inflight" =>
            Kept(doing.item)' \/ Held(doing.item)'
      <3>1. PICK n : n = doing.item
        OBVIOUS
      <3> QED BY <1>1, <2>2, <3>1 DEF IInv, Landed
    <2>4. worker'.step = "done" => Kept(worker.item)'
      <3>1. PICK n : n = worker'.item
        OBVIOUS
      <3>2. worker'.step = "done" => n \in Items
        BY <3>1 DEF WorkerShaped
      <3> QED BY <3>1, <3>2
    <2> QED BY <1>1, <2>1, <2>3, <2>4 DEF Landed
  <1>6. Progress'
    BY DEF Progress, Accompanied
  <1>7. NothingLost'
    <2>1. ASSUME NEW n \in present', n \notin delivered'
          PROVE  (\E q \in Queues : disk'[q][n] # NoFile) \/ Held(n)'
      <3>1. n \in Items /\ n \in present \ delivered
        BY <1>1, <2>1 DEF IInv, DiskShaped
      <3>2. (\E q \in Queues : There(q, n)) \/ Held(n)
        BY <3>1 DEF IInv, NothingLost, Held, DiskShaped, WellFormed, There
      <3>3. (\E q \in Queues : There(q, n)') \/ Held(n)'
        BY <2>1, <3>1, <3>2
      <3>4. \A q \in Queues : There(q, n)' => disk'[q][n] # NoFile
        BY <3>1 DEF WellFormed, There
      <3> QED BY <3>3, <3>4
    <2> QED BY <2>1 DEF NothingLost, Held
  <1> QED BY <1>2, <1>3, <1>4, <1>5, <1>6, <1>7 DEF IInv

LEMMA ClaimsStep == IInv /\ (\E n \in Items : Claims(n)) => IInv'
  <1> SUFFICES ASSUME IInv, NEW n \in Items, Claims(n) PROVE IInv'
    OBVIOUS
  <1>1. PICK f : /\ f = disk["ready"][n] /\ f # NoFile
                 /\ disk' = [disk EXCEPT !["ready"][n] = NoFile, !["inflight"][n] = f]
                 /\ worker' = [step |-> "stamp", item |-> n, file |-> f]
    BY DEF Claims
  <1>2. /\ worker.step = "none" /\ Accompanied /\ UNCHANGED delivered /\ Elsewhere
    BY Resting DEF Claims, Accompanied
  <1>3. /\ {"ready", "inflight", "failed"} \subseteq Queues /\ DOMAIN disk = Queues
        /\ \A q \in Queues : DOMAIN disk[q] = Items
        /\ \A q \in Queues, m \in Items : WellFormed(disk[q][m]) /\ ~disk[q][m].retryable
    BY <1>2 DEF IInv, DiskShaped, Queues, Unmarked
  <1>4. WellFormed(f) /\ f.form # "none" /\ ~f.retryable
    BY <1>1, <1>3 DEF WellFormed
  <1>5. /\ DOMAIN disk' = Queues /\ \A q \in Queues : DOMAIN disk'[q] = Items
        /\ \A q \in Queues, m \in Items :
             disk'[q][m] = IF q = "ready" /\ m = n THEN NoFile
                           ELSE IF q = "inflight" /\ m = n THEN f ELSE disk[q][m]
    BY <1>1, <1>3
  <1>6. \A q \in Queues, m \in Items : WellFormed(disk'[q][m]) /\ ~disk'[q][m].retryable
    BY <1>3, <1>4, <1>5, NoFileFormed
  <1>7. /\ {"step", "item", "file"} \subseteq DOMAIN worker'
        /\ worker'.step = "stamp" /\ worker'.item = n /\ worker'.file = f
    BY <1>1
  <1>8. WorkerShaped'
    BY <1>4, <1>7 DEF WorkerShaped, WorkerSteps
  <1>9. Held(n)' /\ ~Held(n)
    BY <1>2, <1>7 DEF Held
  <1>10. ASSUME NEW m \in Items, m # n
         PROVE  /\ \A q \in Queues : There(q, m)' <=> There(q, m)
                /\ ~Held(m) /\ (Kept(m) => Kept(m)')
    <2>1. \A q \in Queues : There(q, m)' <=> There(q, m)
      BY <1>5, <1>10 DEF There
    <2> QED BY <1>2, <1>3, <2>1 DEF Held, Kept
  <1>11. \A m \in Items : Kept(m) \/ Held(m) => Kept(m)' \/ Held(m)'
    BY <1>9, <1>10
  <1>12. \A m \in Items \ delivered' :
           (\E q \in Queues : There(q, m)) => (\E q \in Queues : There(q, m)') \/ Held(m)'
    BY <1>9, <1>10
  <1>13. \A m \in Items \ delivered' :
           Held(m) => (\E q \in Queues : There(q, m)') \/ Held(m)'
    BY <1>9, <1>10
  <1> QED BY <1>2, <1>4, <1>5, <1>6, <1>7, <1>8, <1>11, <1>12, <1>13, WorkerMoves

\* The worker writes the record it holds, or removes its copy of one that is
\* elsewhere or with the core.
LEMMA Moves ==
  ASSUME IInv, Elsewhere, NEW q \in Queues, NEW n \in Items, NEW f, File_(q, n, f),
         n = worker.item, worker.step \in {"stamp", "submit", "done"},
         WellFormed(f), ~f.retryable, UNCHANGED delivered, WorkerShaped',
         worker'.step # "absent",
         worker'.step \in {"stamp", "submit"} => ~worker'.file.retryable,
         \/ /\ f.form # "none"
            /\ \/ worker'.step = "submit" /\ worker'.item = n
               \/ q \in {"ready", "failed"} /\ worker'.step = "done" /\ worker'.item = n
         \/ q = "inflight" /\ worker.step = "done" /\ worker'.step = "none"
  PROVE  IInv'
  <1>1. /\ DOMAIN disk' = Queues
        /\ \A p \in Queues : DOMAIN disk'[p] = Items
        /\ \A p \in Queues, m \in Items :
             disk'[p][m] = IF p = q /\ m = n THEN f ELSE disk[p][m]
        /\ \A p \in Queues, m \in Items : WellFormed(disk'[p][m])
    BY Puts DEF IInv
  <1>2. Accompanied /\ {"ready", "failed"} \subseteq Queues
    BY DEF Accompanied, Queues
  <1>3. \A p \in Queues, m \in Items : ~disk'[p][m].retryable
    BY <1>1, <1>2 DEF IInv, Unmarked
  <1>4. ASSUME NEW m \in Items, m # n
        PROVE  /\ \A p \in Queues : There(p, m)' <=> There(p, m)
               /\ ~Held(m) /\ (Kept(m) => Kept(m)')
    <2>1. \A p \in Queues : There(p, m)' <=> There(p, m)
      BY <1>1, <1>4 DEF There
    <2> QED BY <1>2, <1>4, <2>1 DEF Held, Kept
  <1>5. /\ Kept(n) \/ Held(n) => Kept(n)' \/ Held(n)'
        /\ worker'.step = "done" => Kept(n)' /\ worker'.item = n
        /\ n \notin delivered' => (\E p \in Queues : There(p, n)') \/ Held(n)'
    <2>1. CASE f.form # "none" /\ worker'.step = "submit" /\ worker'.item = n
      BY <2>1 DEF Held
    <2>2. CASE /\ f.form # "none" /\ q \in {"ready", "failed"}
               /\ worker'.step = "done" /\ worker'.item = n
      <3>1. There(q, n)'
        BY <1>1, <2>2 DEF There
      <3> QED BY <1>2, <2>2, <3>1 DEF Kept
    <2>3. CASE q = "inflight" /\ worker.step = "done" /\ worker'.step = "none"
      <3>1. Kept(n)
        BY <2>3 DEF IInv, Landed
      <3>2. \A p \in {"ready", "failed"} : There(p, n)' <=> There(p, n)
        BY <1>1, <1>2, <2>3 DEF There
      <3>3. Kept(n)'
        BY <3>1, <3>2 DEF Kept
      <3> QED BY <1>2, <2>3, <3>3 DEF Kept
    <2> QED BY <2>1, <2>2, <2>3
  <1>6. \A m \in Items : Kept(m) \/ Held(m) => Kept(m)' \/ Held(m)'
    BY <1>4, <1>5
  <1>7. \A m \in Items : worker'.step = "done" /\ worker'.item = m => Kept(m)'
    BY <1>5
  <1>8. \A m \in Items \ delivered' :
          /\ (\E p \in Queues : There(p, m)) => (\E p \in Queues : There(p, m)') \/ Held(m)'
          /\ Held(m) => (\E p \in Queues : There(p, m)') \/ Held(m)'
    BY <1>4, <1>5
  <1> QED BY <1>1, <1>2, <1>3, <1>6, <1>7, <1>8, WorkerMoves

\* What the worker holds.
LEMMA Holding ==
  ASSUME IInv, worker.step \in {"stamp", "submit", "done"}
  PROVE  /\ {"step", "item", "file"} \subseteq DOMAIN worker /\ worker.item \in Items
         /\ Accompanied
         /\ worker.step \in {"stamp", "submit"} =>
              /\ WellFormed(worker.file) /\ worker.file.form # "none"
              /\ ~worker.file.retryable
  BY DEF IInv, WorkerShaped, Unmarked, Accompanied

LEMMA StepTaken ==
  ASSUME IInv, worker.step \in {"stamp", "submit", "done"},
         NEW step \in {"submit", "done"}, Works(step)
  PROVE  /\ {"step", "item", "file"} \subseteq DOMAIN worker' /\ worker'.step = step
         /\ worker'.item = worker.item /\ worker'.file = worker.file
  BY Holding DEF Works

LEMMA StampsStep == IInv /\ Stamps => IInv'
  <1> SUFFICES ASSUME IInv, Stamps PROVE IInv'
    OBVIOUS
  <1>1. /\ worker.step = "stamp" /\ UNCHANGED delivered /\ Elsewhere
        /\ "inflight" \in Queues
    BY DEF Stamps, Queues
  <1>2. /\ {"step", "item", "file"} \subseteq DOMAIN worker' /\ worker'.step = "submit"
        /\ worker'.item = worker.item /\ worker'.file = worker.file
    BY <1>1, StepTaken DEF Stamps
  <1>3. PICK n, f : n = worker.item /\ f = worker.file
    OBVIOUS
  <1>4. n \in Items /\ WellFormed(f) /\ f.form # "none" /\ ~f.retryable
    BY <1>1, <1>3, Holding
  <1>5. File_("inflight", n, f)
    BY <1>3 DEF Stamps
  <1>6. WorkerShaped'
    BY <1>2, <1>3, <1>4 DEF WorkerShaped, WorkerSteps
  <1> QED BY <1>1, <1>2, <1>3, <1>4, <1>5, <1>6, Moves

LEMMA FailsStep == IInv /\ Fails => IInv'
  <1> SUFFICES ASSUME IInv, Fails PROVE IInv'
    OBVIOUS
  <1>1. /\ worker.step = "submit" /\ UNCHANGED delivered /\ Elsewhere
        /\ {"ready", "failed"} \subseteq Queues
    BY DEF Fails, Queues
  <1>2. /\ {"step", "item", "file"} \subseteq DOMAIN worker' /\ worker'.step = "done"
        /\ worker'.item = worker.item /\ worker'.file = worker.file
    BY <1>1, StepTaken DEF Fails
  <1>3. PICK n, f : n = worker.item /\ f = worker.file
    OBVIOUS
  <1>4. n \in Items /\ WellFormed(f) /\ f.form # "none" /\ ~f.retryable
    BY <1>1, <1>3, Holding
  <1>5. PICK q \in {"ready", "failed"} : File_(q, n, f)
    BY <1>3 DEF Fails
  <1>6. WorkerShaped'
    BY <1>2, <1>3, <1>4 DEF WorkerShaped, WorkerSteps
  <1> QED BY <1>1, <1>2, <1>3, <1>4, <1>5, <1>6, Moves

LEMMA DoneStep == IInv /\ Done => IInv'
  <1> SUFFICES ASSUME IInv, Done PROVE IInv'
    OBVIOUS
  <1>1. /\ worker.step = "done" /\ UNCHANGED delivered /\ Elsewhere
        /\ worker' = NotBusy /\ "inflight" \in Queues
    BY DEF Done, Queues
  <1>2. PICK n, f : n = worker.item /\ f = NoFile
    OBVIOUS
  <1>3. n \in Items /\ WellFormed(f) /\ ~f.retryable
    BY <1>1, <1>2, Holding, NoFileFormed
  <1>4. File_("inflight", n, f)
    BY <1>2 DEF Done
  <1>5. WorkerShaped' /\ worker'.step = "none"
    BY <1>1, Resting DEF WorkerShaped, WorkerSteps
  <1> QED BY <1>1, <1>2, <1>3, <1>4, <1>5, Moves

LEMMA DeliversStep == IInv /\ Delivers => IInv'
  <1> SUFFICES ASSUME IInv, Delivers PROVE IInv'
    OBVIOUS
  <1>1. /\ worker.step = "submit" /\ UNCHANGED disk /\ Elsewhere /\ Accompanied
        /\ delivered' = delivered \cup {worker.item}
    BY DEF Delivers, Accompanied
  <1>2. /\ {"step", "item", "file"} \subseteq DOMAIN worker' /\ worker'.step = "done"
        /\ worker'.item = worker.item
    BY <1>1, StepTaken DEF Delivers
  <1>3. WorkerShaped'
    BY <1>1, <1>2, Holding DEF WorkerShaped, WorkerSteps
  <1>4. /\ DOMAIN disk' = Queues /\ \A q \in Queues : DOMAIN disk'[q] = Items
        /\ \A q \in Queues, n \in Items : WellFormed(disk'[q][n]) /\ ~disk'[q][n].retryable
    BY <1>1 DEF IInv, DiskShaped, Unmarked
  <1>5. \A q, n : There(q, n)' <=> There(q, n)
    BY <1>1 DEF There
  <1>6. \A n \in Items : Kept(n) \/ Held(n) => Kept(n)'
    BY <1>1, <1>5 DEF Kept, Held
  <1>7. \A n \in Items : worker'.step = "done" /\ worker'.item = n => Kept(n)'
    BY <1>1, <1>2 DEF Kept
  <1>8. \A n \in Items \ delivered' :
          /\ (\E q \in Queues : There(q, n)) => (\E q \in Queues : There(q, n)') \/ Held(n)'
          /\ Held(n) => (\E q \in Queues : There(q, n)') \/ Held(n)'
    BY <1>1, <1>5 DEF Held
  <1> QED BY <1>1, <1>2, <1>3, <1>4, <1>6, <1>7, <1>8, WorkerMoves

-----------------------------------------------------------------------------

LEMMA StepInv == IInv /\ [Next]_vars => IInv'
  <1>1. ASSUME IInv, UNCHANGED vars PROVE IInv'
    <2> USE <1>1 DEF vars, IInv
    <2>1. DiskShaped' /\ DoingShaped' /\ WorkerShaped'
      BY DEF DiskShaped, DoingShaped, WorkerShaped
    <2>2. Unmarked' /\ Landed'
      BY DEF Unmarked, Accompanied, Landed, Kept, Held, There
    <2>3. Progress'
      BY DEF Progress, Accompanied, Behind, Clean
    <2>4. NothingLost'
      BY DEF NothingLost
    <2> QED BY <2>1, <2>2, <2>3, <2>4
  <1> QED BY <1>1, BeginsStep, NextQueueStep, AbortsStep, ReadsStep, RewritesStep,
             PromotesStep, UnlinksStep, CrashStep, ClaimsStep, StampsStep, DeliversStep,
             FailsStep, DoneStep
          DEF Next, Migrate

LEMMA Invariance == Spec => []IInv
  BY InitInv, StepInv, PTL DEF Spec

\* spool_migration.py: an item the migration found is in a queue, with the
\* worker or with the core, wherever the migration is killed and however often
\* it begins again, also while a worker of another process delivers.
THEOREM NothingIsLost == Spec => []NothingLost
  BY Invariance, PTL DEF IInv

\* spool_migration.py: a migration that came to its end, alone, leaves neither
\* an old record nor a claimed one.
THEOREM MigratedIsCurrent == Spec => []SpoolCurrent
  <1>1. IInv => SpoolCurrent
    BY NoFileFormed, Resting
    DEF IInv, Progress, Accompanied, Behind, Clean, SpoolCurrent, Listing,
        DiskShaped, WellFormed, Queues
  <1> QED BY <1>1, Invariance, PTL

\* tests/test_spool_migration.py: the migration after one that came to its end
\* writes nothing.
THEOREM SecondDoesNothing == Spec => []SecondIsIdle
  <1>1. IInv => SecondIsIdle
    BY Resting DEF IInv, Progress, Accompanied, SecondIsIdle
  <1> QED BY <1>1, Invariance, PTL

=============================================================================
