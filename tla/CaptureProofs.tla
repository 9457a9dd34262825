---------------------------- MODULE CaptureProofs ----------------------------
(***************************************************************************)
(* Theorems about how a captured round gets to the core when its hooks     *)
(* could not complete it: PendingCapture, the queue of such rounds and the *)
(* worker that promotes them, and StateDb, the reader the worker recovers  *)
(* their events with.  The two share no state; each theorem is of one of   *)
(* the specifications, Spec or TableSpec.                                  *)
(*                                                                         *)
(* PendingCapture: for any rounds, limits and sizes, any number of hand-ins*)
(* and kills; what a captured round is owed holds when one worker polls    *)
(* the spool.  StateDb: for any number of turns and messages, whatever     *)
(* turns were interrupted and whatever ids are missing.                    *)
(***************************************************************************)
EXTENDS PendingCapture, StateDb, FiniteSetTheorems, WellFoundedInduction, TLAPS

OneWorker == \A w1, w2 \in Workers : w1 = w2

Busies == {"promote", "retry", "read", "fail", "done"}

\* What a worker still means to read or do is there: nobody else removes it.
Present ==
  \A w \in Workers : \A r \in Captures :
    /\ r \in todo[w] => pc[w] = "list" /\ pending[r].there
    /\ batch[w][r].there => pending[r].there

\* The item at hand: it is there as long as it is not removed, and neither the
\* listing nor the batch names it any more.
Holds(w, r) ==
  /\ job[w].name = {r}
  /\ ~batch[w][r].there
  /\ pc[w] # "done" => pending[r].there
  /\ pc[w] \in {"promote", "retry"} => job[w].item.there
  /\ pc[w] = "fail" => job[w].body = "evidence"
  /\ pc[w] = "done" => r \in ready \cup delivered \/ failed[r] = "evidence"

AtHand ==
  \A w \in Workers : pc[w] \in Busies =>
    job[w].ret = "work" /\ \E r \in Captures : Holds(w, r)

\* A worker that has promoted an item, or put it in quarantine, still has to
\* remove it.
Leaving(r) == \E w \in Workers : pc[w] = "done" /\ job[w].name = {r}

\* An item that waits has a promotion left.
Credit ==
  \A r \in Captures :
    pending[r].there /\ ~Leaving(r) => promotions[r] < handed[r] + crashes

IInv == TypeOK /\ Present /\ AtHand /\ CaptureKept /\ Credit /\ PromotionsBounded

-----------------------------------------------------------------------------
(* Items and jobs. *)

LEMMA Limits ==
  /\ MaxAttempts \in Nat \ {0} /\ MaxCaptures \in Nat /\ MaxCrashes \in Nat
  /\ MaxPromotions \in Nat
  BY PendingConstants DEF PendingConstants, MaxPromotions

LEMMA ItemTypes ==
  /\ NoItem \in Items /\ ~NoItem.there
  /\ Deferred \in Items /\ Deferred.there
  /\ Nothing \in [Captures -> Items] /\ \A r \in Captures : ~Nothing[r].there
  BY Limits DEF NoItem, Deferred, Items, Nothing

LEMMA CountedType ==
  ASSUME NEW i \in Items
  PROVE  Counted(i) \in Items /\ Counted(i).there = i.there
  <1>1. (IF i.attempts < MaxAttempts THEN i.attempts + 1 ELSE i.attempts)
          \in 0 .. MaxAttempts
    BY Limits DEF Items
  <1> QED BY <1>1 DEF Counted, Items

LEMMA PutBack ==
  ASSUME NEW i \in Items
  PROVE  /\ [i EXCEPT !.due = FALSE, !.noted = TRUE] \in Items
         /\ [i EXCEPT !.due = FALSE, !.noted = TRUE].there = i.there
         /\ [i EXCEPT !.due = TRUE] \in Items
         /\ [i EXCEPT !.due = TRUE].there = i.there
  BY DEF Items

LEMMA WaitingType ==
  ASSUME NEW i \in Items
  PROVE  Waiting(i) \in Items /\ Waiting(i).there = i.there
  <1>1. Counted(i) \in Items /\ Counted(i).there = i.there
    BY CountedType
  <1> HIDE DEF Counted
  <1> QED BY <1>1, PutBack DEF Waiting

LEMMA JobTypes ==
  ASSUME NEW r \in Captures, NEW i \in Items, NEW ret \in {"list", "work"}
  PROVE  /\ NoJob \in Jobs
         /\ [NoJob EXCEPT !.name = {r}, !.ret = ret] \in Jobs
         /\ [NoJob EXCEPT !.name = {r}, !.ret = ret].name = {r}
         /\ [NoJob EXCEPT !.name = {r}, !.ret = ret].ret = ret
         /\ [name |-> {r}, item |-> i, body |-> "none", ret |-> "work"] \in Jobs
  BY ItemTypes DEF NoJob, Jobs

LEMMA InitInv == Init => IInv
  <1> SUFFICES ASSUME Init PROVE IInv
    OBVIOUS
  <1>1. TypeOK
    <2>1. NoJob \in Jobs
      BY ItemTypes DEF NoJob, Jobs
    <2> QED BY <2>1, Limits, ItemTypes DEF Init, TypeOK, Steps
  <1>2. Present /\ AtHand /\ CaptureKept
    BY ItemTypes DEF Init, Present, AtHand, Busies, CaptureKept
  <1>3. Credit /\ PromotionsBounded
    BY ItemTypes DEF Init, Credit, PromotionsBounded
  <1> QED BY <1>1, <1>2, <1>3 DEF IInv

-----------------------------------------------------------------------------
(* The hooks and the world: what is there stays there, what is ready or        *)
(* delivered is so still, and credit only grows.                               *)

LEMMA Outside ==
  ASSUME IInv, UNCHANGED <<failed, batch, todo, pc, job, promotions, crashes>>,
         \A r \in Captures : pending[r].there => pending'[r].there,
         ready \cup delivered \subseteq ready' \cup delivered'
  PROVE  Present' /\ AtHand' /\ \A r \in Captures : Leaving(r)' <=> Leaving(r)
  <1>1. Present'
    BY DEF IInv, Present
  <1>2. ASSUME NEW w \in Workers, NEW r \in Captures, Holds(w, r)
        PROVE  Holds(w, r)'
    BY <1>2 DEF Holds
  <1>3. AtHand'
    BY <1>2 DEF IInv, AtHand
  <1> QED BY <1>1, <1>3 DEF Leaving

\* Whatever a hook does with a round, it hands it in.
LEMMA HandedIn ==
  ASSUME IInv, NEW r \in Captures, HandIn(r),
         \A q \in Captures : pending'[q].there => pending[q].there \/ q = r
  PROVE  /\ handed' \in [Captures -> 0 .. MaxCaptures]
         /\ handed'[r] = handed[r] + 1
         /\ \A q \in Captures : handed'[q] >= handed[q]
         /\ UNCHANGED <<failed, batch, todo, pc, job, world, promotions, crashes>>
         /\ (\A q \in Captures : Leaving(q)' <=> Leaving(q)) => Credit'
         /\ PromotionsBounded'
  <1> USE Limits DEF IInv
  <1>1. /\ handed' \in [Captures -> 0 .. MaxCaptures]
        /\ handed'[r] = handed[r] + 1
        /\ \A q \in Captures : handed'[q] >= handed[q]
    BY DEF HandIn, TypeOK
  <1>2. UNCHANGED <<failed, batch, todo, pc, job, world, promotions, crashes>>
    BY DEF HandIn
  <1>3. PromotionsBounded'
    BY <1>1, <1>2 DEF PromotionsBounded, TypeOK
  <1>4. ASSUME \A q \in Captures : Leaving(q)' <=> Leaving(q) PROVE Credit'
    <2>1. ASSUME NEW q \in Captures, pending'[q].there, ~Leaving(q)
          PROVE  promotions[q] < handed'[q] + crashes
      <3>1. CASE q = r
        BY <1>1, <3>1 DEF PromotionsBounded, TypeOK
      <3>2. CASE q # r
        BY <1>1, <2>1, <3>2 DEF Credit, TypeOK
      <3> QED BY <3>1, <3>2
    <2> QED BY <1>2, <1>4, <2>1 DEF Credit
  <1> QED BY <1>1, <1>2, <1>3, <1>4

\* A hook leaves the round pending or ready, or nowhere, and then it keeps quiet.
LEMMA Hooked ==
  ASSUME IInv, NEW r \in Captures, HandIn(r),
         \/ pending' = [pending EXCEPT ![r] = Deferred] /\ ready' = ready
         \/ pending' = pending /\ ready' = ready \cup {r}
         \/ pending' = pending /\ ready' = ready,
         captured' \subseteq captured \cup {r},
         captured' # captured => pending' # pending \/ pending'[r].there \/ r \in ready'
  PROVE  IInv'
  <1> USE DEF IInv
  <1>1. /\ pending' \in [Captures -> Items] /\ ready' \subseteq Captures
        /\ \A q \in Captures : pending[q].there => pending'[q].there
        /\ \A q \in Captures : pending'[q].there => pending[q].there \/ q = r
        /\ ready \subseteq ready'
    BY ItemTypes DEF TypeOK
  <1>2. UNCHANGED <<failed, batch, todo, pc, job, final, flawed, delivered,
                    promotions, crashes>>
    BY DEF HandIn, world
  <1>3. TypeOK'
    BY <1>1, <1>2, HandedIn DEF TypeOK
  <1>4. Present' /\ AtHand' /\ Credit' /\ PromotionsBounded'
    BY <1>1, <1>2, Outside, HandedIn
  <1>5. CaptureKept'
    <2>1. ASSUME r \in captured', r \notin captured
          PROVE  pending'[r].there \/ r \in ready'
      BY <2>1, ItemTypes DEF TypeOK
    <2>2. ASSUME NEW q \in captured'
          PROVE  pending'[q].there \/ q \in ready' \cup delivered' \/ failed'[q] = "evidence"
      <3>1. CASE q \in captured
        <4>1. q \in Captures
          BY <3>1 DEF TypeOK
        <4>2. pending[q].there \/ q \in ready \cup delivered \/ failed[q] = "evidence"
          BY <3>1 DEF CaptureKept
        <4> QED BY <1>1, <1>2, <4>1, <4>2
      <3>2. CASE q \notin captured
        BY <2>1, <2>2, <3>2
      <3> QED BY <3>1, <3>2
    <2> QED BY <2>2 DEF CaptureKept
  <1> QED BY <1>3, <1>4, <1>5

LEMMA DeferOrLoses ==
  ASSUME TypeOK, NEW r \in Captures, DeferOrLose(r)
  PROVE  /\ ready' = ready /\ captured' \subseteq captured \cup {r}
         /\ \/ pending' = [pending EXCEPT ![r] = Deferred] /\ pending'[r].there
            \/ pending' = pending /\ captured' = captured
  BY ItemTypes DEF DeferOrLose, Keep, TypeOK

LEMMA DeferStep == IInv /\ (\E r \in Captures : Defer(r)) => IInv'
  <1> SUFFICES ASSUME IInv, NEW r \in Captures, Defer(r) PROVE IInv'
    OBVIOUS
  <1>1. HandIn(r) /\ DeferOrLose(r)
    BY DEF Defer
  <1> QED BY <1>1, DeferOrLoses, Hooked DEF IInv

LEMMA CaptureStep == IInv /\ (\E r \in Captures : Capture(r)) => IInv'
  <1> SUFFICES ASSUME IInv, NEW r \in Captures, Capture(r) PROVE IInv'
    OBVIOUS
  <1>1. HandIn(r)
    BY DEF Capture
  <1>2. CASE DeferOrLose(r)
    BY <1>1, <1>2, DeferOrLoses, Hooked DEF IInv
  <1>3. CASE ready' = ready \cup {r} /\ Keep(r) /\ UNCHANGED pending
    BY <1>1, <1>3, Hooked DEF Keep
  <1> QED BY <1>2, <1>3 DEF Capture

LEMMA CommitStep == IInv /\ (\E r \in Captures : Commit(r)) => IInv'
  <1> SUFFICES ASSUME IInv, NEW r \in Captures, Commit(r) PROVE IInv'
    OBVIOUS
  <1> USE DEF IInv
  <1>1. /\ final' = final \cup {r}
        /\ UNCHANGED <<pending, ready, failed, flawed, delivered, batch, todo, pc, job,
                       captured, handed, promotions, crashes>>
    BY DEF Commit, spool, hook
  <1>2. TypeOK'
    BY <1>1 DEF TypeOK
  <1>3. Present' /\ AtHand' /\ \A q \in Captures : Leaving(q)' <=> Leaving(q)
    BY <1>1, Outside
  <1>4. CaptureKept' /\ Credit' /\ PromotionsBounded'
    BY <1>1, <1>3 DEF CaptureKept, Credit, PromotionsBounded
  <1> QED BY <1>2, <1>3, <1>4

LEMMA DeliverStep == IInv /\ (\E r \in Captures : Deliver(r)) => IInv'
  <1> SUFFICES ASSUME IInv, NEW r \in Captures, Deliver(r) PROVE IInv'
    OBVIOUS
  <1> USE DEF IInv
  <1>1. /\ ready' = ready \ {r} /\ delivered' = delivered \cup {r}
        /\ UNCHANGED <<pending, failed, final, flawed, batch, todo, pc, job,
                       captured, handed, promotions, crashes>>
    BY DEF Deliver, hook
  <1>2. TypeOK'
    BY <1>1 DEF TypeOK
  <1>3. Present' /\ AtHand' /\ \A q \in Captures : Leaving(q)' <=> Leaving(q)
    BY <1>1, Outside
  <1>4. CaptureKept' /\ Credit' /\ PromotionsBounded'
    BY <1>1, <1>3 DEF CaptureKept, Credit, PromotionsBounded
  <1> QED BY <1>2, <1>3, <1>4

LEMMA BackoffElapsesStep == IInv /\ (\E r \in Captures : BackoffElapses(r)) => IInv'
  <1> SUFFICES ASSUME IInv, NEW r \in Captures, BackoffElapses(r) PROVE IInv'
    OBVIOUS
  <1> USE DEF IInv
  <1>1. UNCHANGED <<ready, failed, final, flawed, delivered, batch, todo, pc, job,
                    captured, handed, promotions, crashes>>
    BY DEF BackoffElapses, world, hook
  <1>2. /\ pending' \in [Captures -> Items]
        /\ \A q \in Captures : pending'[q].there = pending[q].there
    <2>1. pending' = [pending EXCEPT ![r] = [pending[r] EXCEPT !.due = TRUE]]
      BY DEF BackoffElapses, TypeOK
    <2>2. pending[r] \in Items
      BY DEF TypeOK
    <2> QED BY <2>1, <2>2, PutBack DEF TypeOK
  <1>3. TypeOK'
    BY <1>1, <1>2 DEF TypeOK
  <1>4. Present' /\ AtHand' /\ \A q \in Captures : Leaving(q)' <=> Leaving(q)
    BY <1>1, <1>2, Outside
  <1>5. CaptureKept'
    <2>1. captured \subseteq Captures
      BY DEF TypeOK
    <2> QED BY <1>1, <1>2, <2>1 DEF CaptureKept
  <1>6. Credit'
    BY <1>1, <1>2, <1>4 DEF Credit
  <1>7. PromotionsBounded'
    BY <1>1 DEF PromotionsBounded
  <1> QED BY <1>3, <1>4, <1>5, <1>6, <1>7

-----------------------------------------------------------------------------
(* The worker: what it does to its own memory. *)

LEMMA Carries ==
  ASSUME TypeOK, NEW w \in Workers, NEW r \in Captures, NEW i \in Items,
         NEW step \in Steps, Carry(w, r, step, i)
  PROVE  /\ pc' \in [Workers -> Steps] /\ job' \in [Workers -> Jobs]
         /\ pc'[w] = step /\ job'[w].name = {r} /\ job'[w].item = i
         /\ job'[w].ret = "work"
  BY JobTypes DEF Carry, Goto, TypeOK

LEMMA FailBegins ==
  ASSUME TypeOK, NEW w \in Workers, NEW r \in Captures, NEW ret \in {"list", "work"},
         Fail(w, r, ret)
  PROVE  /\ pc' \in [Workers -> Steps] /\ job' \in [Workers -> Jobs]
         /\ pc'[w] = "read" /\ job'[w].name = {r} /\ job'[w].ret = ret
  <1>1. NoItem \in Items
    BY ItemTypes
  <1> QED BY <1>1, JobTypes DEF Fail, Goto, TypeOK, Steps

LEMMA Takes ==
  ASSUME TypeOK, NEW w \in Workers, NEW r \in Captures, Take(w, r)
  PROVE  /\ pc[w] = "work" /\ batch[w][r].there /\ batch[w][r] \in Items
         /\ batch' \in [Workers -> [Captures -> Items]]
         /\ ~batch'[w][r].there
         /\ \A q \in Captures : batch'[w][q].there => batch[w][q].there
  BY ItemTypes DEF Take, TypeOK

\* Its work at an item is over.
LEMMA Frees ==
  ASSUME TypeOK, NEW w \in Workers, NEW step \in Steps, Goto(w, step),
         job' = [job EXCEPT ![w] = NoJob]
  PROVE  /\ pc' \in [Workers -> Steps] /\ job' \in [Workers -> Jobs]
         /\ pc'[w] = step
  BY ItemTypes DEF Goto, TypeOK, NoJob, Jobs

LEMMA Forgets ==
  ASSUME TypeOK, NEW w \in Workers, Forgetful(w)
  PROVE  /\ pc' \in [Workers -> Steps] /\ job' \in [Workers -> Jobs]
         /\ batch' \in [Workers -> [Captures -> Items]]
         /\ todo' \in [Workers -> SUBSET Captures]
         /\ pc'[w] = "idle" /\ todo'[w] = {}
         /\ \A q \in Captures : ~batch'[w][q].there
  <1>1. pc' \in [Workers -> Steps] /\ job' \in [Workers -> Jobs] /\ pc'[w] = "idle"
    BY Frees DEF Forgetful, Steps
  <1> QED BY <1>1, ItemTypes DEF Forgetful, TypeOK

\* The item a busy worker names is the one it holds.
LEMMA HeldItem ==
  ASSUME IInv, NEW w \in Workers, NEW r \in Captures, NEW step \in Busies, Busy(w, step, r)
  PROVE  pc[w] = step /\ job[w].ret = "work" /\ Holds(w, r) /\ todo[w] = {}
  <1>1. pc[w] = step /\ job[w].name = {r}
    BY DEF Busy
  <1>2. job[w].ret = "work" /\ \E q \in Captures : Holds(w, q)
    BY <1>1 DEF IInv, AtHand
  <1>3. PICK q \in Captures : Holds(w, q)
    BY <1>2
  <1>4. q = r
    BY <1>1, <1>3 DEF Holds
  <1>5. todo[w] = {}
    BY <1>1 DEF IInv, Present, Busies, TypeOK
  <1> QED BY <1>1, <1>2, <1>3, <1>4, <1>5

-----------------------------------------------------------------------------
(* The worker's steps. *)

Spared == UNCHANGED <<pending, ready, failed, captured, handed, final, flawed,
                      delivered, promotions>>

\* The spool stays as it is, and nothing is taken up that is not there.
LEMMA Reading ==
  ASSUME OneWorker, IInv, NEW w \in Workers, Spared, UNCHANGED crashes,
         pc' \in [Workers -> Steps], job' \in [Workers -> Jobs],
         batch' \in [Workers -> [Captures -> Items]],
         todo' \in [Workers -> SUBSET Captures],
         pc[w] # "done", pc'[w] \notin Busies,
         todo'[w] # {} => pc'[w] = "list",
         \A r \in todo'[w] : pending[r].there,
         \A r \in Captures : batch'[w][r].there => pending[r].there
  PROVE  IInv'
  <1> USE DEF IInv, Spared
  <1>0. \A v \in Workers : v = w
    BY DEF OneWorker
  <1>1. TypeOK'
    BY DEF TypeOK
  <1>2. Present'
    BY <1>0 DEF Present
  <1>3. AtHand'
    BY <1>0 DEF AtHand
  <1>4. CaptureKept' /\ PromotionsBounded'
    BY DEF CaptureKept, PromotionsBounded
  <1>5. \A r \in Captures : ~Leaving(r) /\ ~Leaving(r)'
    BY <1>0 DEF Leaving, Busies
  <1>6. Credit'
    BY <1>5 DEF Credit
  <1> QED BY <1>1, <1>2, <1>3, <1>4, <1>6

LEMMA ListStep == OneWorker /\ IInv /\ (\E w \in Workers : List(w)) => IInv'
  <1> SUFFICES ASSUME OneWorker, IInv, NEW w \in Workers, List(w) PROVE IInv'
    OBVIOUS
  <1>1. /\ Spared /\ UNCHANGED <<crashes, batch, job>> /\ pc[w] = "idle"
        /\ pc' = [pc EXCEPT ![w] = "list"]
        /\ todo' = [todo EXCEPT ![w] = There(pending)]
    BY DEF List, Goto, Spared, spool, hook, world
  <1>2. TypeOK /\ Present
    BY DEF IInv
  <1>3. /\ pc' \in [Workers -> Steps] /\ todo' \in [Workers -> SUBSET Captures]
        /\ pc'[w] = "list" /\ todo'[w] = There(pending)
    BY <1>1, <1>2 DEF TypeOK, Steps, There
  <1>4. /\ job' \in [Workers -> Jobs] /\ batch' \in [Workers -> [Captures -> Items]]
    BY <1>1, <1>2 DEF TypeOK
  <1>5. /\ \A r \in todo'[w] : pending[r].there
        /\ \A r \in Captures : batch'[w][r].there => pending[r].there
    BY <1>1, <1>2, <1>3 DEF Present, There
  <1> QED BY <1>1, <1>3, <1>4, <1>5, Reading DEF Busies

LEMMA EndListStep == OneWorker /\ IInv /\ (\E w \in Workers : EndList(w)) => IInv'
  <1> SUFFICES ASSUME OneWorker, IInv, NEW w \in Workers, EndList(w) PROVE IInv'
    OBVIOUS
  <1>1. /\ Spared /\ UNCHANGED <<crashes, batch, job, todo>> /\ pc[w] = "list"
        /\ todo[w] = {}
        /\ \E next \in {"idle", "work"} : pc' = [pc EXCEPT ![w] = next]
    BY DEF EndList, Goto, Spared, spool, hook, world
  <1>2. TypeOK /\ Present
    BY DEF IInv
  <1>3. pc' \in [Workers -> Steps] /\ pc'[w] \in {"idle", "work"}
    BY <1>1, <1>2 DEF TypeOK, Steps
  <1>4. /\ job' \in [Workers -> Jobs] /\ batch' \in [Workers -> [Captures -> Items]]
        /\ todo' \in [Workers -> SUBSET Captures]
        /\ \A r \in Captures : batch'[w][r].there => pending[r].there
    BY <1>1, <1>2 DEF TypeOK, Present
  <1> QED BY <1>1, <1>3, <1>4, Reading DEF Busies

LEMMA EndBatchStep == OneWorker /\ IInv /\ (\E w \in Workers : EndBatch(w)) => IInv'
  <1> SUFFICES ASSUME OneWorker, IInv, NEW w \in Workers, EndBatch(w) PROVE IInv'
    OBVIOUS
  <1>1. /\ Spared /\ UNCHANGED <<crashes, batch, job, todo>> /\ pc[w] = "work"
        /\ pc' = [pc EXCEPT ![w] = "idle"]
    BY DEF EndBatch, Goto, Spared, spool, hook, world
  <1>2. TypeOK /\ Present
    BY DEF IInv
  <1>3. pc' \in [Workers -> Steps] /\ pc'[w] = "idle"
    BY <1>1, <1>2 DEF TypeOK, Steps
  <1>4. /\ job' \in [Workers -> Jobs] /\ batch' \in [Workers -> [Captures -> Items]]
        /\ todo' \in [Workers -> SUBSET Captures] /\ todo'[w] = {}
        /\ \A r \in Captures : batch'[w][r].there => pending[r].there
    BY <1>1, <1>2 DEF TypeOK, Present
  <1> QED BY <1>1, <1>3, <1>4, Reading DEF Busies

\* With one worker a listed item is there when it is read.
LEMMA ReadItemStep ==
  OneWorker /\ IInv /\ (\E w \in Workers, r \in Captures : ReadItem(w, r)) => IInv'
  <1> SUFFICES ASSUME OneWorker, IInv, NEW w \in Workers, NEW r \in Captures,
                      ReadItem(w, r)
               PROVE  IInv'
    OBVIOUS
  <1>1. TypeOK /\ Present
    BY DEF IInv
  <1>2. pending[r].there /\ pc[w] = "list"
    BY <1>1 DEF ReadItem, Present
  <1>3. /\ Spared /\ UNCHANGED <<crashes, pc, job>>
        /\ todo' = [todo EXCEPT ![w] = @ \ {r}]
        /\ batch' = [batch EXCEPT ![w][r] = pending[r]] \/ batch' = batch
    BY <1>2 DEF ReadItem, Spared, spool, hook, world
  <1>4. /\ batch' \in [Workers -> [Captures -> Items]]
        /\ \A q \in Captures : batch'[w][q].there => pending[q].there
    <2>1. /\ pending[r] \in Items /\ batch \in [Workers -> [Captures -> Items]]
          /\ \A q \in Captures : batch[w][q].there => pending[q].there
      BY <1>1 DEF TypeOK, Present
    <2>2. CASE batch' = batch
      BY <2>1, <2>2
    <2>3. CASE batch' = [batch EXCEPT ![w][r] = pending[r]]
      <3>1. /\ batch' \in [Workers -> [Captures -> Items]]
            /\ \A q \in Captures :
                 batch'[w][q] = IF q = r THEN pending[r] ELSE batch[w][q]
        BY <2>1, <2>3
      <3> QED BY <1>2, <2>1, <3>1
    <2> QED BY <1>3, <2>2, <2>3
  <1>5. /\ todo' \in [Workers -> SUBSET Captures]
        /\ \A q \in todo'[w] : pending[q].there
    BY <1>1, <1>3 DEF TypeOK, Present
  <1>6. pc' \in [Workers -> Steps] /\ job' \in [Workers -> Jobs]
    BY <1>1, <1>3 DEF TypeOK
  <1> QED BY <1>2, <1>3, <1>4, <1>5, <1>6, Reading DEF Busies

\* An item of the batch comes to hand.
LEMMA Taken ==
  ASSUME OneWorker, IInv, NEW w \in Workers, NEW r \in Captures, Take(w, r),
         Spared, UNCHANGED <<todo, crashes>>,
         pc' \in [Workers -> Steps], job' \in [Workers -> Jobs],
         pc'[w] \in {"promote", "retry", "read"},
         job'[w].name = {r}, job'[w].ret = "work",
         pc'[w] \in {"promote", "retry"} => job'[w].item.there
  PROVE  IInv'
  <1> USE DEF IInv, Spared
  <1>0. \A v \in Workers : v = w
    BY DEF OneWorker
  <1>1. /\ pc[w] = "work" /\ batch[w][r].there
        /\ batch' \in [Workers -> [Captures -> Items]]
        /\ ~batch'[w][r].there
        /\ \A q \in Captures : batch'[w][q].there => batch[w][q].there
    BY Takes
  <1>2. TypeOK'
    BY <1>1 DEF TypeOK
  <1>3. todo[w] = {}
    BY <1>1 DEF Present, TypeOK
  <1>4. Present'
    BY <1>0, <1>1, <1>3 DEF Present
  <1>5. Holds(w, r)'
    BY <1>1 DEF Holds, Present
  <1>6. AtHand'
    BY <1>0, <1>5 DEF AtHand
  <1>7. CaptureKept' /\ PromotionsBounded'
    BY DEF CaptureKept, PromotionsBounded
  <1>8. \A q \in Captures : ~Leaving(q) /\ ~Leaving(q)'
    BY <1>0, <1>1 DEF Leaving
  <1>9. Credit'
    BY <1>8 DEF Credit
  <1> QED BY <1>2, <1>4, <1>6, <1>7, <1>9

LEMMA UnresolvedStep ==
  OneWorker /\ IInv /\ (\E w \in Workers, r \in Captures : Unresolved(w, r)) => IInv'
  <1> SUFFICES ASSUME OneWorker, IInv, NEW w \in Workers, NEW r \in Captures,
                      Unresolved(w, r)
               PROVE  IInv'
    OBVIOUS
  <1>1. /\ Take(w, r) /\ Carry(w, r, "retry", Waiting(batch[w][r]))
        /\ Spared /\ UNCHANGED <<todo, crashes>>
    BY DEF Unresolved, Spared, spool, hook, world
  <1>2. batch[w][r].there /\ batch[w][r] \in Items
    BY <1>1, Takes DEF IInv
  <1>3. Waiting(batch[w][r]) \in Items /\ Waiting(batch[w][r]).there
    BY <1>2, WaitingType
  <1>4. /\ pc' \in [Workers -> Steps] /\ job' \in [Workers -> Jobs]
        /\ pc'[w] = "retry" /\ job'[w].name = {r}
        /\ job'[w].item = Waiting(batch[w][r]) /\ job'[w].ret = "work"
    BY <1>1, <1>3, Carries DEF IInv, Steps
  <1> QED BY <1>1, <1>3, <1>4, Taken

LEMMA ResolvedStep ==
  OneWorker /\ IInv /\ (\E w \in Workers, r \in Captures : Resolved(w, r)) => IInv'
  <1> SUFFICES ASSUME OneWorker, IInv, NEW w \in Workers, NEW r \in Captures,
                      Resolved(w, r)
               PROVE  IInv'
    OBVIOUS
  <1>1. /\ Take(w, r) /\ Carry(w, r, "promote", Counted(batch[w][r]))
        /\ Spared /\ UNCHANGED <<todo, crashes>>
    BY DEF Resolved, Spared, spool, hook, world
  <1>2. batch[w][r].there /\ batch[w][r] \in Items
    BY <1>1, Takes DEF IInv
  <1>3. Counted(batch[w][r]) \in Items /\ Counted(batch[w][r]).there
    BY <1>2, CountedType
  <1>4. /\ pc' \in [Workers -> Steps] /\ job' \in [Workers -> Jobs]
        /\ pc'[w] = "promote" /\ job'[w].name = {r}
        /\ job'[w].item = Counted(batch[w][r]) /\ job'[w].ret = "work"
    BY <1>1, <1>3, Carries DEF IInv, Steps
  <1> QED BY <1>1, <1>3, <1>4, Taken

LEMMA RefusedStep ==
  OneWorker /\ IInv /\ (\E w \in Workers, r \in Captures : Refused(w, r)) => IInv'
  <1> SUFFICES ASSUME OneWorker, IInv, NEW w \in Workers, NEW r \in Captures,
                      Refused(w, r)
               PROVE  IInv'
    OBVIOUS
  <1>1. /\ Take(w, r) /\ Fail(w, r, "work") /\ Spared /\ UNCHANGED <<todo, crashes>>
    BY DEF Refused, Spared, spool, hook, world
  <1>2. /\ pc' \in [Workers -> Steps] /\ job' \in [Workers -> Jobs]
        /\ pc'[w] = "read" /\ job'[w].name = {r} /\ job'[w].ret = "work"
    BY <1>1, FailBegins DEF IInv
  <1> QED BY <1>1, <1>2, Taken

\* The item at hand stays at hand; the spool at most gains.
LEMMA Proceeds ==
  ASSUME OneWorker, IInv, NEW w \in Workers, NEW r \in Captures,
         pc[w] \in Busies \ {"done"}, Holds(w, r),
         UNCHANGED <<pending, captured, handed, final, flawed, delivered, batch, todo,
                     crashes>>,
         ready \subseteq ready', ready' \subseteq Captures,
         failed' \in [Captures -> {"none", "husk", "evidence"}],
         \A q \in Captures : failed[q] = "evidence" => failed'[q] = "evidence",
         promotions' \in [Captures -> 0 .. MaxPromotions],
         \A q \in Captures : \/ promotions'[q] = promotions[q]
                             \/ /\ q = r /\ promotions'[q] <= promotions[q] + 1
                                /\ pc'[w] = "done",
         pc' \in [Workers -> Steps], job' \in [Workers -> Jobs],
         pc'[w] \in Busies, job'[w].ret = "work", Holds(w, r)'
  PROVE  IInv'
  <1> USE Limits DEF IInv
  <1>0. \A v \in Workers : v = w
    BY DEF OneWorker
  <1>1. TypeOK'
    BY DEF TypeOK
  <1>2. Present'
    BY <1>0 DEF Present, Busies
  <1>3. AtHand'
    BY <1>0 DEF AtHand
  <1>4. CaptureKept'
    BY DEF CaptureKept, TypeOK
  <1>5. /\ \A q \in Captures : ~Leaving(q)
        /\ \A q \in Captures : Leaving(q)' <=> pc'[w] = "done" /\ q = r
    BY <1>0 DEF Leaving, Holds
  <1>6. promotions[r] < handed[r] + crashes
    BY <1>5 DEF Credit, Holds
  <1>7. Credit'
    BY <1>5 DEF Credit
  <1>8. PromotionsBounded'
    BY <1>6 DEF PromotionsBounded, TypeOK
  <1> QED BY <1>1, <1>2, <1>3, <1>4, <1>7, <1>8

LEMMA PromoteStep ==
  OneWorker /\ IInv /\ (\E w \in Workers, r \in Captures : Promote(w, r)) => IInv'
  <1> SUFFICES ASSUME OneWorker, IInv, NEW w \in Workers, NEW r \in Captures,
                      Promote(w, r)
               PROVE  IInv'
    OBVIOUS
  <1>1. pc[w] = "promote" /\ job[w].ret = "work" /\ Holds(w, r)
    BY HeldItem DEF Promote, Busies
  <1>2. /\ ready' = ready \cup {r} /\ pc' = [pc EXCEPT ![w] = "done"]
        /\ UNCHANGED <<pending, failed, batch, todo, job, captured, handed, final,
                       flawed, delivered, crashes>>
    BY DEF Promote, Goto, hook, world
  <1>3. /\ promotions' \in [Captures -> 0 .. MaxPromotions]
        /\ promotions'[r] <= promotions[r] + 1
        /\ \A q \in Captures \ {r} : promotions'[q] = promotions[q]
    BY Limits DEF Promote, IInv, TypeOK
  <1>4. pc' \in [Workers -> Steps] /\ pc'[w] = "done" /\ job' \in [Workers -> Jobs]
    BY <1>2 DEF IInv, TypeOK, Steps
  <1>5. Holds(w, r)'
    BY <1>1, <1>2, <1>4 DEF Holds
  <1>6. ready' \subseteq Captures /\ failed' \in [Captures -> {"none", "husk", "evidence"}]
    BY <1>2 DEF IInv, TypeOK
  <1> QED BY <1>1, <1>2, <1>3, <1>4, <1>5, <1>6, Proceeds DEF Busies

LEMMA PromoteFullStep ==
  OneWorker /\ IInv /\ (\E w \in Workers, r \in Captures : PromoteFull(w, r)) => IInv'
  <1> SUFFICES ASSUME OneWorker, IInv, NEW w \in Workers, NEW r \in Captures,
                      PromoteFull(w, r)
               PROVE  IInv'
    OBVIOUS
  <1> DEFINE again == [job[w].item EXCEPT !.due = FALSE, !.noted = TRUE]
  <1>1. pc[w] = "promote" /\ job[w].ret = "work" /\ Holds(w, r)
    BY HeldItem DEF PromoteFull, Busies
  <1>2. UNCHANGED <<pending, ready, failed, batch, todo, captured, handed, final,
                    flawed, delivered, promotions, crashes>>
    BY DEF PromoteFull, spool, hook, world
  <1>3. job[w].item \in Items /\ job[w].item.there
    BY <1>1 DEF IInv, TypeOK, Jobs, Holds
  <1>4. again \in Items /\ again.there
    BY <1>3, PutBack
  <1>5. Fail(w, r, "work") \/ Carry(w, r, "retry", again)
    BY DEF PromoteFull
  <1> HIDE DEF again
  <1>6. /\ pc' \in [Workers -> Steps] /\ job' \in [Workers -> Jobs]
        /\ job'[w].name = {r} /\ job'[w].ret = "work"
        /\ pc'[w] = "read" \/ (pc'[w] = "retry" /\ job'[w].item.there)
    <2>1. CASE Fail(w, r, "work")
      BY <2>1, FailBegins DEF IInv
    <2>2. CASE Carry(w, r, "retry", again)
      BY <1>4, <2>2, Carries DEF IInv, Steps
    <2> QED BY <1>5, <2>1, <2>2
  <1>7. Holds(w, r)'
    BY <1>1, <1>2, <1>6 DEF Holds
  <1>8. /\ ready' \subseteq Captures
        /\ failed' \in [Captures -> {"none", "husk", "evidence"}]
        /\ promotions' \in [Captures -> 0 .. MaxPromotions]
    BY <1>2 DEF IInv, TypeOK
  <1> QED BY <1>1, <1>2, <1>6, <1>7, <1>8, Proceeds DEF Busies

LEMMA ReadSourceStep ==
  OneWorker /\ IInv /\ (\E w \in Workers, r \in Captures : ReadSource(w, r)) => IInv'
  <1> SUFFICES ASSUME OneWorker, IInv, NEW w \in Workers, NEW r \in Captures,
                      ReadSource(w, r)
               PROVE  IInv'
    OBVIOUS
  <1>1. pc[w] = "read" /\ job[w].ret = "work" /\ Holds(w, r)
    BY HeldItem DEF ReadSource, Busies
  <1>2. /\ pc' = [pc EXCEPT ![w] = "fail"]
        /\ job' = [job EXCEPT ![w].body = "evidence"]
        /\ UNCHANGED <<pending, ready, failed, batch, todo, captured, handed, final,
                       flawed, delivered, promotions, crashes>>
    BY <1>1 DEF ReadSource, Goto, Holds, spool, hook, world
  <1>3. /\ pc' \in [Workers -> Steps] /\ pc'[w] = "fail"
        /\ job' \in [Workers -> Jobs] /\ job'[w].body = "evidence"
        /\ job'[w].name = job[w].name /\ job'[w].ret = job[w].ret
    BY <1>2 DEF IInv, TypeOK, Steps, Jobs
  <1>4. Holds(w, r)'
    BY <1>1, <1>2, <1>3 DEF Holds
  <1>5. /\ ready' \subseteq Captures
        /\ failed' \in [Captures -> {"none", "husk", "evidence"}]
        /\ promotions' \in [Captures -> 0 .. MaxPromotions]
    BY <1>2 DEF IInv, TypeOK
  <1> QED BY <1>1, <1>2, <1>3, <1>4, <1>5, Proceeds DEF Busies

LEMMA QuarantineStep ==
  OneWorker /\ IInv /\ (\E w \in Workers, r \in Captures : Quarantine(w, r)) => IInv'
  <1> SUFFICES ASSUME OneWorker, IInv, NEW w \in Workers, NEW r \in Captures,
                      Quarantine(w, r)
               PROVE  IInv'
    OBVIOUS
  <1>1. /\ pc[w] = "fail" /\ job[w].ret = "work" /\ Holds(w, r)
        /\ job[w].body = "evidence"
    BY HeldItem DEF Quarantine, Busies, Holds
  <1>2. /\ failed' = [failed EXCEPT ![r] = "evidence"]
        /\ pc' = [pc EXCEPT ![w] = "done"]
        /\ UNCHANGED <<pending, ready, batch, todo, job, captured, handed, final,
                       flawed, delivered, promotions, crashes>>
    BY <1>1 DEF Quarantine, Goto, hook, world
  <1>3. /\ pc' \in [Workers -> Steps] /\ pc'[w] = "done" /\ job' \in [Workers -> Jobs]
        /\ failed' \in [Captures -> {"none", "husk", "evidence"}]
        /\ failed'[r] = "evidence"
        /\ \A q \in Captures : failed[q] = "evidence" => failed'[q] = "evidence"
    BY <1>2 DEF IInv, TypeOK, Steps
  <1>4. Holds(w, r)'
    BY <1>1, <1>2, <1>3 DEF Holds
  <1>5. ready' \subseteq Captures /\ promotions' \in [Captures -> 0 .. MaxPromotions]
    BY <1>2 DEF IInv, TypeOK
  <1> QED BY <1>1, <1>2, <1>3, <1>4, <1>5, Proceeds DEF Busies

\* What is rewritten is what is there.
LEMMA RetryStep ==
  OneWorker /\ IInv /\ (\E w \in Workers, r \in Captures : Retry(w, r)) => IInv'
  <1> SUFFICES ASSUME OneWorker, IInv, NEW w \in Workers, NEW r \in Captures,
                      Retry(w, r)
               PROVE  IInv'
    OBVIOUS
  <1>0. \A v \in Workers : v = w
    BY DEF OneWorker
  <1>1. /\ TypeOK /\ Present /\ AtHand /\ CaptureKept /\ Credit /\ PromotionsBounded
    BY DEF IInv
  <1>2. pc[w] = "retry" /\ Holds(w, r) /\ todo[w] = {}
    BY HeldItem DEF Retry, Busies
  <1>3. /\ pending' = [pending EXCEPT ![r] = job[w].item]
        /\ UNCHANGED <<ready, failed, batch, todo, captured, handed, final, flawed,
                       delivered, promotions, crashes>>
        /\ Goto(w, "work") /\ job' = [job EXCEPT ![w] = NoJob]
    BY DEF Retry, hook, world
  <1>4. pc' \in [Workers -> Steps] /\ job' \in [Workers -> Jobs] /\ pc'[w] = "work"
    BY <1>1, <1>3, Frees DEF Steps
  <1>5. /\ pending' \in [Captures -> Items]
        /\ \A q \in Captures : pending'[q].there = pending[q].there
    BY <1>1, <1>2, <1>3 DEF TypeOK, Jobs, Holds
  <1>6. TypeOK'
    BY <1>1, <1>3, <1>4, <1>5 DEF TypeOK
  <1>7. Present'
    BY <1>0, <1>1, <1>2, <1>3, <1>5 DEF Present
  <1>8. AtHand'
    BY <1>0, <1>4 DEF AtHand, Busies
  <1>9. \A q \in Captures : ~Leaving(q) /\ ~Leaving(q)'
    BY <1>0, <1>2, <1>4 DEF Leaving
  <1>10. CaptureKept' /\ Credit' /\ PromotionsBounded'
    BY <1>1, <1>3, <1>5, <1>9 DEF CaptureKept, Credit, PromotionsBounded
  <1> QED BY <1>6, <1>7, <1>8, <1>10 DEF IInv

LEMMA RaiseStep ==
  OneWorker /\ IInv /\ (\E w \in Workers, r \in Captures : Raise(w, r)) => IInv'
  <1> SUFFICES ASSUME OneWorker, IInv, NEW w \in Workers, NEW r \in Captures,
                      Raise(w, r)
               PROVE  IInv'
    OBVIOUS
  <1>1. /\ Forgetful(w) /\ Spared /\ UNCHANGED crashes /\ pc[w] \in {"retry", "fail"}
    BY DEF Raise, Busy, Spared, spool, hook, world
  <1> QED BY <1>1, Forgets, Reading DEF IInv, Busies

LEMMA KillStep == OneWorker /\ IInv /\ (\E w \in Workers : Kill(w)) => IInv'
  <1> SUFFICES ASSUME OneWorker, IInv, NEW w \in Workers, Kill(w) PROVE IInv'
    OBVIOUS
  <1> USE Limits DEF IInv
  <1>0. \A v \in Workers : v = w
    BY DEF OneWorker
  <1>1. Forgetful(w) /\ Spared /\ crashes' = crashes + 1 /\ crashes' \in 0 .. MaxCrashes
    BY DEF Kill, Spared, spool, hook, world, TypeOK
  <1>2. /\ pc' \in [Workers -> Steps] /\ job' \in [Workers -> Jobs]
        /\ batch' \in [Workers -> [Captures -> Items]]
        /\ todo' \in [Workers -> SUBSET Captures]
        /\ pc'[w] = "idle" /\ todo'[w] = {}
        /\ \A q \in Captures : ~batch'[w][q].there
    BY <1>1, Forgets
  <1>3. TypeOK'
    BY <1>1, <1>2 DEF TypeOK, Spared
  <1>4. Present' /\ AtHand'
    BY <1>0, <1>2 DEF Present, AtHand, Busies
  <1>5. CaptureKept'
    BY <1>1 DEF CaptureKept, Spared
  <1>6. Credit' /\ PromotionsBounded'
    BY <1>1 DEF Credit, PromotionsBounded, TypeOK, Spared
  <1> QED BY <1>3, <1>4, <1>5, <1>6

\* The item goes; its round is ready, delivered or in quarantine.
LEMMA RemoveStep ==
  OneWorker /\ IInv /\ (\E w \in Workers, r \in Captures : RemoveItem(w, r)) => IInv'
  <1> SUFFICES ASSUME OneWorker, IInv, NEW w \in Workers, NEW r \in Captures,
                      RemoveItem(w, r)
               PROVE  IInv'
    OBVIOUS
  <1>0. \A v \in Workers : v = w
    BY DEF OneWorker
  <1>1. /\ TypeOK /\ Present /\ AtHand /\ CaptureKept /\ Credit /\ PromotionsBounded
    BY DEF IInv
  <1>2. pc[w] = "done" /\ Holds(w, r) /\ todo[w] = {} /\ job[w].ret = "work"
    BY HeldItem DEF RemoveItem, Busies
  <1>3. /\ pending' = [pending EXCEPT ![r] = NoItem]
        /\ UNCHANGED <<ready, failed, batch, todo, captured, handed, final, flawed,
                       delivered, promotions, crashes>>
        /\ Goto(w, "work") /\ job' = [job EXCEPT ![w] = NoJob]
    BY <1>2 DEF RemoveItem, hook, world
  <1>4. pc' \in [Workers -> Steps] /\ job' \in [Workers -> Jobs] /\ pc'[w] = "work"
    BY <1>1, <1>3, Frees DEF Steps
  <1>5. /\ pending' \in [Captures -> Items] /\ ~pending'[r].there
        /\ \A q \in Captures \ {r} : pending'[q] = pending[q]
    BY <1>1, <1>3, ItemTypes DEF TypeOK
  <1>6. TypeOK'
    BY <1>1, <1>3, <1>4, <1>5 DEF TypeOK
  <1>7. Present'
    BY <1>0, <1>1, <1>2, <1>3, <1>5 DEF Present, Holds
  <1>8. AtHand'
    BY <1>0, <1>4 DEF AtHand, Busies
  <1>9. \A q \in Captures : (Leaving(q) => q = r) /\ ~Leaving(q)'
    BY <1>0, <1>2, <1>4 DEF Leaving, Holds
  <1>10. CaptureKept'
    BY <1>1, <1>2, <1>3, <1>5 DEF CaptureKept, Holds, TypeOK
  <1>11. Credit' /\ PromotionsBounded'
    BY <1>1, <1>3, <1>5, <1>9 DEF Credit, PromotionsBounded
  <1> QED BY <1>6, <1>7, <1>8, <1>10, <1>11 DEF IInv

-----------------------------------------------------------------------------
(* The theorems. *)

LEMMA StepInv == OneWorker /\ IInv /\ [Next]_vars => IInv'
  <1>1. OneWorker /\ IInv /\ Next => IInv'
    BY DeferStep, CaptureStep, CommitStep, DeliverStep,
       BackoffElapsesStep, ListStep, EndListStep, EndBatchStep,
       KillStep, ReadItemStep, UnresolvedStep, RefusedStep,
       ResolvedStep, PromoteStep, PromoteFullStep, RetryStep,
       ReadSourceStep, QuarantineStep, RaiseStep, RemoveStep
       DEF Next, WorkerStep
  <1>2. IInv /\ UNCHANGED vars => IInv'
    <2> SUFFICES ASSUME IInv, UNCHANGED vars PROVE IInv'
      OBVIOUS
    <2> USE DEF vars, IInv
    <2>1. TypeOK'
      BY DEF TypeOK
    <2>2. Present' /\ AtHand' /\ CaptureKept'
      BY DEF Present, AtHand, Holds, CaptureKept
    <2>3. Credit' /\ PromotionsBounded'
      BY DEF Credit, Leaving, PromotionsBounded
    <2> QED BY <2>1, <2>2, <2>3
  <1> QED BY <1>1, <1>2

LEMMA Invariance == ASSUME OneWorker PROVE Spec => []IInv
  <1>1. Init => IInv
    BY InitInv
  <1>2. IInv /\ [Next]_vars => IInv'
    BY StepInv
  <1> QED BY <1>1, <1>2, PTL DEF Spec

\* adapters/hermes/hooks.py, capture_or_defer and run_once, with the pending
\* half of runtime/spool.py: with one worker, a round whose capture a hook was
\* told of stays in the spool in full until the core has it.
THEOREM CapturesAreKept == OneWorker => (Spec => []CaptureKept)
  <1> SUFFICES ASSUME OneWorker PROVE Spec => []CaptureKept
    OBVIOUS
  <1>1. IInv => CaptureKept
    BY DEF IInv
  <1> QED BY <1>1, Invariance, PTL

\* run_once: with one worker, a hand-in is promoted once, and once more at most
\* for each kill.
THEOREM PromotionsAreBounded == OneWorker => (Spec => []PromotionsBounded)
  <1> SUFFICES ASSUME OneWorker PROVE Spec => []PromotionsBounded
    OBVIOUS
  <1>1. IInv => PromotionsBounded
    BY DEF IInv
  <1> QED BY <1>1, Invariance, PTL

-----------------------------------------------------------------------------
(* The messages and the bounds of rounds, as Hermes and the hooks leave     *)
(* them: rows are in the order of their turns and times, a turn runs from   *)
(* its user's message to its final one, and results answer calls in order.  *)

RowKinds == {"user", "calls", "result", "final"}
Pairs    == Nat \X Nat
Row      == [turn : Turns, kind : RowKinds, time : Nat,
             calls : {<<>>} \cup UNION {[1 .. n -> BOOLEAN] : n \in 1 .. 2},
             of : {<<>>} \cup Pairs]

\* Pairs of a row and a place in it, in the order of events.
Before(p, q) == p[1] < q[1] \/ (p[1] = q[1] /\ p[2] < q[2])

IsCall(i, k)   == rows[i].kind = "calls" /\ k \in DOMAIN rows[i].calls
IsResult(i)    == rows[i].kind = "result"
Answered(i, k) == \E j \in DOMAIN rows : IsResult(j) /\ rows[j].of = <<i, k>>

RowsShaped == /\ rows \in Seq(Row) /\ clock \in Nat \ {0} /\ turn \in 0 .. MaxTurns
              /\ \A i \in DOMAIN rows : /\ rows[i].kind = "result" => rows[i].of \in Pairs
                                        /\ rows[i].turn <= turn
                                        /\ rows[i].time < clock

InTurn(i, j) == i < j /\ rows[i].turn = rows[j].turn

RowsSorted ==
  \A i, j \in DOMAIN rows : i < j =>
    /\ rows[i].time < rows[j].time
    /\ rows[i].turn <= rows[j].turn

\* A turn begins with its user's message and ends with its final one.
TurnsShaped ==
  /\ \A i, j \in DOMAIN rows : InTurn(i, j) =>
       rows[i].kind # "final" /\ rows[j].kind # "user"
  /\ \A j \in DOMAIN rows : rows[j].kind # "user" => Stored(rows[j].turn, "user")

\* A result answers a call of its turn stored before it.
ResultsOf ==
  \A i \in DOMAIN rows : IsResult(i) =>
    LET c == rows[i].of IN
    /\ c[1] \in 1 .. i - 1 /\ rows[c[1]].turn = rows[i].turn
    /\ IsCall(c[1], c[2])

\* Hermes stores the results of a turn in the order of the calls.
ResultsInOrder ==
  \A i, j \in DOMAIN rows : IsResult(i) /\ IsResult(j) /\ InTurn(i, j) =>
    Before(rows[i].of, rows[j].of)

\* Only the last calls of a turn may be without results, and if it is Hermes's
\* turn they wait.
Answers ==
  \A i \in DOMAIN rows : \A k \in Nat : IsCall(i, k) /\ ~Answered(i, k) =>
    /\ \A j \in DOMAIN rows : InTurn(i, j) => rows[j].kind \notin {"calls", "final"}
    /\ rows[i].turn = turn => \E w \in DOMAIN waiting : waiting[w] = <<i, k>>

\* The calls that wait are those of Hermes's turn later than any answered one.
Waits ==
  /\ waiting \in Seq(Pairs)
  /\ \A w \in DOMAIN waiting :
       LET c == waiting[w] IN
       /\ c[1] \in DOMAIN rows /\ rows[c[1]].turn = turn /\ IsCall(c[1], c[2])
       /\ \A j \in DOMAIN rows : rows[j].turn = turn /\ IsResult(j) => Before(rows[j].of, c)
       /\ \A j \in DOMAIN rows : InTurn(c[1], j) => rows[j].kind = "result"
  /\ \A v, w \in DOMAIN waiting : v < w => Before(waiting[v], waiting[w])

\* A bound names a message of its turn.
RoundsShaped ==
  /\ round \in [Turns -> [started : Nat, completed : Nat, user : Nat, final : Nat]]
  /\ \A t \in Turns :
       /\ round[t].user \in Places(t, "user") \cup {Unknown}
       /\ round[t].final \in Places(t, "final") \cup {Unknown}

\* Rounds start in turn, each after what was stored of the turns before.
Starts ==
  \A t \in Turns :
    /\ t < turn => round[t].started # Unknown
    /\ t > turn => round[t].started = Unknown
    /\ round[t].started # Unknown =>
         /\ round[t].started < clock
         /\ \A u \in Turns : u < t => Closed(u)
         /\ \A i \in DOMAIN rows : rows[i].turn < t => rows[i].time < round[t].started
    /\ \A i \in DOMAIN rows : rows[i].turn = t /\ rows[i].kind # "user" =>
         round[t].started # Unknown

\* A round is closed before a later turn stores more than the message of its user.
Closes ==
  \A t \in Turns : Closed(t) =>
    /\ round[t].started # Unknown
    /\ round[t].completed < clock
    /\ \A i \in DOMAIN rows : rows[i].turn > t /\ rows[i].kind # "user"
         => round[t].completed < rows[i].time

\* What was read of a closed round is what would be read again.
Reads == /\ DOMAIN read = Turns
         /\ \A t \in Turns : read[t] # <<>> => Closed(t) /\ read[t] = Recovered(t)

TableInv == /\ RowsShaped /\ RowsSorted /\ TurnsShaped /\ ResultsOf /\ ResultsInOrder
            /\ Answers /\ Waits /\ RoundsShaped /\ Starts /\ Closes
-----------------------------------------------------------------------------
(* The steps of Hermes and of the hooks. *)

LEMMA Grown ==
  ASSUME RowsShaped, NEW x, rows' = Append(rows, x)
  PROVE  /\ Len(rows) \in Nat /\ DOMAIN rows = 1 .. Len(rows)
         /\ DOMAIN rows' = 1 .. Len(rows) + 1 /\ Len(rows') = Len(rows) + 1
         /\ \A i \in DOMAIN rows : rows'[i] = rows[i] /\ i \in DOMAIN rows'
         /\ rows'[Len(rows) + 1] = x
         /\ \A i \in DOMAIN rows' : i \in DOMAIN rows \/ i = Len(rows) + 1
  BY DEF RowsShaped

LEMMA RowFacts ==
  ASSUME RowsShaped
  PROVE  /\ Len(rows) \in Nat /\ DOMAIN rows = 1 .. Len(rows)
         /\ \A i \in DOMAIN rows :
              /\ rows[i].turn \in Turns /\ rows[i].turn \in Nat
              /\ rows[i].time \in Nat /\ rows[i].kind \in RowKinds
              /\ rows[i].of \in {<<>>} \cup Pairs
<1> DEFINE Calls == {<<>>} \cup UNION {[1 .. n -> BOOLEAN] : n \in 1 .. 2}
<1>1. rows \in Seq(Row) /\ \A i \in DOMAIN rows : rows[i] \in Row
  BY DEF RowsShaped
<1>2. Row = [turn : Turns, kind : RowKinds, time : Nat, calls : Calls,
             of : {<<>>} \cup Pairs]
  BY DEF Row
<1> HIDE DEF Calls
<1>3. \A r \in Row : /\ r.turn \in Turns /\ r.time \in Nat /\ r.kind \in RowKinds
                     /\ r.of \in {<<>>} \cup Pairs
  BY <1>2
<1>4. \A t \in Turns : t \in Nat
  BY StateDbConstants DEF Turns
<1> QED BY <1>1, <1>3, <1>4

LEMMA GrowShape ==
  ASSUME TableInv, NEW kind \in RowKinds, NEW calls, NEW of, Store(kind, calls, of),
         turn # 0, turn' = turn,
         calls \in {<<>>} \cup UNION {[1 .. n -> BOOLEAN] : n \in 1 .. 2},
         of \in {<<>>} \cup Pairs, kind = "result" => of \in Pairs
  PROVE  RowsShaped' /\ RowsSorted'
<1> DEFINE x == [turn |-> turn, kind |-> kind, time |-> clock, calls |-> calls, of |-> of]
<1>1. rows' = Append(rows, x) /\ clock' = clock + 1
  BY DEF Store, Tick
<1>2. x \in Row
  BY StateDbConstants DEF TableInv, RowsShaped, Row, Turns
<1> HIDE DEF x
<1>3. x.turn = turn /\ x.time = clock /\ x.kind = kind /\ x.of = of
  BY DEF x
<1>4. RowsShaped'
  BY <1>1, <1>2, <1>3, Grown, RowFacts DEF TableInv, RowsShaped
<1>5. RowsSorted'
  BY <1>1, <1>3, Grown, RowFacts DEF TableInv, RowsSorted, RowsShaped
<1> QED BY <1>4, <1>5

LEMMA GrowTurns ==
  ASSUME TableInv, NEW kind \in RowKinds, NEW calls, NEW of, Store(kind, calls, of),
         turn # 0,
         kind = "user" => ~Stored(turn, "user"),
         kind # "user" => Stored(turn, "user") /\ ~Stored(turn, "final")
  PROVE  TurnsShaped'
<1> DEFINE x == [turn |-> turn, kind |-> kind, time |-> clock, calls |-> calls, of |-> of]
<1>1. rows' = Append(rows, x)
  BY DEF Store
<1> HIDE DEF x
<1>2. x.turn = turn /\ x.kind = kind
  BY DEF x
<1>3. RowsShaped
  BY DEF TableInv
<1>4. \A t, k : Stored(t, k) => Stored(t, k)'
  BY <1>1, <1>3, Grown DEF Stored, Places
<1>5. ASSUME NEW i \in DOMAIN rows', NEW j \in DOMAIN rows', InTurn(i, j)'
      PROVE  rows'[i].kind # "final" /\ rows'[j].kind # "user"
  <2>1. CASE j \in DOMAIN rows
    <3>1. i \in DOMAIN rows
      BY <2>1, <1>5, <1>1, <1>3, Grown DEF InTurn
    <3> QED BY <2>1, <3>1, <1>5, <1>1, <1>3, Grown DEF InTurn, TableInv, TurnsShaped
  <2>2. CASE j = Len(rows) + 1
    <3>1. i \in DOMAIN rows
      BY <2>2, <1>5, <1>1, <1>3, Grown DEF InTurn
    <3>2. rows[i].turn = turn
      BY <2>2, <3>1, <1>5, <1>1, <1>2, <1>3, Grown DEF InTurn
    <3>3. Stored(turn, rows[i].kind)
      BY <3>1, <3>2 DEF Stored, Places
    <3>4. kind = "user" => FALSE
      BY <3>1, <3>2, <3>3 DEF TableInv, TurnsShaped
    <3> QED BY <2>2, <3>1, <3>3, <3>4, <1>1, <1>2, <1>3, Grown
  <2> QED BY <2>1, <2>2, <1>1, <1>3, Grown
<1>6. ASSUME NEW j \in DOMAIN rows', rows'[j].kind # "user"
      PROVE  Stored(rows[j].turn, "user")'
  <2>1. CASE j \in DOMAIN rows
    BY <2>1, <1>1, <1>3, <1>4, <1>6, Grown DEF TableInv, TurnsShaped
  <2>2. CASE j = Len(rows) + 1
    BY <2>2, <1>1, <1>2, <1>3, <1>4, <1>6, Grown
  <2> QED BY <2>1, <2>2, <1>1, <1>3, Grown
<1> QED BY <1>5, <1>6 DEF TurnsShaped

LEMMA GrowResults ==
  ASSUME TableInv, NEW kind \in RowKinds, NEW calls, NEW of, Store(kind, calls, of),
         kind = "result" => waiting # <<>> /\ of = waiting[1]
  PROVE  ResultsOf' /\ ResultsInOrder'
<1> DEFINE x == [turn |-> turn, kind |-> kind, time |-> clock, calls |-> calls, of |-> of]
<1>0. PICK N : N = Len(rows) + 1
  OBVIOUS
<1>1. rows' = Append(rows, x)
  BY DEF Store
<1> HIDE DEF x
<1>2. x.turn = turn /\ x.kind = kind /\ x.of = of
  BY DEF x
<1>3. RowsShaped
  BY DEF TableInv
<1>4. /\ Len(rows) \in Nat /\ DOMAIN rows = 1 .. Len(rows)
      /\ DOMAIN rows' = 1 .. Len(rows) + 1
      /\ \A i \in DOMAIN rows : rows'[i] = rows[i] /\ i \in DOMAIN rows'
      /\ rows'[N] = x
      /\ \A i \in DOMAIN rows' : i \in DOMAIN rows \/ i = N
  BY <1>0, <1>1, <1>3, Grown
<1>5. N \in Nat /\ N \notin DOMAIN rows /\ \A i \in DOMAIN rows : i < N
  BY <1>0, <1>4
<1>6. kind = "result" =>
        /\ of[1] \in DOMAIN rows /\ rows[of[1]].turn = turn /\ IsCall(of[1], of[2])
        /\ \A j \in DOMAIN rows : rows[j].turn = turn /\ IsResult(j) => Before(rows[j].of, of)
  <2> SUFFICES ASSUME kind = "result" PROVE <1>6!2
    OBVIOUS
  <2>1. waiting \in Seq(Pairs) /\ 1 \in DOMAIN waiting
    BY DEF TableInv, Waits
  <2> QED BY <2>1 DEF TableInv, Waits
<1>7. ASSUME NEW i \in DOMAIN rows', IsResult(i)'
      PROVE  LET c == rows'[i].of IN
             /\ c[1] \in 1 .. i - 1 /\ rows'[c[1]].turn = rows'[i].turn
             /\ rows'[c[1]].kind = "calls" /\ c[2] \in DOMAIN rows'[c[1]].calls
  <2>1. CASE i \in DOMAIN rows
    <3>1. IsResult(i)
      BY <2>1, <1>4, <1>7 DEF IsResult
    <3>2. /\ rows[i].of[1] \in 1 .. i - 1
          /\ rows[rows[i].of[1]].turn = rows[i].turn
          /\ IsCall(rows[i].of[1], rows[i].of[2])
      BY <2>1, <3>1 DEF TableInv, ResultsOf
    <3>3. rows[i].of[1] \in DOMAIN rows
      BY <2>1, <3>2, <1>4
    <3> QED BY <2>1, <3>2, <3>3, <1>4 DEF IsCall
  <2>2. CASE i = N
    <3>1. kind = "result" /\ rows'[i].of = of
      BY <2>2, <1>2, <1>4, <1>7 DEF IsResult
    <3>2. of[1] \in 1 .. N - 1 /\ of[1] \in DOMAIN rows
      BY <3>1, <1>0, <1>4, <1>6
    <3> QED BY <2>2, <3>1, <3>2, <1>2, <1>4, <1>6 DEF IsCall
  <2> QED BY <2>1, <2>2, <1>4
<1>8. ASSUME NEW i \in DOMAIN rows', NEW j \in DOMAIN rows', IsResult(i)', IsResult(j)',
             InTurn(i, j)'
      PROVE  Before(rows'[i].of, rows'[j].of)
  <2>0. i \in DOMAIN rows
    BY <1>4, <1>5, <1>8 DEF InTurn
  <2>1. CASE j \in DOMAIN rows
    BY <2>0, <2>1, <1>4, <1>8 DEF TableInv, ResultsInOrder, IsResult, InTurn
  <2>2. CASE j = N
    BY <2>0, <2>2, <1>2, <1>4, <1>6, <1>8 DEF IsResult, InTurn
  <2> QED BY <2>1, <2>2, <1>4
<1> QED BY <1>7, <1>8 DEF ResultsOf, ResultsInOrder, IsCall

LEMMA GrowAnswers ==
  ASSUME TableInv, NEW kind \in RowKinds, NEW calls, NEW of, Store(kind, calls, of),
         turn' = turn,
         kind = "user" => waiting' = waiting,
         kind \in {"calls", "final"} => waiting = <<>>,
         kind = "calls" => waiting' = [k \in DOMAIN calls |-> <<Len(rows) + 1, k>>],
         kind = "result" => waiting # <<>> /\ of = waiting[1] /\ waiting' = Tail(waiting)
  PROVE  Answers'
<1> DEFINE x == [turn |-> turn, kind |-> kind, time |-> clock, calls |-> calls, of |-> of]
<1>0. PICK N : N = Len(rows) + 1
  OBVIOUS
<1>1. rows' = Append(rows, x)
  BY DEF Store
<1> HIDE DEF x
<1>2. x.turn = turn /\ x.kind = kind /\ x.of = of /\ x.calls = calls
  BY DEF x
<1>3. RowsShaped
  BY DEF TableInv
<1>4. /\ Len(rows) \in Nat /\ DOMAIN rows = 1 .. Len(rows)
      /\ \A i \in DOMAIN rows : rows'[i] = rows[i] /\ i \in DOMAIN rows' /\ i < N
      /\ rows'[N] = x /\ N \in DOMAIN rows' /\ N \in Nat
      /\ \A i \in DOMAIN rows' : i \in DOMAIN rows \/ i = N
      /\ \A i \in DOMAIN rows' : ~(N < i)
  BY <1>0, <1>1, <1>3, Grown
<1>5. kind = "calls" => waiting' = [k \in DOMAIN calls |-> <<N, k>>]
  BY <1>0
<1>6. waiting \in Seq(Pairs)
  BY DEF TableInv, Waits
<1> SUFFICES ASSUME NEW i \in DOMAIN rows', NEW k \in Nat, IsCall(i, k)', ~Answered(i, k)'
             PROVE  /\ \A j \in DOMAIN rows' : InTurn(i, j)' => rows'[j].kind \notin {"calls", "final"}
                    /\ rows'[i].turn = turn => \E w \in DOMAIN waiting' : waiting'[w] = <<i, k>>
  BY DEF Answers
<1>7. CASE i = N
  <2>1. kind = "calls" /\ k \in DOMAIN calls
    BY <1>2, <1>4, <1>7 DEF IsCall
  <2> QED BY <2>1, <1>4, <1>5, <1>7 DEF InTurn
<1>8. CASE i \in DOMAIN rows
  <2>1. IsCall(i, k) /\ ~Answered(i, k)
    BY <1>4, <1>8 DEF IsCall, Answered, IsResult
  <2>2. /\ \A j \in DOMAIN rows : InTurn(i, j) => rows[j].kind \notin {"calls", "final"}
        /\ rows[i].turn = turn => \E w \in DOMAIN waiting : waiting[w] = <<i, k>>
    BY <2>1, <1>8 DEF TableInv, Answers
  <2>3. ASSUME NEW j \in DOMAIN rows', InTurn(i, j)' PROVE rows'[j].kind \notin {"calls", "final"}
    <3>1. CASE j \in DOMAIN rows
      BY <3>1, <2>2, <2>3, <1>4, <1>8 DEF InTurn
    <3>2. CASE j = N
      <4>1. rows[i].turn = turn
        BY <3>2, <2>3, <1>2, <1>4, <1>8 DEF InTurn
      <4>2. waiting # <<>>
        BY <4>1, <2>2
      <4> QED BY <4>2, <3>2, <1>2, <1>4
    <3> QED BY <3>1, <3>2, <1>4
  <2>4. ASSUME rows'[i].turn = turn PROVE \E w \in DOMAIN waiting' : waiting'[w] = <<i, k>>
    <3>1. PICK w \in DOMAIN waiting : waiting[w] = <<i, k>>
      BY <2>2, <2>4, <1>4, <1>8
    <3>2. CASE kind = "result"
      <4>1. w # 1
        <5> SUFFICES ASSUME w = 1 PROVE FALSE
          OBVIOUS
        <5>1. IsResult(N)' /\ rows'[N].of = <<i, k>>
          BY <3>1, <3>2, <1>2, <1>4 DEF IsResult
        <5> QED BY <5>1, <1>4 DEF Answered
      <4>2. w - 1 \in DOMAIN waiting' /\ waiting'[w - 1] = waiting[w]
        BY <3>1, <3>2, <4>1, <1>6
      <4> QED BY <3>1, <4>2
    <3>3. CASE kind = "user"
      BY <3>1, <3>3
    <3>4. kind \notin {"calls", "final"}
      BY <3>1
    <3> QED BY <3>2, <3>3, <3>4 DEF RowKinds
  <2> QED BY <2>3, <2>4
<1> QED BY <1>4, <1>7, <1>8

LEMMA GrowWaits ==
  ASSUME TableInv, NEW kind \in RowKinds, NEW calls, NEW of, Store(kind, calls, of),
         turn' = turn, kind = "calls" => DOMAIN calls \subseteq Nat /\ calls \in Seq(BOOLEAN),
         kind = "user" => ~Stored(turn, "user") /\ waiting' = waiting,
         kind = "final" => waiting' = waiting /\ waiting = <<>>,
         kind = "calls" => waiting' = [k \in DOMAIN calls |-> <<Len(rows) + 1, k>>],
         kind = "result" => waiting # <<>> /\ of = waiting[1] /\ waiting' = Tail(waiting)
  PROVE  Waits'
<1> DEFINE x == [turn |-> turn, kind |-> kind, time |-> clock, calls |-> calls, of |-> of]
<1>0. PICK N : N = Len(rows) + 1
  OBVIOUS
<1>1. rows' = Append(rows, x)
  BY DEF Store
<1> HIDE DEF x
<1>2. x.turn = turn /\ x.kind = kind /\ x.of = of /\ x.calls = calls
  BY DEF x
<1>3. RowsShaped
  BY DEF TableInv
<1>4. /\ Len(rows) \in Nat /\ DOMAIN rows = 1 .. Len(rows)
      /\ \A i \in DOMAIN rows : rows'[i] = rows[i] /\ i \in DOMAIN rows' /\ i < N
      /\ rows'[N] = x /\ N \in DOMAIN rows' /\ N \in Nat
      /\ \A i \in DOMAIN rows' : i \in DOMAIN rows \/ i = N
      /\ \A i \in DOMAIN rows' : ~(N < i)
  BY <1>0, <1>1, <1>3, Grown
<1>5. kind = "calls" => waiting' = [k \in DOMAIN calls |-> <<N, k>>]
  BY <1>0
<1>6. waiting \in Seq(Pairs)
  BY DEF TableInv, Waits
<1>7. CASE kind \in {"user", "final"}
  <2>1. waiting = <<>>
    <3>1. ASSUME kind = "user", NEW w \in DOMAIN waiting PROVE FALSE
      <4>1. /\ waiting[w][1] \in DOMAIN rows /\ rows[waiting[w][1]].turn = turn
            /\ rows[waiting[w][1]].kind = "calls"
        BY DEF TableInv, Waits, IsCall
      <4> QED BY <3>1, <4>1 DEF TableInv, TurnsShaped
    <3>2. CASE kind = "user"
      <4>1. DOMAIN waiting = {}
        BY <3>1, <3>2
      <4>2. DOMAIN waiting = 1 .. Len(waiting) /\ Len(waiting) \in Nat
        BY <1>6
      <4>3. Len(waiting) = 0
        BY <4>1, <4>2
      <4> QED BY <4>3, <1>6
    <3>3. CASE kind = "final"
      BY <3>3
    <3> QED BY <3>2, <3>3, <1>7
  <2>2. waiting' = <<>>
    BY <2>1, <1>7
  <2>3. waiting' \in Seq(Pairs) /\ DOMAIN waiting' = {}
    BY <2>2
  <2> QED BY <2>3 DEF Waits
<1>8. CASE kind = "calls"
  <2>1. waiting' \in Seq(Pairs) /\ DOMAIN waiting' = DOMAIN calls
    BY <1>4, <1>5, <1>8 DEF Pairs
  <2>2. ASSUME NEW w \in DOMAIN waiting'
        PROVE  /\ waiting'[w] = <<N, w>> /\ w \in Nat
               /\ IsCall(N, w)'
               /\ \A j \in DOMAIN rows' : rows'[j].turn = turn /\ IsResult(j)' => Before(rows'[j].of, <<N, w>>)
               /\ \A j \in DOMAIN rows' : ~(N < j)
    <3>1. waiting'[w] = <<N, w>> /\ w \in Nat
      BY <2>1, <1>5, <1>8
    <3>2. IsCall(N, w)'
      BY <2>1, <1>2, <1>4, <1>8 DEF IsCall
    <3>3. ASSUME NEW j \in DOMAIN rows', IsResult(j)' PROVE Before(rows'[j].of, <<N, w>>)
      <4>1. j \in DOMAIN rows /\ IsResult(j) /\ rows'[j] = rows[j]
        BY <3>3, <1>2, <1>4, <1>8 DEF IsResult
      <4>2. rows[j].of[1] \in 1 .. j - 1
        BY <4>1 DEF TableInv, ResultsOf
      <4> QED BY <4>1, <4>2, <1>4 DEF Before
    <3> QED BY <3>1, <3>2, <3>3, <1>4
  <2>3. \A v, w \in DOMAIN waiting' : v < w => Before(waiting'[v], waiting'[w])
    BY <2>2 DEF Before
  <2>4. ASSUME NEW w \in DOMAIN waiting'
        PROVE  LET c == waiting'[w] IN
               /\ c[1] \in DOMAIN rows' /\ rows'[c[1]].turn = turn
               /\ rows'[c[1]].kind = "calls" /\ c[2] \in DOMAIN rows'[c[1]].calls
               /\ \A j \in DOMAIN rows' : rows'[j].turn = turn /\ IsResult(j)' => Before(rows'[j].of, c)
               /\ \A j \in DOMAIN rows' : ~(c[1] < j)
    <3>0. waiting'[w] = <<N, w>>
      BY <2>2
    <3>1. waiting'[w][1] = N /\ waiting'[w][2] = w
      BY <3>0
    <3> QED BY <2>2, <3>0, <3>1, <1>2, <1>4 DEF IsCall
  <2> QED BY <2>1, <2>3, <2>4 DEF Waits, IsCall, InTurn
<1>9. CASE kind = "result"
  <2>1. /\ waiting' \in Seq(Pairs)
        /\ \A w \in DOMAIN waiting' : w + 1 \in DOMAIN waiting /\ waiting'[w] = waiting[w + 1]
                                      /\ 1 < w + 1 /\ w \in Int
        /\ 1 \in DOMAIN waiting
    BY <1>6, <1>9
  <2>2. ASSUME NEW w \in DOMAIN waiting'
        PROVE  LET c == waiting'[w] IN
               /\ c[1] \in DOMAIN rows' /\ rows'[c[1]].turn = turn
               /\ rows'[c[1]].kind = "calls" /\ c[2] \in DOMAIN rows'[c[1]].calls
               /\ \A j \in DOMAIN rows' : rows'[j].turn = turn /\ IsResult(j)' => Before(rows'[j].of, c)
               /\ \A j \in DOMAIN rows' : c[1] < j /\ rows'[c[1]].turn = rows'[j].turn
                                            => rows'[j].kind = "result"
    <3>0. PICK c : c = waiting'[w]
      OBVIOUS
    <3>1. c = waiting[w + 1] /\ w + 1 \in DOMAIN waiting
      BY <2>1, <3>0
    <3>2. /\ c[1] \in DOMAIN rows /\ rows[c[1]].turn = turn /\ IsCall(c[1], c[2])
          /\ \A j \in DOMAIN rows : rows[j].turn = turn /\ IsResult(j) => Before(rows[j].of, c)
          /\ \A j \in DOMAIN rows : InTurn(c[1], j) => rows[j].kind = "result"
      BY <3>1 DEF TableInv, Waits
    <3>3. Before(of, c)
      BY <2>1, <3>1, <1>9 DEF TableInv, Waits
    <3>4. c[1] \in DOMAIN rows' /\ rows'[c[1]].turn = turn /\ IsCall(c[1], c[2])'
      BY <3>2, <1>4 DEF IsCall
    <3>5. \A j \in DOMAIN rows' : rows'[j].turn = turn /\ IsResult(j)' => Before(rows'[j].of, c)
      BY <3>2, <3>3, <1>2, <1>4 DEF IsResult
    <3>6. \A j \in DOMAIN rows' : InTurn(c[1], j)' => rows'[j].kind = "result"
      BY <3>2, <1>2, <1>4, <1>9 DEF InTurn
    <3> QED BY <3>0, <3>4, <3>5, <3>6 DEF IsCall, InTurn
  <2>3. \A v, w \in DOMAIN waiting' : v < w => Before(waiting'[v], waiting'[w])
    <3>1. \A v, w \in DOMAIN waiting' : v < w => v + 1 < w + 1
      BY <2>1
    <3> QED BY <2>1, <3>1 DEF TableInv, Waits
  <2> QED BY <2>1, <2>2, <2>3 DEF Waits, IsCall, InTurn
<1> QED BY <1>7, <1>8, <1>9 DEF RowKinds

LEMMA GrowRounds ==
  ASSUME TableInv, NEW kind \in RowKinds, NEW calls, NEW of, Store(kind, calls, of),
         turn' = turn, round' = round, turn # 0,
         kind # "user" => round[turn].started # Unknown
  PROVE  RoundsShaped' /\ Starts' /\ Closes'
<1> DEFINE x == [turn |-> turn, kind |-> kind, time |-> clock, calls |-> calls, of |-> of]
<1>0. PICK N : N = Len(rows) + 1
  OBVIOUS
<1>1. rows' = Append(rows, x) /\ clock' = clock + 1
  BY DEF Store, Tick
<1> HIDE DEF x
<1>2. x.turn = turn /\ x.kind = kind /\ x.time = clock
  BY DEF x
<1>3. RowsShaped /\ clock \in Nat /\ turn \in Nat /\ turn \in Turns
  BY StateDbConstants DEF TableInv, RowsShaped, Turns
<1>4. /\ \A i \in DOMAIN rows : rows'[i] = rows[i] /\ i \in DOMAIN rows'
      /\ rows'[N] = x
      /\ \A i \in DOMAIN rows' : i \in DOMAIN rows \/ i = N
  BY <1>0, <1>1, <1>3, Grown
<1>5. \A t \in Turns : /\ t \in Nat
                       /\ round[t].started \in Nat /\ round[t].completed \in Nat
  BY StateDbConstants DEF TableInv, RoundsShaped, Turns
<1>6. RoundsShaped'
  BY <1>4 DEF TableInv, RoundsShaped, Places
<1>7. Starts'
  <2> SUFFICES ASSUME NEW t \in Turns
               PROVE  /\ t < turn => round[t].started # Unknown
                      /\ t > turn => round[t].started = Unknown
                      /\ round[t].started # Unknown =>
                           /\ round[t].started < clock + 1
                           /\ \A u \in Turns : u < t => Closed(u)
                           /\ \A i \in DOMAIN rows' :
                                rows'[i].turn < t => rows'[i].time < round[t].started
                      /\ \A i \in DOMAIN rows' : rows'[i].turn = t /\ rows'[i].kind # "user" =>
                           round[t].started # Unknown
    BY <1>1 DEF Starts, Closed
  <2>1. /\ t < turn => round[t].started # Unknown
        /\ t > turn => round[t].started = Unknown
        /\ round[t].started # Unknown =>
             /\ round[t].started < clock
             /\ \A u \in Turns : u < t => Closed(u)
             /\ \A i \in DOMAIN rows : rows[i].turn < t => rows[i].time < round[t].started
        /\ \A i \in DOMAIN rows : rows[i].turn = t /\ rows[i].kind # "user" =>
             round[t].started # Unknown
    BY DEF TableInv, Starts
  <2>2. round[t].started < clock => round[t].started < clock + 1
    BY <1>3, <1>5
  <2>3. ASSUME round[t].started # Unknown, NEW i \in DOMAIN rows', rows'[i].turn < t
        PROVE  rows'[i].time < round[t].started
    <3>1. i # N
      BY <2>1, <2>3, <1>2, <1>3, <1>4, <1>5
    <3> QED BY <3>1, <2>1, <2>3, <1>4
  <2>4. ASSUME NEW i \in DOMAIN rows', rows'[i].turn = t, rows'[i].kind # "user"
        PROVE  round[t].started # Unknown
    BY <2>1, <2>4, <1>2, <1>4
  <2> QED BY <2>1, <2>2, <2>3, <2>4
<1>8. Closes'
  <2> SUFFICES ASSUME NEW t \in Turns, Closed(t)
               PROVE  /\ round[t].started # Unknown
                      /\ round[t].completed < clock + 1
                      /\ \A i \in DOMAIN rows' : rows'[i].turn > t /\ rows'[i].kind # "user"
                           => round[t].completed < rows'[i].time
    BY <1>1 DEF Closes, Closed
  <2>1. /\ round[t].started # Unknown
        /\ round[t].completed < clock
        /\ \A i \in DOMAIN rows : rows[i].turn > t /\ rows[i].kind # "user"
             => round[t].completed < rows[i].time
    BY DEF TableInv, Closes
  <2> QED BY <2>1, <1>2, <1>3, <1>4, <1>5
<1> QED BY <1>6, <1>7, <1>8

\* A message stored keeps the invariant.
LEMMA Grow ==
  ASSUME TableInv, NEW kind \in RowKinds, NEW calls, NEW of, Store(kind, calls, of),
         turn' = turn, round' = round, turn # 0,
         calls \in {<<>>} \cup UNION {[1 .. n -> BOOLEAN] : n \in 1 .. 2},
         of \in {<<>>} \cup Pairs,
         kind = "user" => ~Stored(turn, "user") /\ waiting' = waiting,
         kind # "user" => Going /\ ~Stored(turn, "final"),
         kind \in {"calls", "final"} => waiting = <<>>,
         kind = "final" => waiting' = waiting,
         kind = "calls" => /\ DOMAIN calls \subseteq Nat /\ calls \in Seq(BOOLEAN)
                           /\ waiting' = [k \in DOMAIN calls |-> <<Len(rows) + 1, k>>],
         kind = "result" => /\ waiting # <<>> /\ of = waiting[1] /\ of \in Pairs
                            /\ waiting' = Tail(waiting)
  PROVE  TableInv'
<1>1. RowsShaped' /\ RowsSorted'
  BY GrowShape
<1>2. TurnsShaped'
  BY GrowTurns DEF Going
<1>3. ResultsOf' /\ ResultsInOrder'
  BY GrowResults
<1>4. Answers' /\ Waits'
  BY GrowAnswers, GrowWaits
<1>5. RoundsShaped' /\ Starts' /\ Closes'
  BY GrowRounds DEF Going
<1> QED BY <1>1, <1>2, <1>3, <1>4, <1>5 DEF TableInv

LEMMA StoringKeeps ==
  ASSUME TableInv, StoreUser \/ StoreCalls \/ StoreResult \/ StoreFinal
  PROVE  TableInv'
<1>0. waiting \in Seq(Pairs) /\ <<>> \in {<<>>} \cup Pairs
  BY DEF TableInv, Waits
<1>1. CASE StoreUser
  BY <1>0, <1>1, Grow DEF StoreUser, RowKinds
<1>2. CASE StoreCalls
  <2>0. PICK n \in 1 .. 2 : \E named \in [1 .. n -> BOOLEAN] :
          /\ Store("calls", named, <<>>)
          /\ waiting' = [k \in 1 .. n |-> <<Len(rows) + 1, k>>]
    BY <1>2 DEF StoreCalls
  <2>1. PICK named \in [1 .. n -> BOOLEAN] :
          /\ Store("calls", named, <<>>)
          /\ waiting' = [k \in 1 .. n |-> <<Len(rows) + 1, k>>]
    BY <2>0
  <2>2. /\ named \in {<<>>} \cup UNION {[1 .. m -> BOOLEAN] : m \in 1 .. 2}
        /\ DOMAIN named = 1 .. n /\ DOMAIN named \subseteq Nat /\ named \in Seq(BOOLEAN)
    OBVIOUS
  <2>3. waiting' = [k \in DOMAIN named |-> <<Len(rows) + 1, k>>]
    BY <2>1, <2>2
  <2>4. /\ Going /\ ~Stored(turn, "final") /\ waiting = <<>> /\ turn # 0
        /\ turn' = turn /\ round' = round
    BY <1>2 DEF StoreCalls, Going
  <2> QED BY <2>1, <2>2, <2>3, <2>4, <1>0, Grow DEF RowKinds
<1>3. CASE StoreResult
  <2>1. /\ waiting # <<>> /\ Head(waiting) = waiting[1] /\ waiting[1] \in Pairs
        /\ 1 \in DOMAIN waiting
    BY <1>0, <1>3 DEF StoreResult
  <2>2. ~Stored(turn, "final")
    <3> DEFINE c == waiting[1][1]
    <3>1. /\ c \in DOMAIN rows /\ rows[c].turn = turn /\ rows[c].kind = "calls"
          /\ \A j \in DOMAIN rows : InTurn(c, j) => rows[j].kind = "result"
      BY <2>1 DEF TableInv, Waits, IsCall
    <3> SUFFICES ASSUME NEW j \in DOMAIN rows, rows[j].turn = turn, rows[j].kind = "final"
                 PROVE  FALSE
      BY DEF Stored, Places
    <3>2. j < c \/ c < j \/ j = c
      BY <3>1, RowFacts DEF TableInv
    <3> QED BY <3>1, <3>2 DEF TableInv, TurnsShaped, InTurn
  <2> QED BY <2>1, <2>2, <1>3, Grow DEF StoreResult, RowKinds, Going
<1>4. CASE StoreFinal
  BY <1>0, <1>4, Grow DEF StoreFinal, RowKinds, Going
<1> QED BY <1>1, <1>2, <1>3, <1>4

LEMMA TurnNat == \A t \in Turns : t \in Nat /\ t # 0
  BY StateDbConstants DEF Turns

\* What is said of the messages alone.
LEMMA RowsKept ==
  ASSUME TableInv, rows' = rows, waiting' = waiting, turn' = turn,
         clock' \in {clock, clock + 1}
  PROVE  /\ RowsShaped' /\ RowsSorted' /\ TurnsShaped' /\ ResultsOf' /\ ResultsInOrder'
         /\ Answers' /\ Waits'
<1>1. RowsShaped'
  BY RowFacts DEF TableInv, RowsShaped
<1>2. RowsSorted' /\ TurnsShaped' /\ ResultsOf' /\ ResultsInOrder'
  BY DEF TableInv, RowsSorted, TurnsShaped, ResultsOf, ResultsInOrder, IsCall, IsResult,
         InTurn, Stored, Places
<1>3. Answers' /\ Waits'
  BY DEF TableInv, Answers, Waits, IsCall, IsResult, InTurn, Answered
<1> QED BY <1>1, <1>2, <1>3

LEMMA InitTableInv == TableInit => TableInv
<1> SUFFICES ASSUME TableInit PROVE TableInv
  OBVIOUS
<1>1. DOMAIN rows = {} /\ rows \in Seq(Row) /\ DOMAIN waiting = {} /\ waiting \in Seq(Pairs)
  BY DEF TableInit
<1>2. RowsShaped /\ RowsSorted /\ TurnsShaped /\ ResultsOf /\ ResultsInOrder /\ Answers /\ Waits
  BY <1>1, StateDbConstants
     DEF TableInit, RowsShaped, RowsSorted, TurnsShaped, ResultsOf, ResultsInOrder, Answers, Waits
<1>3. RoundsShaped /\ Starts /\ Closes
  BY <1>1, TurnNat DEF TableInit, RoundsShaped, Starts, Closes, Closed, Unknown
<1> QED BY <1>2, <1>3 DEF TableInv

LEMMA NewTurnKeeps ==
  ASSUME TableInv, NewTurn
  PROVE  TableInv'
<1>1. /\ rows' = rows /\ clock' = clock /\ round' = round /\ turn' = turn + 1
      /\ waiting' = <<>> /\ turn < MaxTurns
      /\ turn # 0 => round[turn].started # Unknown
  BY DEF NewTurn
<1>2. /\ turn \in Nat /\ turn + 1 \in 0 .. MaxTurns /\ MaxTurns \in Nat
      /\ turn # 0 => turn \in Turns
  BY <1>1, StateDbConstants DEF TableInv, RowsShaped, Turns
<1>3. /\ \A i \in DOMAIN rows : rows[i].turn \in Nat /\ rows[i].turn <= turn
  BY RowFacts DEF TableInv, RowsShaped
<1>4. RowsShaped'
  BY <1>1, <1>2, <1>3 DEF TableInv, RowsShaped
<1>5. RowsSorted' /\ TurnsShaped' /\ ResultsOf' /\ ResultsInOrder'
  BY <1>1 DEF TableInv, RowsSorted, TurnsShaped, ResultsOf, ResultsInOrder, IsCall, IsResult,
              InTurn, Stored, Places
<1>6. Answers'
  <2>1. \A i, k : /\ IsCall(i, k)' <=> IsCall(i, k)
                  /\ Answered(i, k)' <=> Answered(i, k)
                  /\ InTurn(i, k)' <=> InTurn(i, k)
    BY <1>1 DEF IsCall, IsResult, InTurn, Answered
  <2>2. \A i \in DOMAIN rows : rows[i].turn # turn + 1
    BY <1>2, <1>3
  <2> QED BY <2>1, <2>2, <1>1 DEF TableInv, Answers
<1>7. Waits'
  <2>1. waiting' \in Seq(Pairs) /\ DOMAIN waiting' = {}
    BY <1>1
  <2> QED BY <2>1 DEF Waits
<1>8. RoundsShaped' /\ Closes'
  BY <1>1 DEF TableInv, RoundsShaped, Closes, Closed, Places
<1>9. Starts'
  <2>1. \A t \in Turns : /\ t < turn + 1 => round[t].started # Unknown
                         /\ t > turn + 1 => round[t].started = Unknown
    BY <1>1, <1>2, TurnNat DEF TableInv, Starts
  <2> QED BY <2>1, <1>1 DEF TableInv, Starts, Closed
<1> QED BY <1>4, <1>5, <1>6, <1>7, <1>8, <1>9 DEF TableInv

LEMMA PreKeeps ==
  ASSUME TableInv, Pre
  PROVE  TableInv'
<1>1. /\ rows' = rows /\ turn' = turn /\ waiting' = waiting /\ clock' = clock + 1
      /\ turn # 0 /\ round[turn].started = Unknown
  BY DEF Pre, Tick
<1>2. PICK id \in IdsOf(turn, "user") :
        round' = [t \in Turns |->
          CASE t = turn -> [round[t] EXCEPT !.started = clock, !.user = id]
            [] round[t].started # Unknown /\ ~Closed(t) -> ClosedNow(round[t])
            [] OTHER -> round[t]]
  BY DEF Pre
<1>3. /\ turn \in Nat /\ turn \in Turns /\ clock \in Nat \ {0}
      /\ \A i \in DOMAIN rows : /\ rows[i].turn \in Nat /\ rows[i].turn <= turn
                                /\ rows[i].time \in Nat /\ rows[i].time < clock
  BY <1>1, StateDbConstants, RowFacts DEF TableInv, RowsShaped, Turns
<1>4. round \in [Turns -> [started : Nat, completed : Nat, user : Nat, final : Nat]]
  BY DEF TableInv, RoundsShaped
<1>5. /\ id \in Nat /\ id \in Places(turn, "user") \cup {Unknown}
  <2>1. Places(turn, "user") \subseteq Nat
    BY RowFacts DEF TableInv, Places
  <2> QED BY <2>1 DEF IdsOf, Unknown
<1>6. /\ round'[turn].started = clock /\ round'[turn].user = id
      /\ round'[turn].completed = round[turn].completed
      /\ round'[turn].final = round[turn].final
      /\ round'[turn] \in [started : Nat, completed : Nat, user : Nat, final : Nat]
  <2>1. round'[turn] = [round[turn] EXCEPT !.started = clock, !.user = id]
    BY <1>1, <1>2, <1>3
  <2>2. round[turn] \in [started : Nat, completed : Nat, user : Nat, final : Nat]
    BY <1>3, <1>4
  <2> QED BY <2>1, <2>2, <1>3, <1>5
<1>7. ASSUME NEW t \in Turns, t # turn
      PROVE  /\ round'[t].started = round[t].started /\ round'[t].user = round[t].user
             /\ round'[t].final = round[t].final
             /\ round'[t] \in [started : Nat, completed : Nat, user : Nat, final : Nat]
             /\ round'[t].completed = IF round[t].started # Unknown /\ ~Closed(t)
                                        THEN clock ELSE round[t].completed
  <2>1. round'[t] = IF round[t].started # Unknown /\ ~Closed(t) THEN ClosedNow(round[t])
                                                                ELSE round[t]
    BY <1>2, <1>7
  <2>2. ClosedNow(round[t]) = [round[t] EXCEPT !.completed = clock]
    BY DEF ClosedNow
  <2>3. round[t] \in [started : Nat, completed : Nat, user : Nat, final : Nat]
    BY <1>4
  <2> QED BY <2>1, <2>2, <2>3, <1>3
<1>8. RoundsShaped'
  <2>1. round' \in [Turns -> [started : Nat, completed : Nat, user : Nat, final : Nat]]
    BY <1>2, <1>6, <1>7
  <2>2. \A t, k : Places(t, k)' = Places(t, k)
    BY <1>1 DEF Places
  <2> QED BY <2>1, <2>2, <1>5, <1>6, <1>7 DEF TableInv, RoundsShaped
<1>9. ~Closed(turn) /\ \A t \in Turns : Closed(t) => Closed(t)'
  BY <1>1, <1>3, <1>6, <1>7 DEF TableInv, Closes, Closed, Unknown
<1>10. \A u \in Turns : u < turn => Closed(u)'
  BY <1>3, <1>7, <1>9 DEF TableInv, Starts, Closed, Unknown
<1>11. \A i \in DOMAIN rows : rows[i].turn = turn => rows[i].kind = "user"
  BY <1>1, <1>3 DEF TableInv, Starts
<1>12. Starts'
  <2> SUFFICES ASSUME NEW t \in Turns
               PROVE  /\ t < turn => round'[t].started # Unknown
                      /\ t > turn => round'[t].started = Unknown
                      /\ round'[t].started # Unknown =>
                           /\ round'[t].started < clock + 1
                           /\ \A u \in Turns : u < t => Closed(u)'
                           /\ \A i \in DOMAIN rows :
                                rows[i].turn < t => rows[i].time < round'[t].started
                      /\ \A i \in DOMAIN rows : rows[i].turn = t /\ rows[i].kind # "user" =>
                           round'[t].started # Unknown
    BY <1>1 DEF Starts
  <2>1. CASE t = turn
    BY <2>1, <1>3, <1>6, <1>10 DEF Unknown
  <2>2. CASE t # turn
    <3>1. round[t].started \in Nat /\ round'[t].started = round[t].started
      BY <2>2, <1>4, <1>7
    <3>2. /\ t < turn => round[t].started # Unknown
          /\ t > turn => round[t].started = Unknown
          /\ round[t].started # Unknown =>
               /\ round[t].started < clock
               /\ \A u \in Turns : u < t => Closed(u)
               /\ \A i \in DOMAIN rows : rows[i].turn < t => rows[i].time < round[t].started
          /\ \A i \in DOMAIN rows : rows[i].turn = t /\ rows[i].kind # "user" =>
               round[t].started # Unknown
      BY DEF TableInv, Starts
    <3>3. round[t].started < clock => round[t].started < clock + 1
      BY <3>1, <1>3
    <3> QED BY <3>1, <3>2, <3>3, <1>9
  <2> QED BY <2>1, <2>2
<1>13. Closes'
  <2> SUFFICES ASSUME NEW t \in Turns, Closed(t)'
               PROVE  /\ round'[t].started # Unknown
                      /\ round'[t].completed < clock + 1
                      /\ \A i \in DOMAIN rows : rows[i].turn > t /\ rows[i].kind # "user"
                           => round'[t].completed < rows[i].time
    BY <1>1 DEF Closes
  <2>1. t # turn
    BY <1>6, <1>9 DEF Closed
  <2>2. CASE Closed(t)
    <3>1. round[t].completed \in Nat
      BY <1>4
    <3> QED BY <2>1, <2>2, <3>1, <1>3, <1>7 DEF TableInv, Closes
  <2>3. CASE ~Closed(t)
    <3>1. round[t].started # Unknown /\ round'[t].completed = clock
      BY <2>1, <2>3, <1>7 DEF Closed
    <3>2. \A i \in DOMAIN rows : rows[i].turn > t => rows[i].kind = "user"
      <4> SUFFICES ASSUME NEW i \in DOMAIN rows, rows[i].turn > t, rows[i].kind # "user"
                   PROVE  FALSE
        OBVIOUS
      <4>1. rows[i].turn \in Turns /\ t < rows[i].turn
        BY RowFacts, TurnNat DEF TableInv
      <4> QED BY <4>1, <2>3 DEF TableInv, Starts
    <3> QED BY <2>1, <3>1, <3>2, <1>3, <1>7
  <2> QED BY <2>2, <2>3
<1> QED BY <1>1, <1>8, <1>12, <1>13, RowsKept DEF TableInv

LEMMA PostKeeps ==
  ASSUME TableInv, Post
  PROVE  TableInv'
<1>1. /\ rows' = rows /\ turn' = turn /\ waiting' = waiting /\ clock' = clock + 1
      /\ turn # 0 /\ round[turn].started # Unknown /\ ~Closed(turn)
  BY DEF Post, Tick, Going
<1>2. PICK user \in IdsOf(turn, "user"), ended \in IdsOf(turn, "final") :
        round' = [round EXCEPT ![turn].completed = clock,
                               ![turn].user = Kept(@, user),
                               ![turn].final = Kept(@, ended)]
  BY DEF Post
<1>3. /\ turn \in Nat /\ turn \in Turns /\ clock \in Nat \ {0}
      /\ \A i \in DOMAIN rows : /\ rows[i].turn \in Nat /\ rows[i].turn <= turn
                                /\ rows[i].time \in Nat /\ rows[i].time < clock
  BY <1>1, StateDbConstants, RowFacts DEF TableInv, RowsShaped, Turns
<1>4. round \in [Turns -> [started : Nat, completed : Nat, user : Nat, final : Nat]]
  BY DEF TableInv, RoundsShaped
<1>5. \A k : IdsOf(turn, k) \subseteq Nat
  BY RowFacts DEF TableInv, IdsOf, Places, Unknown
<1>6. /\ \A t \in Turns : t # turn => round'[t] = round[t]
      /\ round'[turn] = [round[turn] EXCEPT !.completed = clock, !.user = Kept(@, user),
                                            !.final = Kept(@, ended)]
  BY <1>2, <1>3, <1>4
<1>7. /\ round'[turn].started = round[turn].started /\ round'[turn].completed = clock
      /\ round'[turn].user = Kept(round[turn].user, user)
      /\ round'[turn].final = Kept(round[turn].final, ended)
  BY <1>3, <1>4, <1>6
<1>8. RoundsShaped'
  <2>1. /\ Kept(round[turn].user, user) \in Nat /\ Kept(round[turn].final, ended) \in Nat
        /\ Kept(round[turn].user, user) \in Places(turn, "user") \cup {Unknown}
        /\ Kept(round[turn].final, ended) \in Places(turn, "final") \cup {Unknown}
    BY <1>3, <1>4, <1>5 DEF Kept, IdsOf, TableInv, RoundsShaped
  <2>2. round'[turn] \in [started : Nat, completed : Nat, user : Nat, final : Nat]
    BY <2>1, <1>3, <1>4, <1>6
  <2>3. round' \in [Turns -> [started : Nat, completed : Nat, user : Nat, final : Nat]]
    BY <2>2, <1>2, <1>4, <1>6
  <2>4. \A t, k : Places(t, k)' = Places(t, k)
    BY <1>1 DEF Places
  <2>5. ASSUME NEW t \in Turns
        PROVE  /\ round'[t].user \in Places(t, "user") \cup {Unknown}
               /\ round'[t].final \in Places(t, "final") \cup {Unknown}
    BY <2>1, <1>6, <1>7 DEF TableInv, RoundsShaped
  <2> QED BY <2>3, <2>4, <2>5 DEF RoundsShaped
<1>9. \A t \in Turns : Closed(t) => Closed(t)'
  BY <1>1, <1>6 DEF Closed
<1>10. \A t \in Turns : round'[t].started = round[t].started
  BY <1>6, <1>7
<1>11. Starts'
  <2> SUFFICES ASSUME NEW t \in Turns
               PROVE  /\ t < turn => round[t].started # Unknown
                      /\ t > turn => round[t].started = Unknown
                      /\ round[t].started # Unknown =>
                           /\ round[t].started < clock + 1
                           /\ \A u \in Turns : u < t => Closed(u)'
                           /\ \A i \in DOMAIN rows :
                                rows[i].turn < t => rows[i].time < round[t].started
                      /\ \A i \in DOMAIN rows : rows[i].turn = t /\ rows[i].kind # "user" =>
                           round[t].started # Unknown
    BY <1>1, <1>10 DEF Starts
  <2>1. round[t].started \in Nat
    BY <1>4
  <2> QED BY <2>1, <1>3, <1>9 DEF TableInv, Starts
<1>12. Closes'
  <2> SUFFICES ASSUME NEW t \in Turns, Closed(t)'
               PROVE  /\ round[t].started # Unknown
                      /\ round'[t].completed < clock + 1
                      /\ \A i \in DOMAIN rows : rows[i].turn > t /\ rows[i].kind # "user"
                           => round'[t].completed < rows[i].time
    BY <1>1, <1>10 DEF Closes
  <2>1. CASE t = turn
    BY <2>1, <1>1, <1>3, <1>7
  <2>2. CASE t # turn
    <3>1. round[t].completed \in Nat /\ Closed(t)
      BY <2>2, <1>4, <1>6 DEF Closed
    <3> QED BY <2>2, <3>1, <1>3, <1>6 DEF TableInv, Closes
  <2> QED BY <2>1, <2>2
<1> QED BY <1>1, <1>8, <1>11, <1>12, RowsKept DEF TableInv

LEMMA StepTableInv == TableInv /\ [TableNext]_tableVars => TableInv'
<1> SUFFICES ASSUME TableInv, [TableNext]_tableVars PROVE TableInv'
  OBVIOUS
<1>1. ASSUME UNCHANGED <<rows, clock, turn, round, waiting>> PROVE TableInv'
  <2>1. RoundsShaped' /\ Starts' /\ Closes'
    BY <1>1 DEF TableInv, RoundsShaped, Starts, Closes, Closed, Places
  <2> QED BY <1>1, <2>1, RowsKept DEF TableInv
<1>2. CASE UNCHANGED tableVars
  BY <1>1, <1>2 DEF tableVars
<1>3. ASSUME NEW t \in Turns, Read(t) PROVE TableInv'
  BY <1>1, <1>3 DEF Read
<1> QED BY <1>2, <1>3, NewTurnKeeps, PreKeeps, PostKeeps, StoringKeeps DEF TableNext

LEMMA TableInvariance == TableSpec => []TableInv
  BY InitTableInv, StepTableInv, PTL DEF TableSpec
-----------------------------------------------------------------------------
(* Naturals. *)

LEMMA Least ==
  ASSUME NEW S \in SUBSET Nat, S # {}
  PROVE  \E m \in S : \A k \in S : m <= k
<1>1. PICK m \in S : \A k \in S : ~ (<<k, m>> \in OpToRel(<, Nat))
  BY NatLessThanWellFounded, WFMin
<1>2. \A k \in S : ~(k < m)
  BY <1>1 DEF OpToRel
<1> QED BY <1>2

LEMMA Greatest ==
  ASSUME NEW S \in SUBSET Nat, S # {}, NEW n \in Nat, \A k \in S : k <= n
  PROVE  \E m \in S : \A k \in S : k <= m
<1> DEFINE T == {n - k : k \in S}
<1>1. T \in SUBSET Nat /\ T # {}
  <2>1. \A k \in S : k \in Nat /\ n - k \in Nat
    OBVIOUS
  <2> QED BY <2>1
<1>2. PICK m \in T : \A k \in T : m <= k
  <2> HIDE DEF T
  <2> QED BY <1>1, Least
<1>3. PICK l \in S : m = n - l
  OBVIOUS
<1>4. \A k \in S : k <= l
  BY <1>2, <1>3
<1> QED BY <1>4

LEMMA Induction ==
  ASSUME NEW S, 0 \in S, \A n \in Nat : n \in S => n + 1 \in S
  PROVE  Nat \subseteq S
<1> SUFFICES ASSUME Nat \ S # {} PROVE FALSE
  OBVIOUS
<1>1. PICK m \in Nat \ S : \A k \in Nat \ S : m <= k
  BY Least
<1>2. m # 0 /\ m - 1 \in Nat
  BY <1>1
<1>3. m - 1 \in S
  BY <1>1, <1>2
<1>4. (m - 1) + 1 \in S
  BY <1>2, <1>3
<1> QED BY <1>1, <1>4

\* The ids of an interval in their order.
LEMMA AscendingInterval ==
  ASSUME NEW lo \in Nat, NEW hi \in Nat, lo <= hi + 1
  PROVE  /\ Ascending(lo .. hi) = [k \in 1 .. hi - lo + 1 |-> lo + k - 1]
         /\ DOMAIN Ascending(lo .. hi) = 1 .. hi - lo + 1
<1>1. Cardinality(lo .. hi) = hi - lo + 1
  BY FS_Interval
<1>2. ASSUME NEW i \in lo .. hi
      PROVE  Cardinality({j \in lo .. hi : j < i}) = i - lo
  <2>1. \A j : j \in lo .. hi /\ j < i <=> j \in lo .. i - 1
    OBVIOUS
  <2>2. {j \in lo .. hi : j < i} = lo .. i - 1
    BY <2>1
  <2>3. Cardinality(lo .. i - 1) = i - lo
    <3>1. lo \in Int /\ i - 1 \in Int /\ lo <= i
      OBVIOUS
    <3>2. Cardinality(lo .. i - 1) = IF lo > i - 1 THEN 0 ELSE (i - 1) - lo + 1
      BY <3>1, FS_Interval
    <3> QED BY <3>1, <3>2
  <2> QED BY <2>2, <2>3
<1>3. ASSUME NEW k \in 1 .. hi - lo + 1
      PROVE  (CHOOSE i \in lo .. hi : Cardinality({j \in lo .. hi : j < i}) = k - 1) = lo + k - 1
  <2>1. lo + k - 1 \in lo .. hi
    OBVIOUS
  <2>2. \A i \in lo .. hi : Cardinality({j \in lo .. hi : j < i}) = k - 1 <=> i = lo + k - 1
    BY <1>2
  <2> QED BY <2>1, <2>2
<1> QED BY <1>1, <1>3 DEF Ascending

-----------------------------------------------------------------------------
(* Sequences put together. *)

LEMMA FlattenFunction ==
  ASSUME NEW n \in Nat, NEW s
  PROVE  \E f : f = [i \in 1 .. n |-> IF i = 1 THEN s[i] ELSE f[i - 1] \o s[i]]
<1> DEFINE Good(f, m) == f = [i \in 1 .. m |-> IF i = 1 THEN s[i] ELSE f[i - 1] \o s[i]]
           S == {m \in Nat : \E f : Good(f, m)}
<1>1. 0 \in S
  <2>1. Good(<<>>, 0)
    OBVIOUS
  <2> QED BY <2>1
<1>2. ASSUME NEW m \in Nat, m \in S PROVE m + 1 \in S
  <2>1. PICK f : Good(f, m)
    BY <1>2
  <2> DEFINE g == [i \in 1 .. m + 1 |-> IF i \in 1 .. m THEN f[i]
                                        ELSE IF i = 1 THEN s[i] ELSE f[i - 1] \o s[i]]
  <2>2. \A i \in 1 .. m : g[i] = f[i]
    OBVIOUS
  <2>3. \A i \in 1 .. m + 1 : g[i] = IF i = 1 THEN s[i] ELSE g[i - 1] \o s[i]
    <3> TAKE i \in 1 .. m + 1
    <3>1. CASE i \in 1 .. m
      <4>1. f[i] = IF i = 1 THEN s[i] ELSE f[i - 1] \o s[i]
        BY <2>1, <3>1
      <4>2. i # 1 => i - 1 \in 1 .. m
        BY <3>1
      <4> QED BY <2>2, <3>1, <4>1, <4>2
    <3>2. CASE i = m + 1
      <4>1. i \notin 1 .. m /\ (i # 1 => i - 1 \in 1 .. m)
        BY <3>2
      <4> QED BY <2>2, <4>1
    <3> QED BY <3>1, <3>2
  <2>4. Good(g, m + 1)
    <3>1. g = [i \in 1 .. m + 1 |-> g[i]]
      OBVIOUS
    <3> HIDE DEF g
    <3> QED BY <2>3, <3>1
  <2>5. \E h : Good(h, m + 1)
    <3> HIDE DEF g
    <3> QED BY <2>4, Zenon
  <2>6. m + 1 \in Nat
    OBVIOUS
  <2> HIDE DEF Good
  <2> QED BY <2>5, <2>6, Zenon
<1>3. n \in S
  <2> HIDE DEF S
  <2> QED BY <1>1, <1>2, Induction
<1> QED BY <1>3

\* e is the sequences of s one after another: each element of e is at its place
\* in s, in the order of the places, and no place is left out.
PlacedIn(e, s, n, at) ==
  /\ at \in Seq(Nat \X Nat) /\ Len(at) = Len(e)
  /\ \A p \in 1 .. Len(e) : /\ at[p][1] \in 1 .. n /\ at[p][2] \in DOMAIN s[at[p][1]]
                            /\ e[p] = s[at[p][1]][at[p][2]]
  /\ \A p, q \in 1 .. Len(e) : p < q => Before(at[p], at[q])
  /\ \A i \in 1 .. n : \A k \in DOMAIN s[i] : \E p \in 1 .. Len(e) : at[p] = <<i, k>>

LEMMA Joined ==
  ASSUME NEW S, NEW x \in Seq(S), NEW y \in Seq(S)
  PROVE  x \o y \in Seq(S) /\ Len(x \o y) = Len(x) + Len(y)
  OBVIOUS

LEMMA PlacedMore ==
  ASSUME NEW E, NEW n \in Nat, NEW s, \A i \in 1 .. n + 1 : s[i] \in Seq(E),
         NEW e \in Seq(E), NEW at, PlacedIn(e, s, n, at)
  PROVE  \E a : PlacedIn(e \o s[n + 1], s, n + 1, a)
<1> DEFINE x == s[n + 1]
           b == [k \in 1 .. Len(x) |-> <<n + 1, k>>]
           a == at \o b
           d == e \o x
<1>1. x \in Seq(E) /\ n + 1 \in 1 .. n + 1 /\ Len(x) \in Nat /\ DOMAIN x = 1 .. Len(x)
  OBVIOUS
<1>2. /\ b \in Seq(Nat \X Nat) /\ Len(b) = Len(x) /\ DOMAIN b = 1 .. Len(x)
      /\ \A k \in 1 .. Len(x) : b[k] = <<n + 1, k>>
  BY <1>1
<1>3. /\ at \in Seq(Nat \X Nat) /\ Len(at) = Len(e) /\ Len(e) \in Nat
      /\ \A p \in 1 .. Len(e) : at[p] \in Nat \X Nat
  BY DEF PlacedIn
<1> HIDE DEF x, b
<1>4. /\ a \in Seq(Nat \X Nat) /\ d \in Seq(E) /\ Len(d) = Len(e) + Len(x) /\ Len(a) = Len(d)
      /\ \A p \in 1 .. Len(e) : p \in 1 .. Len(d) /\ a[p] = at[p] /\ d[p] = e[p]
      /\ \A k \in 1 .. Len(x) : /\ Len(e) + k \in 1 .. Len(d)
                                /\ a[Len(e) + k] = <<n + 1, k>> /\ d[Len(e) + k] = x[k]
      /\ \A p \in 1 .. Len(d) : p \in 1 .. Len(e) \/ \E k \in 1 .. Len(x) : p = Len(e) + k
  <2>0. d \in Seq(E) /\ Len(d) = Len(e) + Len(x)
    BY <1>1, <1>3
  <2>a. a \in Seq(Nat \X Nat) /\ Len(a) = Len(at) + Len(b)
    BY <1>2, <1>3, Joined
  <2>1. /\ a \in Seq(Nat \X Nat) /\ d \in Seq(E) /\ Len(d) = Len(e) + Len(x) /\ Len(a) = Len(d)
    BY <2>0, <2>a, <1>2, <1>3
  <2>2. \A p \in 1 .. Len(e) : p \in 1 .. Len(d) /\ a[p] = at[p] /\ d[p] = e[p]
    BY <1>1, <1>2, <1>3
  <2>3. \A k \in 1 .. Len(x) : /\ Len(e) + k \in 1 .. Len(d)
                                /\ a[Len(e) + k] = <<n + 1, k>> /\ d[Len(e) + k] = x[k]
    BY <1>1, <1>2, <1>3
  <2>4. ASSUME NEW p \in 1 .. Len(d), p \notin 1 .. Len(e)
        PROVE  \E k \in 1 .. Len(x) : p = Len(e) + k
    <3>1. p - Len(e) \in 1 .. Len(x) /\ p = Len(e) + (p - Len(e))
      BY <2>1, <2>4, <1>1, <1>3
    <3> QED BY <3>1
  <2> QED BY <2>1, <2>2, <2>3, <2>4
<1> HIDE DEF a, d
<1>5. ASSUME NEW p \in 1 .. Len(d)
      PROVE  a[p][1] \in 1 .. n + 1 /\ a[p][2] \in DOMAIN s[a[p][1]] /\ d[p] = s[a[p][1]][a[p][2]]
  <2>1. CASE p \in 1 .. Len(e)
    <3>1. /\ at[p][1] \in 1 .. n /\ at[p][2] \in DOMAIN s[at[p][1]]
          /\ e[p] = s[at[p][1]][at[p][2]]
      BY <2>1 DEF PlacedIn
    <3>2. a[p] = at[p] /\ d[p] = e[p]
      BY <2>1, <1>4
    <3> QED BY <3>1, <3>2
  <2>2. ASSUME NEW k \in 1 .. Len(x), p = Len(e) + k PROVE <1>5!2
    <3>0. a[p] = <<n + 1, k>> /\ d[p] = x[k]
      BY <2>2, <1>4
    <3>1. a[p][1] = n + 1 /\ a[p][2] = k /\ d[p] = x[k]
      BY <3>0
    <3> QED BY <3>1, <1>1 DEF x
  <2> QED BY <2>1, <2>2, <1>4
<1>6. ASSUME NEW p \in 1 .. Len(d), NEW q \in 1 .. Len(d), p < q PROVE Before(a[p], a[q])
  <2>1. CASE q \in 1 .. Len(e)
    <3>1. p \in 1 .. Len(e)
      BY <2>1, <1>6
    <3> QED BY <2>1, <3>1, <1>4, <1>6 DEF PlacedIn
  <2>2. ASSUME NEW k \in 1 .. Len(x), q = Len(e) + k PROVE Before(a[p], a[q])
    <3>0. a[q] = <<n + 1, k>>
      BY <2>2, <1>4
    <3>1. a[q][1] = n + 1 /\ a[q][2] = k
      BY <3>0
    <3>2. CASE p \in 1 .. Len(e)
      <4>1. a[p][1] \in 1 .. n
        BY <3>2, <1>4 DEF PlacedIn
      <4> QED BY <3>1, <4>1 DEF Before
    <3>3. ASSUME NEW l \in 1 .. Len(x), p = Len(e) + l PROVE Before(a[p], a[q])
      <4>0. a[p] = <<n + 1, l>>
        BY <3>3, <1>4
      <4>1. a[p][1] = n + 1 /\ a[p][2] = l
        BY <4>0
      <4>2. l < k
        BY <2>2, <3>3, <1>1, <1>3, <1>6
      <4> QED BY <3>1, <4>1, <4>2 DEF Before
    <3> QED BY <3>2, <3>3, <1>4
  <2> QED BY <2>1, <2>2, <1>4
<1>7. ASSUME NEW i \in 1 .. n + 1, NEW k \in DOMAIN s[i]
      PROVE  \E p \in 1 .. Len(d) : a[p] = <<i, k>>
  <2>1. CASE i \in 1 .. n
    <3>1. PICK p \in 1 .. Len(e) : at[p] = <<i, k>>
      BY <2>1 DEF PlacedIn
    <3> QED BY <3>1, <1>4
  <2>2. CASE i = n + 1
    <3>1. k \in 1 .. Len(x)
      BY <2>2, <1>1 DEF x
    <3> QED BY <2>2, <3>1, <1>4
  <2> QED BY <2>1, <2>2
<1>8. PlacedIn(d, s, n + 1, a)
  BY <1>4, <1>5, <1>6, <1>7 DEF PlacedIn
<1> QED BY <1>8 DEF d, x

LEMMA Flattened ==
  ASSUME NEW E, NEW n \in Nat, NEW s \in [1 .. n -> Seq(E)]
  PROVE  /\ FlattenSeq(s) \in Seq(E)
         /\ \E at : PlacedIn(FlattenSeq(s), s, n, at)
<1>1. s \in Seq(Seq(E)) /\ Len(s) = n
  OBVIOUS
<1>2. CASE n = 0
  <2>1. FlattenSeq(s) = s /\ s = <<>> /\ Len(s) = 0
    BY <1>1, <1>2 DEF FlattenSeq
  <2>2. PlacedIn(<<>>, s, n, <<>>)
    BY <1>2 DEF PlacedIn
  <2> QED BY <2>1, <2>2
<1>3. CASE n # 0
  <2> DEFINE Good(f) == f = [i \in 1 .. n |-> IF i = 1 THEN s[i] ELSE f[i - 1] \o s[i]]
             f == CHOOSE f : Good(f)
  <2>1. Good(f)
    BY FlattenFunction
  <2>2. FlattenSeq(s) = f[n]
    BY <1>1, <1>3 DEF FlattenSeq
  <2> HIDE DEF f
  <2>3. \A i \in 1 .. n : f[i] = IF i = 1 THEN s[i] ELSE f[i - 1] \o s[i]
    BY <2>1
  <2> DEFINE Done(m) == f[m] \in Seq(E) /\ \E at : PlacedIn(f[m], s, m, at)
             S == {m \in Nat : m \in 1 .. n => Done(m)}
  <2>4. 0 \in S
    OBVIOUS
  <2>5. ASSUME NEW m \in Nat, m \in S PROVE m + 1 \in S
    <3> SUFFICES ASSUME m + 1 \in 1 .. n PROVE Done(m + 1)
      OBVIOUS
    <3>0. \A i \in 1 .. m + 1 : s[i] \in Seq(E)
      OBVIOUS
    <3>1. CASE m = 0
      <4>1. f[1] = s[1]
        BY <2>3, <3>1
      <4>2. PlacedIn(<<>>, s, 0, <<>>)
        BY DEF PlacedIn
      <4>5. 0 \in Nat /\ <<>> \in Seq(E) /\ \A i \in 1 .. 0 + 1 : s[i] \in Seq(E)
        BY <3>0, <3>1
      <4>3. \E a : PlacedIn(<<>> \o s[0 + 1], s, 0 + 1, a)
        BY <4>2, <4>5, PlacedMore
      <4>4. <<>> \o s[1] = s[1] /\ s[1] \in Seq(E)
        BY <3>0, <3>1
      <4> QED BY <3>1, <4>1, <4>3, <4>4
    <3>2. CASE m # 0
      <4>1. m \in 1 .. n /\ Done(m)
        BY <2>5, <3>2
      <4>2. f[m + 1] = f[m] \o s[m + 1]
        <5>1. m + 1 # 1 /\ (m + 1) - 1 = m
          BY <3>2
        <5> QED BY <2>3, <5>1
      <4>3. f[m + 1] \in Seq(E)
        BY <4>1, <4>2, <3>0
      <4>4. \E a : PlacedIn(f[m] \o s[m + 1], s, m + 1, a)
        BY <4>1, <3>0, PlacedMore
      <4> QED BY <4>2, <4>3, <4>4
    <3> QED BY <3>1, <3>2
  <2>6. n \in S
    <3> HIDE DEF S
    <3> QED BY <2>4, <2>5, Induction
  <2>7. n \in 1 .. n
    BY <1>3
  <2> QED BY <2>2, <2>6, <2>7
<1> QED BY <1>2, <1>3

-----------------------------------------------------------------------------
(* What the reader makes of one row. *)

RowLen(i) == IF rows[i].kind = "calls" THEN 1 + Len(rows[i].calls) ELSE 1

EventAt(i, k) ==
  IF rows[i].kind = "result" THEN ResultEvent(i)
  ELSE IF rows[i].kind = "user" THEN MessageEvent(i, "user", FALSE)
  ELSE IF rows[i].kind = "final" THEN MessageEvent(i, "assistant", TRUE)
  ELSE IF k = 1 THEN MessageEvent(i, "assistant", FALSE)
  ELSE CallEvent(i, k - 1)

EventsOf(i) == {EventAt(i, k) : k \in 1 .. RowLen(i)}

LEMMA CallsShape ==
  ASSUME RowsShaped, NEW i \in DOMAIN rows
  PROVE  /\ Len(rows[i].calls) \in Nat /\ DOMAIN rows[i].calls = 1 .. Len(rows[i].calls)
         /\ RowLen(i) \in Nat /\ 1 \in 1 .. RowLen(i)
         /\ \A k \in DOMAIN rows[i].calls : rows[i].calls[k] \in BOOLEAN
<1>1. rows[i] \in Row
  BY DEF RowsShaped
<1>2. rows[i].calls \in {<<>>} \cup UNION {[1 .. n -> BOOLEAN] : n \in 1 .. 2}
  BY <1>1 DEF Row
<1>3. rows[i].calls \in Seq(BOOLEAN)
  <2>1. CASE rows[i].calls = <<>>
    BY <2>1
  <2>2. ASSUME NEW n \in 1 .. 2, rows[i].calls \in [1 .. n -> BOOLEAN]
        PROVE  rows[i].calls \in Seq(BOOLEAN)
    BY <2>2
  <2> QED BY <1>2, <2>1, <2>2
<1> QED BY <1>3 DEF RowLen

LEMMA RowEventsAre ==
  ASSUME RowsShaped, NEW i \in DOMAIN rows
  PROVE  /\ RowEvents(i) \in Seq(EventsOf(i)) /\ Len(RowEvents(i)) = RowLen(i)
         /\ DOMAIN RowEvents(i) = 1 .. RowLen(i)
         /\ \A k \in 1 .. RowLen(i) : RowEvents(i)[k] = EventAt(i, k)
<1> DEFINE m == Len(rows[i].calls)
<1>1. /\ m \in Nat /\ DOMAIN rows[i].calls = 1 .. m /\ RowLen(i) \in Nat
      /\ rows[i].kind \in RowKinds
  BY CallsShape, RowFacts
<1>2. /\ Len(RowEvents(i)) = RowLen(i) /\ DOMAIN RowEvents(i) = 1 .. RowLen(i)
      /\ \A k \in 1 .. RowLen(i) : RowEvents(i)[k] = EventAt(i, k)
      /\ \E S : RowEvents(i) \in Seq(S)
  <2>1. CASE rows[i].kind = "calls"
    <3> DEFINE x == MessageEvent(i, "assistant", FALSE)
               c == [k \in 1 .. m |-> CallEvent(i, k)]
               S == {x} \cup {CallEvent(i, k) : k \in 1 .. m}
    <3>1. RowEvents(i) = <<x>> \o c
      BY <2>1, <1>1 DEF RowEvents
    <3>2. <<x>> \in Seq(S) /\ c \in Seq(S) /\ Len(c) = m /\ Len(<<x>>) = 1
      <4>1. x \in S /\ c \in [1 .. m -> S]
        OBVIOUS
      <4> HIDE DEF x, c, S
      <4>2. c \in Seq(S) /\ Len(c) = m
        BY <4>1, <1>1
      <4> QED BY <4>1, <4>2
    <3>3. \A k \in 1 .. m : c[k] = CallEvent(i, k)
      OBVIOUS
    <3>4. RowLen(i) = 1 + m
      BY <2>1 DEF RowLen
    <3>5. EventAt(i, 1) = x /\ \A k \in 2 .. RowLen(i) : EventAt(i, k) = CallEvent(i, k - 1)
      <4>1. ASSUME NEW k \in 2 .. RowLen(i) PROVE k # 1
        BY <1>1
      <4> QED BY <2>1, <4>1 DEF EventAt
    <3> HIDE DEF x, c, S, m
    <3>6. <<x>> \o c \in Seq(S) /\ Len(<<x>> \o c) = 1 + m
      BY <3>2, <1>1
    <3>7. (<<x>> \o c)[1] = x /\ \A k \in 2 .. 1 + m : (<<x>> \o c)[k] = c[k - 1]
      BY <3>2, <1>1
    <3>8. \A k \in 2 .. 1 + m : k - 1 \in 1 .. m
      BY <1>1
    <3>9. \A k \in 1 .. RowLen(i) : RowEvents(i)[k] = EventAt(i, k)
      <4> TAKE k \in 1 .. RowLen(i)
      <4>1. CASE k = 1
        BY <4>1, <3>1, <3>5, <3>7
      <4>2. CASE k # 1
        <5>1. k \in 2 .. RowLen(i) /\ k \in 2 .. 1 + m
          BY <4>2, <3>4, <1>1
        <5> QED BY <5>1, <3>1, <3>3, <3>5, <3>7, <3>8
      <4> QED BY <4>1, <4>2
    <3>10. Len(RowEvents(i)) = RowLen(i) /\ DOMAIN RowEvents(i) = 1 .. RowLen(i)
           /\ RowEvents(i) \in Seq(S)
      BY <3>1, <3>4, <3>6
    <3> QED BY <3>9, <3>10
  <2>2. CASE rows[i].kind # "calls"
    <3>1. RowEvents(i) = <<EventAt(i, 1)>> /\ RowLen(i) = 1 /\ \A k : EventAt(i, k) = EventAt(i, 1)
      BY <2>2, <1>1 DEF RowEvents, EventAt, RowLen, RowKinds
    <3>2. RowEvents(i) \in Seq({EventAt(i, 1)})
      BY <3>1
    <3>3. 1 .. RowLen(i) = {1}
      BY <3>1
    <3> DEFINE x == EventAt(i, 1)
    <3> HIDE DEF x
    <3>4. RowEvents(i) = <<x>> /\ \A k : EventAt(i, k) = x
      BY <3>1 DEF x
    <3>5. Len(<<x>>) = 1 /\ DOMAIN <<x>> = {1} /\ <<x>>[1] = x /\ <<x>> \in Seq({x})
      OBVIOUS
    <3> QED BY <3>1, <3>3, <3>4, <3>5
  <2> QED BY <2>1, <2>2
<1>3. RowEvents(i) \in Seq(EventsOf(i))
  <2>1. PICK S : RowEvents(i) \in Seq(S)
    BY <1>2
  <2>2. RowEvents(i) = [k \in 1 .. RowLen(i) |-> RowEvents(i)[k]]
    BY <2>1, <1>2
  <2>3. \A k \in 1 .. RowLen(i) : RowEvents(i)[k] \in EventsOf(i)
    BY <1>2 DEF EventsOf
  <2> QED BY <1>1, <1>2, <2>2, <2>3
<1> QED BY <1>2, <1>3

\* Which event is what.
LEMMA EventFacts ==
  ASSUME RowsShaped, NEW i \in DOMAIN rows, NEW k \in 1 .. RowLen(i)
  PROVE  LET e == EventAt(i, k) IN
         /\ e.event_id[1] = i
         /\ e.kind \in {"message", "tool_call", "tool_result"}
         /\ e.kind = "message" => e.event_id = <<i>> /\ {"role", "terminal"} \subseteq DOMAIN e
         /\ IsUser(e) <=> rows[i].kind = "user"
         /\ IsAssistant(e) <=> rows[i].kind = "final" \/ (rows[i].kind = "calls" /\ k = 1)
         /\ IsAssistant(e) => (e.terminal <=> rows[i].kind = "final")
         /\ e.kind = "tool_call" <=> rows[i].kind = "calls" /\ k # 1
         /\ e.kind = "tool_result" <=> rows[i].kind = "result"
<1>1. rows[i].kind \in RowKinds
  BY RowFacts
<1>2. CASE rows[i].kind = "result"
  BY <1>2 DEF EventAt, ResultEvent, IsUser, IsAssistant
<1>3. CASE rows[i].kind = "user"
  BY <1>3 DEF EventAt, MessageEvent, IsUser, IsAssistant
<1>4. CASE rows[i].kind = "final"
  BY <1>4 DEF EventAt, MessageEvent, IsUser, IsAssistant
<1>5. CASE rows[i].kind = "calls" /\ k = 1
  BY <1>5 DEF EventAt, MessageEvent, IsUser, IsAssistant
<1>6. CASE rows[i].kind = "calls" /\ k # 1
  BY <1>6 DEF EventAt, CallEvent, IsUser, IsAssistant
<1> QED BY <1>1, <1>2, <1>3, <1>4, <1>5, <1>6 DEF RowKinds

-----------------------------------------------------------------------------
(* The rows selected. *)

LEMMA SelectedInterval ==
  ASSUME TableInv, NEW t \in Turns
  PROVE  \E lo \in Nat, hi \in Nat :
           /\ 1 <= lo /\ hi <= Len(rows) /\ lo <= hi + 1
           /\ Selected(round[t]) = lo .. hi
<1> DEFINE r == round[t]
           S == Selected(r)
<1>1. /\ r.started \in Nat /\ r.completed \in Nat /\ r.user \in Nat /\ r.final \in Nat
      /\ RowsShaped
  BY DEF TableInv, RoundsShaped
<1>2. /\ Len(rows) \in Nat /\ DOMAIN rows = 1 .. Len(rows)
      /\ \A i \in DOMAIN rows : rows[i].time \in Nat
  BY <1>1, RowFacts
<1>3. \A i \in S :
        /\ i \in DOMAIN rows
        /\ IF r.user # Unknown THEN i >= r.user ELSE rows[i].time >= r.started
        /\ IF r.final # Unknown THEN i <= r.final ELSE rows[i].time <= r.completed
  BY DEF Selected
<1>4. \A i, j \in DOMAIN rows : i < j => rows[i].time < rows[j].time
  BY DEF TableInv, RowsSorted
<1>5. CASE S = {}
  <2>1. 1 .. 0 = {} /\ 1 \in Nat /\ 0 \in Nat /\ 1 <= 1 /\ 0 <= Len(rows) /\ 1 <= 0 + 1
    BY <1>2
  <2> HIDE DEF S
  <2> QED BY <2>1, <1>5 DEF S
<1>6. CASE S # {}
  <2>1. S \in SUBSET Nat /\ \A k \in S : k <= Len(rows)
    BY <1>2, <1>3
  <2> HIDE DEF r, S
  <2>2. PICK lo \in S : \A k \in S : lo <= k
    BY <2>1, <1>6, Least
  <2>3. PICK hi \in S : \A k \in S : k <= hi
    BY <2>1, <1>2, <1>6, Greatest
  <2>4. ASSUME NEW i \in lo .. hi PROVE i \in S
    <3>0. lo \in DOMAIN rows /\ hi \in DOMAIN rows /\ DOMAIN rows = 1 .. Len(rows)
          /\ Len(rows) \in Nat
      BY <1>2, <1>3
    <3>1. i \in DOMAIN rows /\ lo \in DOMAIN rows /\ hi \in DOMAIN rows
      BY <3>0
    <3>2. i = lo \/ rows[lo].time < rows[i].time
      BY <3>1, <1>2, <1>4
    <3>3. i = hi \/ rows[i].time < rows[hi].time
      BY <3>1, <1>2, <1>4
    <3>4. IF r.user # Unknown THEN i >= r.user ELSE rows[i].time >= r.started
      BY <3>1, <3>2, <1>1, <1>2, <1>3
    <3>5. IF r.final # Unknown THEN i <= r.final ELSE rows[i].time <= r.completed
      BY <3>1, <3>3, <1>1, <1>2, <1>3
    <3> QED BY <3>1, <3>4, <3>5 DEF S, Selected
  <2>5. S = lo .. hi
    <3>1. \A i \in S : i \in lo .. hi
      BY <2>1, <2>2, <2>3
    <3> QED BY <2>4, <3>1
  <2>6. 1 <= lo /\ hi <= Len(rows) /\ lo <= hi + 1 /\ lo \in Nat /\ hi \in Nat
    BY <2>1, <2>2, <2>3, <1>2, <1>3
  <2> QED BY <2>5, <2>6 DEF S, r
<1> QED BY <1>5, <1>6

\* Whose rows they are.
LEMMA SelectedTurns ==
  ASSUME TableInv, NEW t \in Turns, Closed(t), NEW i \in Selected(round[t])
  PROVE  /\ i \in DOMAIN rows /\ rows[i].turn >= t
         /\ rows[i].kind # "user" => rows[i].turn = t
<1> DEFINE r == round[t]
<1>1. /\ r.started \in Nat /\ r.completed \in Nat
      /\ r.user \in Places(t, "user") \cup {Unknown}
      /\ r.final \in Places(t, "final") \cup {Unknown}
      /\ RowsShaped /\ t \in Nat
  BY TurnNat DEF TableInv, RoundsShaped
<1>2. /\ \A j \in DOMAIN rows : /\ j \in Nat /\ rows[j].turn \in Nat /\ rows[j].time \in Nat
  BY <1>1, RowFacts
<1>3. /\ i \in DOMAIN rows
      /\ IF r.user # Unknown THEN i >= r.user ELSE rows[i].time >= r.started
      /\ IF r.final # Unknown THEN i <= r.final ELSE rows[i].time <= r.completed
  BY DEF Selected
<1>4. \A j, l \in DOMAIN rows : j <= l => rows[j].turn <= rows[l].turn
  BY <1>2 DEF TableInv, RowsSorted
<1>5. rows[i].turn >= t
  <2>1. CASE r.user # Unknown
    <3>1. r.user \in DOMAIN rows /\ rows[r.user].turn = t
      BY <2>1, <1>1 DEF Places
    <3> QED BY <3>1, <2>1, <1>2, <1>3, <1>4
  <2>2. CASE r.user = Unknown
    <3>1. r.started # Unknown /\ \A j \in DOMAIN rows : rows[j].turn < t => rows[j].time < r.started
      BY DEF TableInv, Starts, Closes
    <3> QED BY <3>1, <2>2, <1>1, <1>2, <1>3
  <2> QED BY <2>1, <2>2
<1>6. ASSUME rows[i].kind # "user" PROVE rows[i].turn <= t
  <2>1. CASE r.final # Unknown
    <3>1. r.final \in DOMAIN rows /\ rows[r.final].turn = t
      BY <2>1, <1>1 DEF Places
    <3> QED BY <3>1, <2>1, <1>2, <1>3, <1>4
  <2>2. CASE r.final = Unknown
    <3>1. rows[i].turn > t => r.completed < rows[i].time
      BY <1>3, <1>6 DEF TableInv, Closes
    <3> QED BY <3>1, <2>2, <1>1, <1>2, <1>3
  <2> QED BY <2>1, <2>2
<1> QED BY <1>1, <1>2, <1>3, <1>5, <1>6

-----------------------------------------------------------------------------
(* The events of an interval of rows, in their order. *)

AllEvents == UNION {EventsOf(i) : i \in DOMAIN rows}

\* The p-th event is the sub[p]-th of row row[p].
Listing(e, row, sub, lo, hi) ==
  /\ lo \in Nat /\ hi \in Nat /\ 1 <= lo /\ hi <= Len(rows)
  /\ e \in Seq(AllEvents)
  /\ row \in [1 .. Len(e) -> lo .. hi] /\ sub \in [1 .. Len(e) -> Nat]
  /\ \A p \in 1 .. Len(e) : sub[p] \in 1 .. RowLen(row[p]) /\ e[p] = EventAt(row[p], sub[p])
  /\ \A p, q \in 1 .. Len(e) : p < q =>
       row[p] < row[q] \/ (row[p] = row[q] /\ sub[p] < sub[q])
  /\ \A i \in lo .. hi : \A k \in 1 .. RowLen(i) :
       \E p \in 1 .. Len(e) : row[p] = i /\ sub[p] = k

Fetched(r) ==
  LET ids == Ascending(Selected(r))
  IN  FlattenSeq(Once([k \in DOMAIN ids |-> RowEvents(ids[k])]))

LEMMA OnceSame ==
  ASSUME NEW E, NEW s \in Seq(E)
  PROVE  Once(s) = s
  BY DEF Once

LEMMA FetchedListing ==
  ASSUME RowsShaped, NEW r, NEW lo \in Nat, NEW hi \in Nat,
         1 <= lo, hi <= Len(rows), lo <= hi + 1, Selected(r) = lo .. hi
  PROVE  \E row, sub : Listing(Fetched(r), row, sub, lo, hi)
<1> DEFINE n == hi - lo + 1
           s == [k \in 1 .. n |-> RowEvents(lo + k - 1)]
<1>1. n \in Nat /\ Len(rows) \in Nat /\ DOMAIN rows = 1 .. Len(rows)
      /\ \A k \in 1 .. n : lo + k - 1 \in lo .. hi /\ lo + k - 1 \in DOMAIN rows
      /\ \A i \in lo .. hi : i \in DOMAIN rows /\ i - lo + 1 \in 1 .. n
  BY RowFacts
<1>a. \A i \in lo .. hi : i \in DOMAIN rows /\ i - lo + 1 \in 1 .. n
  BY <1>1
<1>2. Fetched(r) = FlattenSeq(Once(s))
  <2>1. /\ Ascending(Selected(r)) = [k \in 1 .. n |-> lo + k - 1]
        /\ DOMAIN Ascending(Selected(r)) = 1 .. n
    BY AscendingInterval
  <2>2. [k \in DOMAIN Ascending(Selected(r)) |-> RowEvents(Ascending(Selected(r))[k])] = s
    BY <2>1
  <2> QED BY <2>2 DEF Fetched
<1>3. \A i \in DOMAIN rows : /\ RowEvents(i) \in Seq(AllEvents)
                             /\ DOMAIN RowEvents(i) = 1 .. RowLen(i)
                             /\ \A k \in 1 .. RowLen(i) : RowEvents(i)[k] = EventAt(i, k)
  <2> TAKE i \in DOMAIN rows
  <2>1. EventsOf(i) \subseteq AllEvents
    BY DEF AllEvents
  <2>2. /\ RowEvents(i) \in Seq(EventsOf(i)) /\ DOMAIN RowEvents(i) = 1 .. RowLen(i)
        /\ \A k \in 1 .. RowLen(i) : RowEvents(i)[k] = EventAt(i, k)
    BY RowEventsAre
  <2> QED BY <2>1, <2>2
<1>4. s \in [1 .. n -> Seq(AllEvents)] /\ s \in Seq(Seq(AllEvents))
  BY <1>1, <1>3
<1>5. \A k \in 1 .. n : s[k] = RowEvents(lo + k - 1)
  OBVIOUS
<1> HIDE DEF s, n
<1>6. Fetched(r) = FlattenSeq(s)
  BY <1>2, <1>4, OnceSame
<1> DEFINE e == FlattenSeq(s)
<1>7. e \in Seq(AllEvents) /\ \E at : PlacedIn(e, s, n, at)
  BY <1>1, <1>4, Flattened
<1> HIDE DEF e
<1>8. PICK at : PlacedIn(e, s, n, at)
  BY <1>7
<1> DEFINE row == [p \in 1 .. Len(e) |-> lo + at[p][1] - 1]
           sub == [p \in 1 .. Len(e) |-> at[p][2]]
<1>9. ASSUME NEW p \in 1 .. Len(e)
      PROVE  /\ at[p][1] \in 1 .. n /\ row[p] \in lo .. hi /\ row[p] = lo + at[p][1] - 1
             /\ sub[p] \in 1 .. RowLen(row[p]) /\ sub[p] = at[p][2]
             /\ e[p] = EventAt(row[p], sub[p]) /\ sub[p] \in Nat
  <2>1. at[p][1] \in 1 .. n /\ at[p][2] \in DOMAIN s[at[p][1]] /\ e[p] = s[at[p][1]][at[p][2]]
    BY <1>8 DEF PlacedIn
  <2>2. row[p] = lo + at[p][1] - 1 /\ sub[p] = at[p][2]
    OBVIOUS
  <2> HIDE DEF row, sub
  <2>3. s[at[p][1]] = RowEvents(row[p]) /\ row[p] \in lo .. hi /\ row[p] \in DOMAIN rows
    BY <2>1, <2>2, <1>1, <1>5
  <2>4. sub[p] \in 1 .. RowLen(row[p]) /\ e[p] = EventAt(row[p], sub[p])
    BY <2>1, <2>2, <2>3, <1>3
  <2>5. RowLen(row[p]) \in Nat
    BY <2>3, CallsShape
  <2> QED BY <2>1, <2>2, <2>3, <2>4, <2>5
<1>10. row \in [1 .. Len(e) -> lo .. hi] /\ sub \in [1 .. Len(e) -> Nat]
  BY <1>9
<1> HIDE DEF row, sub
<1>11. ASSUME NEW p \in 1 .. Len(e), NEW q \in 1 .. Len(e), p < q
       PROVE  row[p] < row[q] \/ (row[p] = row[q] /\ sub[p] < sub[q])
  <2>1. at[p][1] < at[q][1] \/ (at[p][1] = at[q][1] /\ at[p][2] < at[q][2])
    BY <1>8, <1>11 DEF PlacedIn, Before
  <2>2. at[p][1] \in Nat /\ at[q][1] \in Nat /\ lo \in Nat
    BY <1>1, <1>9
  <2>3. /\ row[p] = lo + at[p][1] - 1 /\ sub[p] = at[p][2]
        /\ row[q] = lo + at[q][1] - 1 /\ sub[q] = at[q][2]
    BY <1>9
  <2>4. \A x, y \in Nat : x < y => lo + x - 1 < lo + y - 1
    OBVIOUS
  <2> QED BY <2>1, <2>2, <2>3, <2>4
<1>12. ASSUME NEW i \in lo .. hi, NEW k \in 1 .. RowLen(i)
       PROVE  \E p \in 1 .. Len(e) : row[p] = i /\ sub[p] = k
  <2>1. i - lo + 1 \in 1 .. n /\ s[i - lo + 1] = RowEvents(i) /\ k \in DOMAIN RowEvents(i)
    <3>0. i - lo + 1 \in 1 .. n /\ i \in DOMAIN rows
      BY <1>a
    <3>1. lo + (i - lo + 1) - 1 = i
      OBVIOUS
    <3> QED BY <3>0, <3>1, <1>3, <1>5
  <2>2. PICK p \in 1 .. Len(e) : at[p] = <<i - lo + 1, k>>
    BY <2>1, <1>8 DEF PlacedIn
  <2>3. at[p][1] = i - lo + 1 /\ at[p][2] = k
    BY <2>2
  <2>4. row[p] = lo + at[p][1] - 1 /\ sub[p] = at[p][2]
    BY <1>9
  <2>5. lo + (i - lo + 1) - 1 = i
    OBVIOUS
  <2> QED BY <2>3, <2>4, <2>5
<1>13. Listing(e, row, sub, lo, hi)
  BY <1>7, <1>9, <1>10, <1>11, <1>12 DEF Listing
<1> QED BY <1>6, <1>13 DEF e

\* The first event of a listing, and where the events of a row begin.
LEMMA ListingFacts ==
  ASSUME RowsShaped, NEW e, NEW row, NEW sub, NEW lo, NEW hi, Listing(e, row, sub, lo, hi)
  PROVE  /\ Len(e) \in Nat /\ DOMAIN e = 1 .. Len(e) /\ Len(rows) \in Nat
         /\ lo \in Nat /\ hi \in Nat /\ DOMAIN rows = 1 .. Len(rows)
         /\ \A i \in lo .. hi : i \in DOMAIN rows
         /\ \A p \in 1 .. Len(e) : /\ row[p] \in lo .. hi /\ row[p] \in DOMAIN rows
                                   /\ sub[p] \in 1 .. RowLen(row[p]) /\ RowLen(row[p]) \in Nat
                                   /\ row[p] \in Nat /\ sub[p] \in Nat
                                   /\ rows[row[p]].kind # "calls" => sub[p] = 1
         /\ \A i \in lo .. hi : \E p \in 1 .. Len(e) : row[p] = i /\ sub[p] = 1
         /\ \A p, q \in 1 .. Len(e) : row[p] = row[q] /\ sub[p] = sub[q] => p = q
         /\ e # <<>> => 1 \in 1 .. Len(e) /\ row[1] = lo /\ sub[1] = 1
<1>1. /\ Len(e) \in Nat /\ DOMAIN e = 1 .. Len(e) /\ Len(rows) \in Nat
      /\ lo \in Nat /\ hi \in Nat /\ DOMAIN rows = 1 .. Len(rows)
      /\ 1 <= lo /\ hi <= Len(rows)
  BY RowFacts DEF Listing
<1>2. \A i \in lo .. hi : i \in DOMAIN rows
  BY <1>1
<1>3. ASSUME NEW p \in 1 .. Len(e)
      PROVE  /\ row[p] \in lo .. hi /\ row[p] \in DOMAIN rows
             /\ sub[p] \in 1 .. RowLen(row[p]) /\ RowLen(row[p]) \in Nat
             /\ row[p] \in Nat /\ sub[p] \in Nat
             /\ rows[row[p]].kind # "calls" => sub[p] = 1
  <2>1. row[p] \in lo .. hi /\ sub[p] \in 1 .. RowLen(row[p]) /\ sub[p] \in Nat
    BY DEF Listing
  <2>2. row[p] \in DOMAIN rows /\ row[p] \in Nat
    BY <2>1, <1>1, <1>2
  <2>3. RowLen(row[p]) \in Nat
    BY <2>2, CallsShape
  <2> QED BY <2>1, <2>2, <2>3 DEF RowLen
<1>4. ASSUME NEW i \in lo .. hi PROVE \E p \in 1 .. Len(e) : row[p] = i /\ sub[p] = 1
  <2>1. 1 \in 1 .. RowLen(i)
    BY <1>2, CallsShape
  <2> QED BY <2>1 DEF Listing
<1>5. ASSUME NEW p \in 1 .. Len(e), NEW q \in 1 .. Len(e), p < q
      PROVE  row[p] < row[q] \/ (row[p] = row[q] /\ sub[p] < sub[q])
  BY <1>5 DEF Listing
<1>6. ASSUME NEW p \in 1 .. Len(e), NEW q \in 1 .. Len(e), row[p] = row[q], sub[p] = sub[q]
      PROVE  p = q
  <2>1. ~(p < q)
    BY <1>3, <1>5, <1>6
  <2>2. ~(q < p)
    BY <1>3, <1>5, <1>6
  <2> QED BY <2>1, <2>2
<1>7. ASSUME e # <<>> PROVE 1 \in 1 .. Len(e) /\ row[1] = lo /\ sub[1] = 1
  <2>1. 1 \in 1 .. Len(e)
    <3>1. Len(e) # 0
      BY <1>7 DEF Listing
    <3> QED BY <3>1, <1>1
  <2>2. lo \in lo .. hi
    BY <2>1, <1>1, <1>3
  <2>3. PICK p \in 1 .. Len(e) : row[p] = lo /\ sub[p] = 1
    BY <2>2, <1>4
  <2>4. p = 1
    <3> SUFFICES ASSUME p # 1 PROVE FALSE
      OBVIOUS
    <3>1. row[1] < row[p] \/ (row[1] = row[p] /\ sub[1] < sub[p])
      BY <2>1, <1>5
    <3> QED BY <3>1, <2>1, <2>3, <1>1, <1>3
  <2> QED BY <2>1, <2>3, <2>4
<1> QED BY <1>1, <1>2, <1>3, <1>4, <1>6, <1>7

\* Every row of the interval has a first event, and no event is there twice.
LEMMA ListingReaches ==
  ASSUME RowsShaped, NEW e, NEW row, NEW sub, NEW lo, NEW hi, Listing(e, row, sub, lo, hi)
  PROVE  \A i \in lo .. hi : \E p \in 1 .. Len(e) : row[p] = i /\ sub[p] = 1
  BY ListingFacts

LEMMA ListingOnce ==
  ASSUME RowsShaped, NEW e, NEW row, NEW sub, NEW lo, NEW hi, Listing(e, row, sub, lo, hi)
  PROVE  \A p, q \in 1 .. Len(e) : row[p] = row[q] /\ sub[p] = sub[q] => p = q
  BY ListingFacts

\* A listing from the first event of a row on is a listing.
LEMMA ListingFrom ==
  ASSUME RowsShaped, NEW e, NEW row, NEW sub, NEW lo, NEW hi, Listing(e, row, sub, lo, hi),
         NEW s \in 1 .. Len(e), sub[s] = 1
  PROVE  \E r2, s2 : Listing(From(e, s), r2, s2, row[s], hi)
<1>0. /\ Len(e) \in Nat /\ DOMAIN e = 1 .. Len(e) /\ e \in Seq(AllEvents) /\ s \in Nat
      /\ lo \in Nat /\ hi \in Nat /\ 1 <= lo /\ hi <= Len(rows)
      /\ \A p \in 1 .. Len(e) : /\ row[p] \in lo .. hi /\ row[p] \in Nat /\ sub[p] \in Nat
                                /\ sub[p] \in 1 .. RowLen(row[p]) /\ e[p] = EventAt(row[p], sub[p])
  <2>1. /\ Len(e) \in Nat /\ DOMAIN e = 1 .. Len(e)
        /\ \A p \in 1 .. Len(e) : /\ row[p] \in lo .. hi /\ row[p] \in Nat /\ sub[p] \in Nat
                                  /\ sub[p] \in 1 .. RowLen(row[p])
    BY ListingFacts
  <2> QED BY <2>1 DEF Listing
<1>1. \A p, q \in 1 .. Len(e) : p < q =>
        row[p] < row[q] \/ (row[p] = row[q] /\ sub[p] < sub[q])
  BY DEF Listing
<1> DEFINE f == From(e, s)
           n == Len(e) - s + 1
           r2 == [p \in 1 .. n |-> row[p + s - 1]]
           s2 == [p \in 1 .. n |-> sub[p + s - 1]]
<1>2. n \in Nat /\ \A p \in 1 .. n : p + s - 1 \in 1 .. Len(e)
  BY <1>0
<1>3. f \in Seq(AllEvents) /\ Len(f) = n /\ \A p \in 1 .. n : f[p] = e[p + s - 1]
  BY <1>0 DEF From
<1>4. \A p \in 1 .. n : r2[p] = row[p + s - 1] /\ s2[p] = sub[p + s - 1]
  OBVIOUS
<1>5. \A p \in 1 .. Len(e) : s <= p => row[s] <= row[p]
  BY <1>0, <1>1
<1>6. ASSUME NEW p \in 1 .. n
      PROVE  /\ r2[p] \in row[s] .. hi /\ s2[p] \in Nat
             /\ s2[p] \in 1 .. RowLen(r2[p]) /\ f[p] = EventAt(r2[p], s2[p])
  <2>1. p + s - 1 \in 1 .. Len(e) /\ s <= p + s - 1
    BY <1>0, <1>2
  <2> HIDE DEF r2, s2, f, n
  <2>2. /\ r2[p] = row[p + s - 1] /\ s2[p] = sub[p + s - 1] /\ f[p] = e[p + s - 1]
    BY <1>3, <1>4
  <2> DEFINE q == p + s - 1
  <2>3. q \in 1 .. Len(e) /\ s <= q
    BY <2>1
  <2> HIDE DEF q
  <2>4. /\ row[q] \in row[s] .. hi /\ sub[q] \in Nat /\ sub[q] \in 1 .. RowLen(row[q])
        /\ e[q] = EventAt(row[q], sub[q])
    <3>1. row[s] <= row[q] /\ row[q] \in lo .. hi /\ row[q] \in Nat /\ row[s] \in Nat
      BY <2>3, <1>0, <1>5
    <3> QED BY <2>3, <3>1, <1>0
  <2> QED BY <2>2, <2>4 DEF q
<1>7. r2 \in [1 .. n -> row[s] .. hi] /\ s2 \in [1 .. n -> Nat]
  BY <1>6
<1> HIDE DEF r2, s2, f
<1>8. ASSUME NEW p \in 1 .. n, NEW q \in 1 .. n, p < q
      PROVE  r2[p] < r2[q] \/ (r2[p] = r2[q] /\ s2[p] < s2[q])
  <2>1. p + s - 1 < q + s - 1 /\ p + s - 1 \in 1 .. Len(e) /\ q + s - 1 \in 1 .. Len(e)
    BY <1>0, <1>2, <1>8
  <2> HIDE DEF n
  <2> QED BY <2>1, <1>1, <1>4
<1>9. ASSUME NEW i \in row[s] .. hi, NEW k \in 1 .. RowLen(i)
      PROVE  \E p \in 1 .. n : r2[p] = i /\ s2[p] = k
  <2>1. i \in lo .. hi
    BY <1>0
  <2>2. PICK p \in 1 .. Len(e) : row[p] = i /\ sub[p] = k
    BY <2>1 DEF Listing
  <2>3. ~(p < s)
    <3> SUFFICES ASSUME p < s PROVE FALSE
      OBVIOUS
    <3>1. row[p] < row[s] \/ (row[p] = row[s] /\ sub[p] < sub[s])
      BY <1>1
    <3> QED BY <3>1, <2>2, <1>0
  <2>4. p - s + 1 \in 1 .. n /\ (p - s + 1) + s - 1 = p
    BY <2>3, <1>0
  <2> QED BY <2>2, <2>4, <1>4
<1>10. row[s] \in Nat /\ 1 <= row[s]
  BY <1>0
<1>11. Listing(f, r2, s2, row[s], hi)
  BY <1>0, <1>3, <1>6, <1>7, <1>8, <1>9, <1>10 DEF Listing
<1> QED BY <1>11 DEF f

-----------------------------------------------------------------------------
(* Where a round is made to begin. *)

UserRows(lo, hi) == {i \in lo .. hi : rows[i].kind = "user"}

LEMMA Several ==
  ASSUME NEW S, IsFiniteSet(S), NEW x \in S, NEW y \in S, x # y
  PROVE  Cardinality(S) > 1
<1>1. Cardinality({x, y}) = 2
  <2>1. IsFiniteSet({x}) /\ Cardinality({x}) = 1
    BY FS_Singleton
  <2>2. {x, y} = {x} \cup {y}
    OBVIOUS
  <2> QED BY <2>1, <2>2, FS_AddElement
<1>2. {x, y} \subseteq S
  OBVIOUS
<1>3. Cardinality({x, y}) <= Cardinality(S) /\ Cardinality(S) \in Nat
  BY <1>2, FS_Subset, FS_CardinalityType
<1> QED BY <1>1, <1>3

LEMMA Trimmed ==
  ASSUME RowsShaped, NEW e, NEW row, NEW sub, NEW lo, NEW hi, Listing(e, row, sub, lo, hi),
         NEW user, e # <<>>
  PROVE  \E s \in 1 .. Len(e) :
           /\ Trim(e, user) = From(e, s) /\ sub[s] = 1
           /\ user \in UserRows(lo, hi) => row[s] = user
           /\ user \notin UserRows(lo, hi) =>
                \/ row[s] \in UserRows(lo, hi) /\ \A u \in UserRows(lo, hi) : u <= row[s]
                \/ row[s] = lo /\ \A u, v \in UserRows(lo, hi) : u = v
<1> DEFINE users == {i \in DOMAIN e : IsUser(e[i])}
           known == {i \in users : e[i].event_id = <<user>>}
           U     == UserRows(lo, hi)
<1>1. /\ DOMAIN e = 1 .. Len(e) /\ Len(e) \in Nat
      /\ lo \in Nat /\ hi \in Nat
      /\ \A p \in 1 .. Len(e) : row[p] \in lo .. hi /\ row[p] \in Nat /\ sub[p] \in Nat
      /\ 1 \in 1 .. Len(e) /\ row[1] = lo /\ sub[1] = 1
      /\ \A i \in lo .. hi : \E p \in 1 .. Len(e) : row[p] = i /\ sub[p] = 1
      /\ \A p, q \in 1 .. Len(e) : row[p] = row[q] /\ sub[p] = sub[q] => p = q
  <2>1. 1 \in 1 .. Len(e) /\ row[1] = lo /\ sub[1] = 1
    BY ListingFacts
  <2>2. /\ DOMAIN e = 1 .. Len(e) /\ Len(e) \in Nat /\ lo \in Nat /\ hi \in Nat
        /\ \A p \in 1 .. Len(e) : row[p] \in lo .. hi /\ row[p] \in Nat /\ sub[p] \in Nat
    BY ListingFacts
  <2>3. \A i \in lo .. hi : \E p \in 1 .. Len(e) : row[p] = i /\ sub[p] = 1
    BY ListingReaches
  <2>4. \A p, q \in 1 .. Len(e) : row[p] = row[q] /\ sub[p] = sub[q] => p = q
    BY ListingOnce
  <2> QED BY <2>1, <2>2, <2>3, <2>4
<1>2. ASSUME NEW p \in 1 .. Len(e)
      PROVE  /\ p \in users <=> row[p] \in U
             /\ p \in users => sub[p] = 1 /\ e[p].event_id = <<row[p]>>
  <2>1. /\ row[p] \in DOMAIN rows /\ sub[p] \in 1 .. RowLen(row[p])
        /\ rows[row[p]].kind # "calls" => sub[p] = 1
    BY ListingFacts
  <2>2. e[p] = EventAt(row[p], sub[p])
    BY DEF Listing
  <2>3. /\ IsUser(e[p]) <=> rows[row[p]].kind = "user"
        /\ e[p].kind = "message" => e[p].event_id = <<row[p]>>
    BY <2>1, <2>2, EventFacts
  <2>4. IsUser(e[p]) => e[p].kind = "message"
    BY DEF IsUser
  <2> QED BY <1>1, <2>1, <2>3, <2>4 DEF UserRows
<1>3. \A u \in U : \E p \in users : row[p] = u
  <2> TAKE u \in U
  <2>1. u \in lo .. hi
    BY DEF UserRows
  <2>2. PICK p \in 1 .. Len(e) : row[p] = u /\ sub[p] = 1
    BY <2>1, <1>1
  <2> QED BY <2>2, <1>1, <1>2
<1>4. users \subseteq 1 .. Len(e) /\ IsFiniteSet(users) /\ users \in SUBSET Nat
  <2>1. users \subseteq 1 .. Len(e) /\ IsFiniteSet(1 .. Len(e))
    BY <1>1, FS_Interval
  <2> QED BY <2>1, FS_Subset
<1>5. \A p \in users : p \in known <=> row[p] = user
  <2> TAKE p \in users
  <2>1. p \in known <=> <<row[p]>> = <<user>>
    BY <1>2, <1>4
  <2>2. \A x, y : <<x>> = <<y>> <=> x = y
    OBVIOUS
  <2> QED BY <2>1, <2>2
<1>6. known # {} <=> user \in U
  <2>1. ASSUME known # {} PROVE user \in U
    <3>1. PICK p \in known : TRUE
      BY <2>1
    <3>2. p \in users
      OBVIOUS
    <3> QED BY <3>1, <3>2, <1>2, <1>4, <1>5
  <2>2. ASSUME user \in U PROVE known # {}
    <3> HIDE DEF known
    <3> QED BY <2>2, <1>3, <1>5
  <2> QED BY <2>1, <2>2
<1> SUFFICES \E s \in 1 .. Len(e) :
           /\ Trim(e, user) = From(e, s) /\ sub[s] = 1
           /\ user \in U => row[s] = user
           /\ user \notin U =>
                \/ row[s] \in U /\ \A u \in U : u <= row[s]
                \/ row[s] = lo /\ \A u, v \in U : u = v
  OBVIOUS
<1>7. CASE known # {}
  <2> DEFINE s == CHOOSE i \in known : TRUE
  <2>1. s \in known
    BY <1>7
  <2>2. Trim(e, user) = From(e, s)
    BY <1>7 DEF Trim
  <2>3. s \in users
    BY <2>1
  <2> HIDE DEF s, known, users, U
  <2>4. s \in 1 .. Len(e) /\ sub[s] = 1 /\ row[s] = user
    BY <2>1, <2>3, <1>2, <1>4, <1>5
  <2> QED BY <2>2, <2>4, <1>6, <1>7
<1>8. CASE known = {} /\ Cardinality(users) > 1
  <2> DEFINE s == CHOOSE i \in users : \A j \in users : j <= i
  <2>1. users # {}
    BY <1>8, FS_EmptySet
  <2>2. \E i \in users : \A j \in users : j <= i
    <3> HIDE DEF users
    <3>1. \A j \in users : j <= Len(e)
      BY <1>1, <1>4
    <3> QED BY <2>1, <3>1, <1>1, <1>4, Greatest
  <2>3. s \in users /\ \A j \in users : j <= s
    BY <2>2
  <2>4. Trim(e, user) = From(e, s)
    BY <1>8 DEF Trim
  <2> HIDE DEF s, known, users, U
  <2>5. s \in 1 .. Len(e) /\ sub[s] = 1 /\ row[s] \in U
    BY <2>3, <1>2, <1>4
  <2>6. ASSUME NEW u \in U PROVE u <= row[s]
    <3>1. PICK p \in users : row[p] = u
      BY <1>3
    <3>2. p \in 1 .. Len(e) /\ p <= s /\ p \in Nat /\ s \in Nat
      BY <2>3, <1>4
    <3>3. p < s => row[p] < row[s] \/ row[p] = row[s]
      BY <2>5, <3>2 DEF Listing
    <3> QED BY <2>5, <3>1, <3>2, <3>3, <1>1
  <2> QED BY <2>4, <2>5, <2>6, <1>6, <1>8
<1>9. CASE known = {} /\ ~(Cardinality(users) > 1)
  <2>1. Trim(e, user) = e
    BY <1>9 DEF Trim
  <2>2. From(e, 1) = e
    <3>1. e \in Seq(AllEvents)
      BY DEF Listing
    <3> QED BY <3>1 DEF From
  <2> HIDE DEF known, users, U
  <2>3. ASSUME NEW u \in U, NEW v \in U PROVE u = v
    <3>1. PICK p \in users : row[p] = u
      BY <1>3
    <3>2. PICK q \in users : row[q] = v
      BY <1>3
    <3>3. p = q
      BY <1>4, <1>9, Several
    <3> QED BY <3>1, <3>2, <3>3
  <2> QED BY <2>1, <2>2, <2>3, <1>1, <1>6, <1>9
<1> QED BY <1>7, <1>8, <1>9

-----------------------------------------------------------------------------
(* The links and the end of a round. *)

LEMMA Made ==
  ASSUME NEW n \in Nat, NEW g, g = [i \in 1 .. n |-> g[i]]
  PROVE  g \in Seq({g[i] : i \in 1 .. n}) /\ Len(g) = n /\ DOMAIN g = 1 .. n /\ Once(g) = g
<1>1. g \in [1 .. n -> {g[i] : i \in 1 .. n}]
  OBVIOUS
<1>2. g \in Seq({g[i] : i \in 1 .. n}) /\ Len(g) = n /\ DOMAIN g = 1 .. n
  BY <1>1
<1> QED BY <1>2, OnceSame

LEMMA EventShape ==
  ASSUME RowsShaped, NEW i \in DOMAIN rows, NEW k \in 1 .. RowLen(i)
  PROVE  LET e == EventAt(i, k) IN
         /\ e = [f \in DOMAIN e |-> e[f]]
         /\ e.kind = "message" =>
              DOMAIN e = {"event_id", "kind", "role", "terminal"}
              /\ e.role \in {"user", "assistant"} /\ e.terminal \in BOOLEAN
         /\ e.kind = "tool_call" =>
              /\ DOMAIN e = {"event_id", "kind", "tool_name", "arguments", "synthetic", "tool_call_id"}
              /\ e.synthetic = ~rows[i].calls[k - 1] /\ e.event_id = <<i, k - 1>>
              /\ e.tool_call_id = IF rows[i].calls[k - 1] THEN <<"call", i, k - 1>>
                                  ELSE <<"row call", i, k - 1>>
         /\ e.kind = "tool_result" =>
              /\ DOMAIN e = {"event_id", "kind", "status", "tool_call_id"}
              /\ e.event_id = <<i>>
              /\ e.tool_call_id = ResultEvent(i).tool_call_id
<1>1. rows[i].kind \in RowKinds
  BY RowFacts
<1>2. CASE rows[i].kind = "result"
  BY <1>2 DEF EventAt, ResultEvent
<1>3. CASE rows[i].kind = "user"
  BY <1>3 DEF EventAt, MessageEvent
<1>4. CASE rows[i].kind = "final"
  BY <1>4 DEF EventAt, MessageEvent
<1>5. CASE rows[i].kind = "calls" /\ k = 1
  BY <1>5 DEF EventAt, MessageEvent
<1>6. CASE rows[i].kind = "calls" /\ k # 1
  BY <1>6 DEF EventAt, CallEvent
<1> QED BY <1>1, <1>2, <1>3, <1>4, <1>5, <1>6 DEF RowKinds

\* l is e but for the ids of its calls and results.
Linked(l, e) ==
  /\ DOMAIN l = DOMAIN e /\ Len(l) = Len(e) /\ \E S : l \in Seq(S)
  /\ \A p \in DOMAIN e :
       /\ e[p].kind = "message" => l[p] = e[p]
       /\ DOMAIN l[p] = DOMAIN e[p]
       /\ \A f \in DOMAIN e[p] \ {"tool_call_id"} : l[p][f] = e[p][f]

Anonymous(e) == {i \in DOMAIN e : e[i].kind = "tool_call" /\ e[i].synthetic}
Named(e)     == {e[i].tool_call_id : i \in
                   {i \in DOMAIN e : e[i].kind = "tool_call" /\ ~e[i].synthetic}}
Loose(e)     == {i \in DOMAIN e : e[i].kind = "tool_result"
                                  /\ e[i].tool_call_id \notin Named(e)}
Rank(i, S)   == Cardinality({j \in S : j < i})
Partners(e, i) == {j \in Loose(e) : Rank(j, Loose(e)) = Rank(i, Anonymous(e))}
LinkOf(e, i) == IF i \in Anonymous(e) /\ Partners(e, i) # {}
                  THEN e[CHOOSE j \in Partners(e, i) : TRUE].tool_call_id
                  ELSE e[i].tool_call_id

LEMMA LinkedFacts ==
  ASSUME RowsShaped, NEW e, NEW row, NEW sub, NEW lo, NEW hi, Listing(e, row, sub, lo, hi)
  PROVE  /\ Linked(Link(e), e)
         /\ \A p \in DOMAIN e : e[p].kind # "message" =>
              "tool_call_id" \in DOMAIN e[p] /\ Link(e)[p].tool_call_id = LinkOf(e, p)
<1> DEFINE n == Len(e)
           g == [i \in DOMAIN e |->
                   IF e[i].kind = "message" THEN e[i]
                   ELSE [e[i] EXCEPT !.tool_call_id = LinkOf(e, i)]]
<1>1. n \in Nat /\ DOMAIN e = 1 .. n
  BY ListingFacts
<1>2. Link(e) = Once(g)
  BY DEF Link, LinkOf, Partners, Rank, Loose, Named, Anonymous
<1>3. ASSUME NEW p \in DOMAIN e
      PROVE  /\ e[p] = [f \in DOMAIN e[p] |-> e[p][f]]
             /\ e[p].kind # "message" => "tool_call_id" \in DOMAIN e[p]
  <2>1. row[p] \in DOMAIN rows /\ sub[p] \in 1 .. RowLen(row[p])
    BY <1>1, ListingFacts
  <2>2. e[p] = EventAt(row[p], sub[p])
    BY <1>1 DEF Listing
  <2>3. e[p].kind \in {"message", "tool_call", "tool_result"}
    BY <2>1, <2>2, EventFacts
  <2> DEFINE x == EventAt(row[p], sub[p])
  <2>4. /\ x = [f \in DOMAIN x |-> x[f]]
        /\ x.kind = "tool_call" => "tool_call_id" \in DOMAIN x
        /\ x.kind = "tool_result" => "tool_call_id" \in DOMAIN x
    <3>1. x = [f \in DOMAIN x |-> x[f]]
      BY <2>1, EventShape
    <3>2. x.kind = "tool_call" => DOMAIN x = {"event_id", "kind", "tool_name", "arguments",
                                             "synthetic", "tool_call_id"}
      BY <2>1, EventShape
    <3>3. x.kind = "tool_result" => DOMAIN x = {"event_id", "kind", "status", "tool_call_id"}
      BY <2>1, EventShape
    <3> HIDE DEF x
    <3> QED BY <3>1, <3>2, <3>3
  <2> HIDE DEF x
  <2>5. e[p] = x
    BY <2>2 DEF x
  <2> QED BY <2>3, <2>4, <2>5
<1>4. \A p \in DOMAIN e : g[p] = IF e[p].kind = "message" THEN e[p]
                                 ELSE [e[p] EXCEPT !.tool_call_id = LinkOf(e, p)]
  OBVIOUS
<1>5. g = [i \in 1 .. n |-> g[i]]
  BY <1>1
<1> HIDE DEF g
<1>6. Link(e) = g /\ Len(g) = n /\ DOMAIN g = 1 .. n /\ \E S : g \in Seq(S)
  BY <1>1, <1>2, <1>5, Made
<1>7. ASSUME NEW p \in DOMAIN e
      PROVE  /\ e[p].kind = "message" => g[p] = e[p]
             /\ DOMAIN g[p] = DOMAIN e[p]
             /\ \A f \in DOMAIN e[p] \ {"tool_call_id"} : g[p][f] = e[p][f]
             /\ e[p].kind # "message" => g[p].tool_call_id = LinkOf(e, p)
  <2> DEFINE x == e[p]
             y == LinkOf(e, p)
             z == [x EXCEPT !.tool_call_id = y]
  <2>1. x = [f \in DOMAIN x |-> x[f]] /\ (x.kind # "message" => "tool_call_id" \in DOMAIN x)
    BY <1>3
  <2>2. g[p] = IF x.kind = "message" THEN x ELSE z
    BY <1>4
  <2> HIDE DEF x, y
  <2>3. DOMAIN z = DOMAIN x /\ (\A f \in DOMAIN x \ {"tool_call_id"} : z[f] = x[f])
    OBVIOUS
  <2>4. "tool_call_id" \in DOMAIN x => z.tool_call_id = y
    OBVIOUS
  <2> HIDE DEF z
  <2>5. /\ x.kind = "message" => g[p] = x
        /\ DOMAIN g[p] = DOMAIN x
        /\ \A f \in DOMAIN x \ {"tool_call_id"} : g[p][f] = x[f]
        /\ x.kind # "message" => g[p].tool_call_id = y
    BY <2>1, <2>2, <2>3, <2>4
  <2> QED BY <2>5 DEF x, y
<1>8. Linked(g, e)
  <2>1. DOMAIN g = DOMAIN e /\ Len(g) = Len(e) /\ \E S : g \in Seq(S)
    BY <1>1, <1>6
  <2> QED BY <2>1, <1>7 DEF Linked
<1> QED BY <1>3, <1>6, <1>7, <1>8

\* v is l up to its last event, which is the final one.
Finished(v, l, last) ==
  /\ Len(v) = last /\ DOMAIN v = 1 .. last /\ v \in Seq({v[p] : p \in 1 .. last})
  /\ \A p \in 1 .. last :
       /\ DOMAIN v[p] = (DOMAIN l[p] \ {"terminal", "synthetic"}) \cup {"final"}
       /\ \A f \in DOMAIN l[p] \ {"terminal", "synthetic", "final"} : v[p][f] = l[p][f]
       /\ v[p].final = (p = last)

LEMMA FinishedFacts ==
  ASSUME NEW S, NEW l \in Seq(S), NEW ended
  PROVE  /\ FinalIndices(l, ended) = {} =>
              \A p \in DOMAIN Finish(l, ended) : Finish(l, ended)[p].final = FALSE
         /\ FinalIndices(l, ended) # {} =>
              \E last \in FinalIndices(l, ended) :
                /\ last \in 1 .. Len(l) /\ Finished(Finish(l, ended), l, last)
                /\ \A p \in FinalIndices(l, ended) : last <= p
<1> DEFINE indices == FinalIndices(l, ended)
           last    == CHOOSE i \in indices : \A j \in indices : i <= j
           upTo    == IF indices = {} THEN l ELSE SubSeq(l, 1, last)
           g       == [i \in DOMAIN upTo |->
                        [f \in (DOMAIN upTo[i] \ {"terminal", "synthetic"}) \cup {"final"} |->
                           IF f = "final" THEN indices # {} /\ i = last ELSE upTo[i][f]]]
<1>1. Finish(l, ended) = Once(g)
  BY DEF Finish
<1>2. indices \subseteq 1 .. Len(l) /\ Len(l) \in Nat /\ indices \in SUBSET Nat
  BY DEF FinalIndices
<1>3. ASSUME NEW n \in Nat, DOMAIN upTo = 1 .. n
      PROVE  /\ Finish(l, ended) = g /\ Len(g) = n /\ DOMAIN g = 1 .. n
             /\ g \in Seq({g[p] : p \in 1 .. n})
  <2>1. g = [i \in 1 .. n |-> g[i]]
    <3> HIDE DEF upTo, indices, last
    <3>1. g = [i \in DOMAIN upTo |-> g[i]]
      OBVIOUS
    <3> HIDE DEF g
    <3> QED BY <3>1, <1>3
  <2> HIDE DEF g
  <2> QED BY <2>1, <1>1, <1>3, Made
<1>4. \A p \in DOMAIN upTo :
        /\ DOMAIN g[p] = (DOMAIN upTo[p] \ {"terminal", "synthetic"}) \cup {"final"}
        /\ \A f \in DOMAIN upTo[p] \ {"terminal", "synthetic", "final"} : g[p][f] = upTo[p][f]
        /\ g[p].final = (indices # {} /\ p = last)
  <2> HIDE DEF upTo, indices, last
  <2> QED OBVIOUS
<1>5. CASE indices = {}
  <2>1. upTo = l /\ DOMAIN upTo = 1 .. Len(l)
    BY <1>5
  <2> HIDE DEF g, upTo, last
  <2>2. Finish(l, ended) = g /\ DOMAIN g = 1 .. Len(l)
    BY <2>1, <1>2, <1>3
  <2>3. \A p \in DOMAIN g : g[p].final = FALSE
    BY <2>1, <2>2, <1>4, <1>5
  <2> QED BY <2>2, <2>3, <1>5
<1>6. CASE indices # {}
  <2>1. \E i \in indices : \A j \in indices : i <= j
    <3> HIDE DEF indices
    <3> QED BY <1>2, <1>6, Least
  <2>2. last \in indices /\ \A j \in indices : last <= j
    BY <2>1
  <2> HIDE DEF last
  <2>3. upTo = SubSeq(l, 1, last) /\ last \in 1 .. Len(l)
    BY <2>2, <1>2, <1>6
  <2>4. DOMAIN upTo = 1 .. last /\ last \in Nat /\ \A p \in 1 .. last : upTo[p] = l[p]
    BY <2>3, <1>2
  <2> HIDE DEF g, upTo
  <2>5. /\ Finish(l, ended) = g /\ Len(g) = last /\ DOMAIN g = 1 .. last
        /\ g \in Seq({g[p] : p \in 1 .. last})
    BY <2>4, <1>3
  <2>6. Finished(g, l, last)
    <3>1. ASSUME NEW p \in 1 .. last
          PROVE  /\ DOMAIN g[p] = (DOMAIN l[p] \ {"terminal", "synthetic"}) \cup {"final"}
                 /\ \A f \in DOMAIN l[p] \ {"terminal", "synthetic", "final"} : g[p][f] = l[p][f]
                 /\ g[p].final = (p = last)
      BY <2>4, <1>4, <1>6
    <3> QED BY <2>5, <3>1 DEF Finished
  <2> QED BY <2>2, <2>3, <2>5, <2>6, <1>6
<1> QED BY <1>5, <1>6

-----------------------------------------------------------------------------
(* A recovered round and the rows it is made of. *)

LEMMA RecoveredIs ==
  ASSUME NEW t
  PROVE  Recovered(t) = IF Fetched(round[t]) = <<>> THEN <<>>
                        ELSE Finish(Link(Trim(Fetched(round[t]), round[t].user)), round[t].final)
  BY DEF Recovered, Fetched

\* The kinds of a linked event are those of its row.
LEMMA LinkedKinds ==
  ASSUME RowsShaped, NEW e, NEW row, NEW sub, NEW lo, NEW hi, Listing(e, row, sub, lo, hi),
         NEW l, Linked(l, e), NEW p \in 1 .. Len(e)
  PROVE  /\ l[p].kind = e[p].kind /\ l[p].event_id = e[p].event_id
         /\ l[p].event_id[1] = row[p]
         /\ IsUser(l[p]) <=> rows[row[p]].kind = "user"
         /\ IsAssistant(l[p]) => l[p] = e[p] /\ l[p].event_id = <<row[p]>>
         /\ rows[row[p]].kind = "final" => IsAssistant(l[p]) /\ l[p].terminal
         /\ IsAssistant(l[p]) /\ l[p].terminal => rows[row[p]].kind = "final"
<1> DEFINE i == row[p]
           k == sub[p]
<1>1. /\ DOMAIN e = 1 .. Len(e) /\ i \in DOMAIN rows /\ k \in 1 .. RowLen(i)
  BY ListingFacts
<1>2. e[p] = EventAt(i, k)
  BY DEF Listing
<1> HIDE DEF i, k
<1> DEFINE x == EventAt(i, k)
<1>3. /\ x.event_id[1] = i
      /\ x.kind = "message" => x.event_id = <<i>>
      /\ IsUser(x) <=> rows[i].kind = "user"
      /\ IsAssistant(x) <=> rows[i].kind = "final" \/ (rows[i].kind = "calls" /\ k = 1)
      /\ IsAssistant(x) => (x.terminal <=> rows[i].kind = "final")
      /\ x.kind \in {"message", "tool_call", "tool_result"}
  BY <1>1, EventFacts
<1>4. "kind" \in DOMAIN x /\ "event_id" \in DOMAIN x
  <2>1. /\ x.kind = "message" => DOMAIN x = {"event_id", "kind", "role", "terminal"}
        /\ x.kind = "tool_call" => DOMAIN x = {"event_id", "kind", "tool_name", "arguments",
                                             "synthetic", "tool_call_id"}
        /\ x.kind = "tool_result" => DOMAIN x = {"event_id", "kind", "status", "tool_call_id"}
    <3>1. x.kind = "message" => DOMAIN x = {"event_id", "kind", "role", "terminal"}
      BY <1>1, EventShape
    <3>2. x.kind = "tool_call" => DOMAIN x = {"event_id", "kind", "tool_name", "arguments",
                                             "synthetic", "tool_call_id"}
      BY <1>1, EventShape
    <3>3. x.kind = "tool_result" => DOMAIN x = {"event_id", "kind", "status", "tool_call_id"}
      BY <1>1, EventShape
    <3> QED BY <3>1, <3>2, <3>3
  <2> HIDE DEF x
  <2> QED BY <2>1, <1>3
<1> HIDE DEF x
<1>5. e[p] = x
  BY <1>2 DEF x
<1>6. /\ x.kind = "message" => l[p] = x
      /\ \A f \in DOMAIN x \ {"tool_call_id"} : l[p][f] = x[f]
  BY <1>1, <1>5 DEF Linked
<1>7. l[p].kind = x.kind /\ l[p].event_id = x.event_id
  BY <1>4, <1>6
<1>8. /\ IsUser(l[p]) => l[p] = x
      /\ IsUser(x) => l[p] = x
      /\ IsAssistant(l[p]) => l[p] = x /\ x.kind = "message"
      /\ IsAssistant(x) => l[p] = x
  BY <1>6, <1>7 DEF IsUser, IsAssistant
<1>9. IsUser(l[p]) <=> rows[i].kind = "user"
  BY <1>3, <1>8
<1>10. /\ IsAssistant(l[p]) => l[p] = e[p] /\ l[p].event_id = <<i>>
       /\ rows[i].kind = "final" => IsAssistant(l[p]) /\ l[p].terminal
       /\ IsAssistant(l[p]) /\ l[p].terminal => rows[i].kind = "final"
  BY <1>3, <1>5, <1>8
<1> QED BY <1>3, <1>5, <1>7, <1>9, <1>10 DEF i

LEMMA FinalPlaces ==
  ASSUME RowsShaped, NEW e, NEW row, NEW sub, NEW lo, NEW hi, Listing(e, row, sub, lo, hi),
         NEW l, Linked(l, e), NEW ended
  PROVE  /\ \A p \in FinalIndices(l, ended) :
              p \in 1 .. Len(e) /\ (row[p] = ended \/ rows[row[p]].kind = "final")
         /\ \A p \in 1 .. Len(e) : rows[row[p]].kind = "final" => FinalIndices(l, ended) # {}
<1>1. DOMAIN e = 1 .. Len(e) /\ DOMAIN l = 1 .. Len(e)
  BY ListingFacts DEF Linked
<1>2. ASSUME NEW p \in FinalIndices(l, ended)
      PROVE  p \in 1 .. Len(e) /\ (row[p] = ended \/ rows[row[p]].kind = "final")
  <2>1. /\ p \in 1 .. Len(e) /\ IsAssistant(l[p])
        /\ l[p].event_id = <<ended>> \/ l[p].terminal
    BY <1>1 DEF FinalIndices
  <2>2. /\ l[p].event_id = <<row[p]>>
        /\ l[p].terminal => rows[row[p]].kind = "final"
    BY <2>1, LinkedKinds
  <2>3. \A x, y : <<x>> = <<y>> => x = y
    OBVIOUS
  <2> QED BY <2>1, <2>2, <2>3
<1>3. ASSUME NEW p \in 1 .. Len(e), rows[row[p]].kind = "final"
      PROVE  FinalIndices(l, ended) # {}
  <2>1. IsAssistant(l[p]) /\ l[p].terminal /\ p \in DOMAIN l
    BY <1>1, <1>3, LinkedKinds
  <2> QED BY <2>1 DEF FinalIndices
<1> QED BY <1>2, <1>3

\* What is fetched for a closed round, trimmed, is a listing of the rows from
\* some row of the window on.
LEMMA Begun ==
  ASSUME TableInv, NEW t \in Turns, Closed(t), Fetched(round[t]) # <<>>
  PROVE  \E e, row, sub, lo, hi :
           /\ Listing(e, row, sub, lo, hi) /\ lo \in lo .. hi
           /\ Recovered(t) = Finish(Link(e), round[t].final)
           /\ {i \in Selected(round[t]) : i >= lo} = lo .. hi
           /\ \/ lo = round[t].user
              \/ /\ rows[lo].kind = "user"
                 /\ \A u \in Selected(round[t]) : rows[u].kind = "user" => u <= lo
              \/ /\ \A i \in Selected(round[t]) : lo <= i
                 /\ \A u, v \in Selected(round[t]) :
                      rows[u].kind = "user" /\ rows[v].kind = "user" => u = v
           /\ round[t].user \in Selected(round[t]) /\ rows[round[t].user].kind = "user"
                => lo = round[t].user
<1> DEFINE S == Selected(round[t])
           f == Fetched(round[t])
           user == round[t].user
<1>0. RowsShaped
  BY DEF TableInv
<1>1. PICK a \in Nat, hi \in Nat : 1 <= a /\ hi <= Len(rows) /\ a <= hi + 1 /\ S = a .. hi
  BY SelectedInterval
<1>2. PICK r, b : Listing(f, r, b, a, hi)
  BY <1>0, <1>1, FetchedListing
<1>3. PICK s \in 1 .. Len(f) :
           /\ Trim(f, user) = From(f, s) /\ b[s] = 1
           /\ user \in UserRows(a, hi) => r[s] = user
           /\ user \notin UserRows(a, hi) =>
                \/ r[s] \in UserRows(a, hi) /\ \A u \in UserRows(a, hi) : u <= r[s]
                \/ r[s] = a /\ \A u, v \in UserRows(a, hi) : u = v
  BY <1>0, <1>2, Trimmed
<1> DEFINE e == From(f, s)
           lo == r[s]
<1>4. PICK row, sub : Listing(e, row, sub, lo, hi)
  BY <1>0, <1>2, <1>3, ListingFrom
<1>5. lo \in a .. hi /\ lo \in Nat
  BY <1>0, <1>2, ListingFacts
<1>6. Recovered(t) = Finish(Link(e), round[t].final)
  BY <1>3, RecoveredIs
<1> HIDE DEF e, lo, S, f, user
<1>7. {i \in S : i >= lo} = lo .. hi /\ lo \in lo .. hi /\ \A i \in S : a <= i
  BY <1>1, <1>5
<1>8. \A u : u \in UserRows(a, hi) <=> u \in S /\ rows[u].kind = "user"
  BY <1>1 DEF UserRows
<1>9. /\ user \in UserRows(a, hi) => lo = user
      /\ user \notin UserRows(a, hi) =>
           \/ lo \in UserRows(a, hi) /\ \A u \in UserRows(a, hi) : u <= lo
           \/ lo = a /\ \A u, v \in UserRows(a, hi) : u = v
  BY <1>3 DEF lo
<1>10. /\ user \in S /\ rows[user].kind = "user" => lo = user
       /\ \/ lo = user
          \/ rows[lo].kind = "user" /\ \A u \in S : rows[u].kind = "user" => u <= lo
          \/ /\ \A i \in S : lo <= i
             /\ \A u, v \in S : rows[u].kind = "user" /\ rows[v].kind = "user" => u = v
  BY <1>7, <1>8, <1>9
<1> QED BY <1>4, <1>6, <1>7, <1>10 DEF S, user

\* A listing of the window of turn t, from the user's message to the final one.
WholeRound(t, e, row, sub, lo, hi, last) ==
  /\ Listing(e, row, sub, lo, hi) /\ lo \in lo .. hi
  /\ lo \in Places(t, "user")
  /\ last \in 1 .. Len(e) /\ row[last] \in Places(t, "final") /\ sub[last] = 1
  /\ \A i \in lo .. hi : rows[i].kind # "user" => rows[i].turn = t
  /\ Linked(Link(e), e) /\ Finished(Recovered(t), Link(e), last)
  /\ \A i \in DOMAIN rows : rows[i].turn = t <=> i \in lo .. row[last]

LEMMA RecoveredWhole ==
  ASSUME TableInv, NEW t \in Turns, Closed(t), Usable(Recovered(t))
  PROVE  \E e, row, sub, lo, hi, last : WholeRound(t, e, row, sub, lo, hi, last)
<1> DEFINE r == round[t]
           S == Selected(r)
<1>0. RowsShaped /\ r.user \in Places(t, "user") \cup {Unknown}
      /\ r.final \in Places(t, "final") \cup {Unknown}
      /\ DOMAIN rows = 1 .. Len(rows) /\ Len(rows) \in Nat
      /\ \A i \in DOMAIN rows : rows[i].turn \in Nat
      /\ t \in Nat
  BY TurnNat, RowFacts DEF TableInv, RoundsShaped
<1>1. Fetched(r) # <<>>
  <2> SUFFICES ASSUME Fetched(r) = <<>> PROVE FALSE
    OBVIOUS
  <2>1. Recovered(t) = <<>>
    BY RecoveredIs
  <2> QED BY <2>1 DEF Usable
<1>2. PICK e, row, sub, lo, hi :
           /\ Listing(e, row, sub, lo, hi) /\ lo \in lo .. hi
           /\ Recovered(t) = Finish(Link(e), r.final)
           /\ {i \in S : i >= lo} = lo .. hi
           /\ \/ lo = r.user
              \/ rows[lo].kind = "user" /\ \A u \in S : rows[u].kind = "user" => u <= lo
              \/ /\ \A i \in S : lo <= i
                 /\ \A u, v \in S : rows[u].kind = "user" /\ rows[v].kind = "user" => u = v
  BY <1>1, Begun
<1> DEFINE v == Recovered(t)
           l == Link(e)
<1>3. Linked(l, e) /\ DOMAIN e = 1 .. Len(e) /\ Len(e) \in Nat
  BY <1>0, <1>2, LinkedFacts, ListingFacts
<1>4. \E X : l \in Seq(X)
  BY <1>3 DEF Linked
<1>5. /\ FinalIndices(l, r.final) = {} => \A p \in DOMAIN v : v[p].final = FALSE
      /\ FinalIndices(l, r.final) # {} =>
           \E last \in FinalIndices(l, r.final) : last \in 1 .. Len(l) /\ Finished(v, l, last)
  <2>1. v = Finish(l, r.final)
    BY <1>2
  <2> HIDE DEF l, v, r
  <2>2. PICK X : l \in Seq(X)
    BY <1>4
  <2>3. /\ FinalIndices(l, r.final) = {} =>
             \A p \in DOMAIN Finish(l, r.final) : Finish(l, r.final)[p].final = FALSE
        /\ FinalIndices(l, r.final) # {} =>
             \E last \in FinalIndices(l, r.final) :
               last \in 1 .. Len(l) /\ Finished(Finish(l, r.final), l, last)
    BY <2>2, FinishedFacts
  <2> QED BY <2>1, <2>3
<1>6. FinalIndices(l, r.final) # {}
  BY <1>5 DEF Usable
<1>7. PICK last \in FinalIndices(l, r.final) : Finished(v, l, last)
  BY <1>5, <1>6
<1>8. last \in 1 .. Len(e) /\ (row[last] = r.final \/ rows[row[last]].kind = "final")
  BY <1>0, <1>2, <1>3, <1>7, FinalPlaces
<1>9. \A p \in 1 .. Len(e) : /\ row[p] \in lo .. hi /\ row[p] \in DOMAIN rows /\ row[p] \in Nat
                             /\ rows[row[p]].kind # "calls" => sub[p] = 1
  BY <1>0, <1>2, ListingFacts
<1>10. \A i \in S : /\ i \in DOMAIN rows /\ rows[i].turn >= t
                    /\ rows[i].kind # "user" => rows[i].turn = t
  BY SelectedTurns
<1>11. lo .. hi \subseteq S /\ lo \in Nat /\ hi \in Nat
  BY <1>2 DEF Listing
<1> HIDE DEF S, r, v, l
<1>12. row[last] \in Places(t, "final") /\ sub[last] = 1
  <2>1. row[last] \in S /\ row[last] \in DOMAIN rows
    BY <1>8, <1>9, <1>11
  <2>2. rows[row[last]].kind = "final" => rows[row[last]].turn = t
    BY <2>1, <1>10
  <2>3. row[last] = r.final => r.final # Unknown
    BY <2>1, <1>0 DEF Unknown
  <2>4. row[last] \in Places(t, "final")
    BY <2>1, <2>2, <2>3, <1>0, <1>8 DEF Places
  <2> QED BY <2>4, <1>8, <1>9 DEF Places
<1> DEFINE fin == row[last]
<1>13. /\ fin \in lo .. hi /\ fin \in DOMAIN rows /\ rows[fin].turn = t
       /\ rows[fin].kind = "final"
  BY <1>8, <1>9, <1>12 DEF Places
<1> HIDE DEF fin
<1>14. PICK p \in 1 .. last : IsUser(l[p]) /\ p \in 1 .. Len(e)
  <2>1. PICK p \in DOMAIN v : IsUser(v[p])
    BY DEF Usable, v
  <2>2. p \in 1 .. last /\ p \in 1 .. Len(e)
    BY <2>1, <1>3, <1>7, <1>8 DEF Finished
  <2>3. l[p].kind = v[p].kind /\ (l[p].kind = "message" => l[p].role = v[p].role)
    <3>1. "kind" \in DOMAIN l[p] /\ (l[p].kind = "message" => "role" \in DOMAIN l[p])
      <4>1. /\ row[p] \in DOMAIN rows /\ sub[p] \in 1 .. RowLen(row[p])
        BY <1>0, <1>2, <2>2, ListingFacts
      <4> DEFINE x == EventAt(row[p], sub[p])
      <4>2. x = e[p]
        BY <1>2, <2>2 DEF Listing
      <4>3. x.kind \in {"message", "tool_call", "tool_result"}
        BY <1>0, <4>1, EventFacts
      <4>4. x.kind = "message" => DOMAIN x = {"event_id", "kind", "role", "terminal"}
        BY <1>0, <4>1, EventShape
      <4>5. x.kind = "tool_call" => DOMAIN x = {"event_id", "kind", "tool_name", "arguments",
                                             "synthetic", "tool_call_id"}
        BY <1>0, <4>1, EventShape
      <4>6. x.kind = "tool_result" => DOMAIN x = {"event_id", "kind", "status", "tool_call_id"}
        BY <1>0, <4>1, EventShape
      <4> HIDE DEF x
      <4>7. DOMAIN l[p] = DOMAIN x /\ l[p].kind = x.kind
        <5>1. l[p].kind = e[p].kind
          BY <2>2, <1>0, <1>2, <1>3, LinkedKinds
        <5>2. DOMAIN l[p] = DOMAIN e[p]
          BY <2>2, <1>3 DEF Linked
        <5> QED BY <5>1, <5>2, <4>2
      <4> QED BY <4>3, <4>4, <4>5, <4>6, <4>7
    <3> QED BY <3>1, <2>2, <1>7 DEF Finished
  <2>4. IsUser(l[p])
    BY <2>1, <2>3 DEF IsUser
  <2> QED BY <2>2, <2>4
<1> DEFINE u == row[p]
<1>15. u \in lo .. hi /\ u \in DOMAIN rows /\ rows[u].kind = "user" /\ u <= fin
  <2>1. rows[u].kind = "user"
    BY <1>0, <1>2, <1>3, <1>14, LinkedKinds
  <2>2. p < last => row[p] < row[last] \/ row[p] = row[last]
    BY <1>2, <1>8, <1>14 DEF Listing
  <2>3. row[p] <= row[last]
    BY <2>2, <1>3, <1>8, <1>9, <1>14
  <2> QED BY <2>1, <2>3, <1>9, <1>14 DEF fin
<1> HIDE DEF u
<1>16. \A i, j \in DOMAIN rows : i <= j => rows[i].turn <= rows[j].turn
  BY <1>0 DEF TableInv, RowsSorted
<1>17. rows[u].turn = t
  BY <1>0, <1>10, <1>11, <1>13, <1>15, <1>16
<1>18. \A i \in DOMAIN rows : rows[i].turn = t => ~(i < u) /\ ~(fin < i)
  BY <1>13, <1>15, <1>17 DEF TableInv, TurnsShaped, InTurn
<1>19. lo = u
  <2>0. lo \in DOMAIN rows /\ lo <= u /\ lo \in S /\ u \in S /\ u \in Nat
    BY <1>0, <1>10, <1>11, <1>15, <1>2
  <2>1. CASE lo = r.user
    <3>1. rows[lo].turn = t
      BY <2>0, <2>1, <1>0 DEF Places, Unknown
    <3> QED BY <3>1, <2>0, <1>11, <1>18
  <2>2. CASE \A w \in S : rows[w].kind = "user" => w <= lo
    BY <2>0, <2>2, <1>11, <1>15
  <2>3. CASE \A i \in S : lo <= i
    <3>1. rows[lo].turn = t
      BY <2>0, <1>0, <1>10, <1>15, <1>16, <1>17
    <3> QED BY <3>1, <2>0, <1>11, <1>18
  <2> QED BY <2>1, <2>2, <2>3, <1>2
<1>20. ASSUME NEW i \in DOMAIN rows PROVE rows[i].turn = t <=> i \in lo .. fin
  <2>1. i \in lo .. fin => rows[i].turn = t
    BY <1>0, <1>13, <1>15, <1>16, <1>17, <1>19
  <2>2. rows[i].turn = t => i \in lo .. fin
    BY <1>0, <1>13, <1>15, <1>18, <1>19
  <2> QED BY <2>1, <2>2
<1>21. lo \in Places(t, "user")
  BY <1>15, <1>17, <1>19 DEF Places
<1>22. \A i \in lo .. hi : rows[i].kind # "user" => rows[i].turn = t
  BY <1>10, <1>11
<1>23. WholeRound(t, e, row, sub, lo, hi, last)
  BY <1>2, <1>3, <1>7, <1>8, <1>12, <1>20, <1>21, <1>22 DEF WholeRound, fin, v, l
<1> QED BY <1>23

-----------------------------------------------------------------------------
\* The p-th event of a recovered round.
LEMMA EventDomains ==
  ASSUME RowsShaped, NEW i \in DOMAIN rows, NEW k \in 1 .. RowLen(i), NEW x, x = EventAt(i, k)
  PROVE  /\ x.kind \in {"message", "tool_call", "tool_result"}
         /\ x.kind = "message" => DOMAIN x = {"event_id", "kind", "role", "terminal"}
         /\ x.kind = "tool_call" => DOMAIN x = {"event_id", "kind", "tool_name", "arguments",
                                              "synthetic", "tool_call_id"}
         /\ x.kind = "tool_result" => DOMAIN x = {"event_id", "kind", "status", "tool_call_id"}
<1>1. x.kind \in {"message", "tool_call", "tool_result"}
  BY EventFacts
<1>2. x.kind = "message" => DOMAIN x = {"event_id", "kind", "role", "terminal"}
  BY EventShape
<1>3. x.kind = "tool_call" => DOMAIN x = {"event_id", "kind", "tool_name", "arguments",
                                         "synthetic", "tool_call_id"}
  BY EventShape
<1>4. x.kind = "tool_result" => DOMAIN x = {"event_id", "kind", "status", "tool_call_id"}
  BY EventShape
<1> QED BY <1>1, <1>2, <1>3, <1>4

LEMMA WholeEvents ==
  ASSUME TableInv, NEW t \in Turns, NEW e, NEW row, NEW sub, NEW lo, NEW hi, NEW last,
         WholeRound(t, e, row, sub, lo, hi, last), NEW p \in 1 .. last
  PROVE  LET v == Recovered(t) IN
         /\ p \in 1 .. Len(e) /\ p \in DOMAIN v
         /\ v[p].kind = e[p].kind /\ v[p].event_id = e[p].event_id
         /\ v[p].kind \in {"message", "tool_call", "tool_result"}
         /\ v[p].event_id[1] = row[p] /\ v[p].final = (p = last)
         /\ v[p].kind = "message" =>
              v[p].role = e[p].role /\ DOMAIN v[p] = {"event_id", "kind", "role", "final"}
         /\ v[p].kind = "tool_call" =>
              DOMAIN v[p] = {"event_id", "kind", "tool_name", "arguments", "tool_call_id", "final"}
         /\ v[p].kind = "tool_result" =>
              DOMAIN v[p] = {"event_id", "kind", "status", "tool_call_id", "final"}
         /\ v[p].kind # "message" => v[p].tool_call_id = LinkOf(e, p)
<1> DEFINE v == Recovered(t)
           l == Link(e)
           x == e[p]
           y == l[p]
           z == v[p]
<1>0. RowsShaped /\ Listing(e, row, sub, lo, hi) /\ Linked(l, e) /\ Finished(v, l, last)
      /\ last \in 1 .. Len(e)
  BY DEF TableInv, WholeRound
<1>1. p \in 1 .. Len(e) /\ DOMAIN e = 1 .. Len(e) /\ p \in DOMAIN v
  <2>1. DOMAIN e = 1 .. Len(e) /\ Len(e) \in Nat
    BY <1>0, ListingFacts
  <2> QED BY <2>1, <1>0 DEF Finished
<1>2. /\ x.kind \in {"message", "tool_call", "tool_result"}
      /\ x.kind = "message" => DOMAIN x = {"event_id", "kind", "role", "terminal"}
      /\ x.kind = "tool_call" => DOMAIN x = {"event_id", "kind", "tool_name", "arguments",
                                           "synthetic", "tool_call_id"}
      /\ x.kind = "tool_result" => DOMAIN x = {"event_id", "kind", "status", "tool_call_id"}
  <2>1. row[p] \in DOMAIN rows /\ sub[p] \in 1 .. RowLen(row[p])
    BY <1>0, <1>1, ListingFacts
  <2>2. x = EventAt(row[p], sub[p])
    BY <1>0, <1>1 DEF Listing
  <2> HIDE DEF x
  <2> QED BY <2>1, <2>2, <1>0, EventDomains
<1>3. /\ x.kind = "message" => y = x
      /\ DOMAIN y = DOMAIN x
      /\ \A f \in DOMAIN x \ {"tool_call_id"} : y[f] = x[f]
  BY <1>0, <1>1 DEF Linked
<1>4. x.kind # "message" => y.tool_call_id = LinkOf(e, p)
  BY <1>0, <1>1, LinkedFacts
<1>5. /\ DOMAIN z = (DOMAIN y \ {"terminal", "synthetic"}) \cup {"final"}
      /\ \A f \in DOMAIN y \ {"terminal", "synthetic", "final"} : z[f] = y[f]
      /\ z.final = (p = last)
  BY <1>0 DEF Finished
<1>6. y.event_id[1] = row[p]
  BY <1>0, <1>1, LinkedKinds
<1> HIDE DEF x, y, z, v, l
<1>7. z.kind = x.kind /\ z.event_id = x.event_id /\ z.event_id = y.event_id
  BY <1>2, <1>3, <1>5
<1>8. /\ z.kind = "message" =>
           z.role = x.role /\ DOMAIN z = {"event_id", "kind", "role", "final"}
      /\ z.kind = "tool_call" =>
           DOMAIN z = {"event_id", "kind", "tool_name", "arguments", "tool_call_id", "final"}
      /\ z.kind = "tool_result" =>
           DOMAIN z = {"event_id", "kind", "status", "tool_call_id", "final"}
  BY <1>2, <1>3, <1>5, <1>7
<1>9. z.kind # "message" => z.tool_call_id = LinkOf(e, p)
  BY <1>2, <1>3, <1>4, <1>5, <1>7
<1> QED BY <1>1, <1>2, <1>5, <1>6, <1>7, <1>8, <1>9 DEF z, v, x

LEMMA OneRound == TableInv => ExactlyOneRound
<1> SUFFICES ASSUME TableInv, NEW t \in Turns, Closed(t), Usable(Recovered(t))
             PROVE  RowsOf(Recovered(t)) = {i \in DOMAIN rows : rows[i].turn = t}
  BY DEF ExactlyOneRound
<1> DEFINE v == Recovered(t)
<1>1. PICK e, row, sub, lo, hi, last : WholeRound(t, e, row, sub, lo, hi, last)
  BY RecoveredWhole
<1>2. RowsShaped /\ Listing(e, row, sub, lo, hi) /\ last \in 1 .. Len(e) /\ sub[last] = 1
      /\ DOMAIN v = 1 .. last
      /\ \A i \in DOMAIN rows : rows[i].turn = t <=> i \in lo .. row[last]
  BY <1>1 DEF TableInv, WholeRound, Finished
<1>3. /\ Len(e) \in Nat /\ lo \in Nat /\ hi \in Nat
      /\ \A i \in lo .. hi : i \in DOMAIN rows
      /\ \A p \in 1 .. Len(e) : row[p] \in lo .. hi /\ row[p] \in Nat /\ sub[p] \in Nat
  BY <1>2, ListingFacts
<1>4. \A i \in lo .. hi : \E p \in 1 .. Len(e) : row[p] = i /\ sub[p] = 1
  BY <1>2, ListingFacts
<1>5. \A p, q \in 1 .. Len(e) : p < q => row[p] < row[q] \/ (row[p] = row[q] /\ sub[p] < sub[q])
  BY <1>2 DEF Listing
<1>6. \A p \in 1 .. last : v[p].event_id[1] = row[p]
  BY <1>1, WholeEvents
<1>7. RowsOf(v) = {row[p] : p \in 1 .. last}
  BY <1>2, <1>6 DEF RowsOf
<1> HIDE DEF v
<1>8. ASSUME NEW p \in 1 .. last PROVE row[p] \in lo .. row[last] /\ row[p] \in DOMAIN rows
  <2>1. p \in 1 .. Len(e) /\ (p = last \/ p < last)
    BY <1>2, <1>3
  <2>2. row[p] <= row[last]
    BY <2>1, <1>2, <1>3, <1>5
  <2> QED BY <2>1, <2>2, <1>2, <1>3
<1>9. ASSUME NEW i \in lo .. row[last] PROVE \E p \in 1 .. last : row[p] = i
  <2>1. i \in lo .. hi
    BY <1>2, <1>3
  <2>2. PICK p \in 1 .. Len(e) : row[p] = i /\ sub[p] = 1
    BY <2>1, <1>4
  <2>3. ~(last < p)
    <3> SUFFICES ASSUME last < p PROVE FALSE
      OBVIOUS
    <3>1. row[last] < row[p] \/ (row[last] = row[p] /\ sub[last] < sub[p])
      BY <2>2, <1>2, <1>5
    <3>2. sub[last] = 1 /\ sub[p] = 1 /\ row[p] <= row[last]
      BY <2>2, <1>2
    <3>3. row[last] \in Nat /\ row[p] \in Nat
      BY <2>2, <1>2, <1>3
    <3> QED BY <3>1, <3>2, <3>3
  <2> QED BY <2>2, <2>3, <1>2, <1>3
<1>10. \A i : i \in RowsOf(v) => i \in {j \in DOMAIN rows : rows[j].turn = t}
  BY <1>2, <1>7, <1>8
<1>11. \A i \in {j \in DOMAIN rows : rows[j].turn = t} : i \in RowsOf(v)
  BY <1>2, <1>7, <1>9
<1> QED BY <1>10, <1>11 DEF v

LEMMA Known == TableInv => KnownSuffices
<1> SUFFICES ASSUME TableInv, NEW t \in Turns, WindowHolds(t), round[t].user # Unknown
             PROVE  Usable(Recovered(t))
  BY DEF KnownSuffices
<1> DEFINE S == Selected(round[t])
           user == round[t].user
           v == Recovered(t)
<1>0. RowsShaped /\ Closed(t) /\ user \in Places(t, "user")
      /\ DOMAIN rows = 1 .. Len(rows) /\ Len(rows) \in Nat
  BY RowFacts DEF WindowHolds, TableInv, RoundsShaped
<1>1. PICK fin : fin \in Places(t, "final")
  BY DEF WindowHolds, Stored
<1>2. /\ user \in S /\ rows[user].kind = "user" /\ rows[user].turn = t /\ user \in DOMAIN rows
      /\ fin \in S /\ rows[fin].kind = "final" /\ rows[fin].turn = t /\ fin \in DOMAIN rows
  BY <1>0, <1>1 DEF WindowHolds, Places
<1>3. user < fin
  <2>1. ~(fin < user) /\ fin # user
    BY <1>2 DEF TableInv, TurnsShaped, InTurn
  <2> QED BY <2>1, <1>0, <1>2
<1>4. Fetched(round[t]) # <<>>
  <2>1. PICK a \in Nat, hi \in Nat : 1 <= a /\ hi <= Len(rows) /\ a <= hi + 1 /\ S = a .. hi
    BY SelectedInterval
  <2> DEFINE f == Fetched(round[t])
  <2>2. PICK r, b : Listing(f, r, b, a, hi)
    BY <2>1, <1>0, FetchedListing
  <2>3. user \in a .. hi
    BY <2>1, <1>2
  <2> HIDE DEF f, S, user, v
  <2>4. \E p \in 1 .. Len(f) : r[p] = user
    <3>1. 1 \in 1 .. RowLen(user)
      BY <1>0, <1>2, CallsShape
    <3> QED BY <3>1, <2>2, <2>3 DEF Listing
  <2>5. f # <<>>
    BY <2>4
  <2> QED BY <2>5 DEF f
<1>5. PICK e, row, sub, lo, hi :
           /\ Listing(e, row, sub, lo, hi) /\ lo \in lo .. hi
           /\ v = Finish(Link(e), round[t].final)
           /\ {i \in S : i >= lo} = lo .. hi
           /\ user \in S /\ rows[user].kind = "user" => lo = user
  BY <1>0, <1>4, Begun
<1> DEFINE l == Link(e)
<1>6. lo = user /\ fin \in lo .. hi
  BY <1>0, <1>2, <1>3, <1>5
<1>7. /\ Linked(l, e) /\ DOMAIN e = 1 .. Len(e) /\ Len(e) \in Nat
      /\ \A i \in lo .. hi : \E p \in 1 .. Len(e) : row[p] = i /\ sub[p] = 1
      /\ \A p \in 1 .. Len(e) : row[p] \in lo .. hi /\ row[p] \in DOMAIN rows /\ sub[p] \in Nat
  <2>1. Linked(l, e)
    BY <1>0, <1>5, LinkedFacts
  <2>2. /\ DOMAIN e = 1 .. Len(e) /\ Len(e) \in Nat
        /\ \A p \in 1 .. Len(e) : row[p] \in lo .. hi /\ row[p] \in DOMAIN rows /\ sub[p] \in Nat
    BY <1>0, <1>5, ListingFacts
  <2>3. \A i \in lo .. hi : \E p \in 1 .. Len(e) : row[p] = i /\ sub[p] = 1
    BY <1>0, <1>5, ListingFacts
  <2> QED BY <2>1, <2>2, <2>3
<1> HIDE DEF S, v, user
<1>8. FinalIndices(l, round[t].final) # {}
  <2>1. PICK p \in 1 .. Len(e) : row[p] = fin
    BY <1>6, <1>7
  <2>2. rows[row[p]].kind = "final"
    BY <2>1, <1>2
  <2>3. Linked(l, e) /\ RowsShaped /\ Listing(e, row, sub, lo, hi)
    BY <1>0, <1>5, <1>7
  <2> HIDE DEF l
  <2> QED BY <2>2, <2>3, FinalPlaces
<1>9. PICK last : /\ last \in FinalIndices(l, round[t].final) /\ last \in 1 .. Len(l)
                  /\ Finished(v, l, last)
  <2>1. PICK X : l \in Seq(X)
    BY <1>7 DEF Linked
  <2> HIDE DEF l
  <2>2. \E k \in FinalIndices(l, round[t].final) : k \in 1 .. Len(l)
          /\ Finished(Finish(l, round[t].final), l, k)
    BY <2>1, <1>8, FinishedFacts
  <2> QED BY <2>2, <1>5 DEF l
<1>10. Len(l) = Len(e) /\ last \in 1 .. Len(e) /\ 1 \in 1 .. last /\ last \in 1 .. last
       /\ 1 \in 1 .. Len(e)
  BY <1>7, <1>9 DEF Linked
<1>11. v[last].final /\ DOMAIN v = 1 .. last
  BY <1>9, <1>10 DEF Finished
<1>12. IsUser(v[1])
  <2>1. row[1] = lo /\ sub[1] = 1
    <3>1. e # <<>>
      BY <1>10
    <3> QED BY <3>1, <1>0, <1>5, ListingFacts
  <2>2. IsUser(l[1])
    <3>1. rows[row[1]].kind = "user"
      BY <2>1, <1>2, <1>6
    <3> HIDE DEF l
    <3> QED BY <3>1, <1>0, <1>5, <1>7, <1>10, LinkedKinds
  <2>3. "kind" \in DOMAIN l[1] /\ "role" \in DOMAIN l[1]
    <3>1. row[1] \in DOMAIN rows /\ sub[1] \in 1 .. RowLen(row[1]) /\ e[1] = EventAt(row[1], sub[1])
      <4>1. sub[1] \in 1 .. RowLen(row[1]) /\ e[1] = EventAt(row[1], sub[1])
        BY <1>5, <1>10 DEF Listing
      <4>2. row[1] \in DOMAIN rows
        <5>1. \A p \in 1 .. Len(e) : row[p] \in DOMAIN rows
          BY <1>7
        <5> QED BY <5>1, <1>10
      <4> QED BY <4>1, <4>2
    <3>2. e[1].kind = "message" => DOMAIN e[1] = {"event_id", "kind", "role", "terminal"}
      BY <3>1, <1>0, EventDomains
    <3>3. l[1].kind = e[1].kind
      <4> HIDE DEF l
      <4> QED BY <1>0, <1>5, <1>7, <1>10, LinkedKinds
    <3>4. DOMAIN l[1] = DOMAIN e[1]
      BY <1>7, <1>10 DEF Linked
    <3> QED BY <2>2, <3>2, <3>3, <3>4 DEF IsUser
  <2>4. v[1].kind = l[1].kind /\ v[1].role = l[1].role
    BY <2>3, <1>9, <1>10 DEF Finished
  <2> QED BY <2>2, <2>4 DEF IsUser
<1>13. Usable(v)
  BY <1>10, <1>11, <1>12 DEF Usable
<1> QED BY <1>13 DEF v

-----------------------------------------------------------------------------
(* The reader as a function of the rows and the round. *)

SelectedIn(rs, r) ==
  {i \in DOMAIN rs :
     /\ IF r.user # Unknown THEN i >= r.user ELSE rs[i].time >= r.started
     /\ IF r.final # Unknown THEN i <= r.final ELSE rs[i].time <= r.completed}

CallIn(rs, i, k) ==
  [event_id |-> <<i, k>>, kind |-> "tool_call", tool_name |-> "tool",
   arguments |-> "{}", synthetic |-> ~rs[i].calls[k],
   tool_call_id |-> IF rs[i].calls[k] THEN <<"call", i, k>> ELSE <<"row call", i, k>>]

ResultIn(rs, i) ==
  [event_id |-> <<i>>, kind |-> "tool_result", status |-> "success",
   tool_call_id |-> IF rs[rs[i].of[1]].calls[rs[i].of[2]]
                      THEN <<"call", rs[i].of[1], rs[i].of[2]>> ELSE <<"row", i, 0>>]

EventsIn(rs, i) ==
  CASE rs[i].kind = "result" -> <<ResultIn(rs, i)>>
    [] rs[i].kind = "calls"  ->
         <<MessageEvent(i, "assistant", FALSE)>>
         \o [k \in DOMAIN rs[i].calls |-> CallIn(rs, i, k)]
    [] rs[i].kind = "user"   -> <<MessageEvent(i, "user", FALSE)>>
    [] OTHER                 -> <<MessageEvent(i, "assistant", TRUE)>>

FetchedIn(rs, r) ==
  LET ids == Ascending(SelectedIn(rs, r))
  IN  FlattenSeq(Once([k \in DOMAIN ids |-> EventsIn(rs, ids[k])]))

RecoveredIn(rs, r) ==
  IF FetchedIn(rs, r) = <<>> THEN <<>>
  ELSE Finish(Link(Trim(FetchedIn(rs, r), r.user)), r.final)

LEMMA ReaderIs ==
  ASSUME NEW t
  PROVE  /\ Recovered(t) = RecoveredIn(rows, round[t])
         /\ Recovered(t)' = RecoveredIn(rows', round'[t])
<1>1. Recovered(t) = RecoveredIn(rows, round[t])
  BY DEF Recovered, Selected, RowEvents, CallEvent, ResultEvent, RecoveredIn, FetchedIn,
         EventsIn, CallIn, ResultIn, SelectedIn
<1>2. Recovered(t)' = RecoveredIn(rows', round'[t])
  BY DEF Recovered, Selected, RowEvents, CallEvent, ResultEvent, RecoveredIn, FetchedIn,
         EventsIn, CallIn, ResultIn, SelectedIn
<1> QED BY <1>1, <1>2

\* A row stored later is not in the window of a closed round, and the rows
\* there are stay what they were.
LEMMA Undisturbed ==
  ASSUME TableInv, NEW t \in Turns, Closed(t), NEW x, x.time = clock,
         NEW rs, rs = Append(rows, x)
  PROVE  RecoveredIn(rs, round[t]) = RecoveredIn(rows, round[t])
<1> DEFINE r == round[t]
           N == Len(rows) + 1
<1>0. /\ RowsShaped /\ r.started \in Nat /\ r.completed \in Nat /\ r.user \in Nat
      /\ r.final \in Places(t, "final") \cup {Unknown} /\ clock \in Nat
      /\ r.completed < clock
  BY DEF TableInv, RoundsShaped, RowsShaped, Closes
<1>1. /\ Len(rows) \in Nat /\ DOMAIN rows = 1 .. Len(rows) /\ DOMAIN rs = 1 .. N
      /\ \A i \in DOMAIN rows : rs[i] = rows[i] /\ i \in DOMAIN rs
      /\ rs[N] = x
      /\ \A i \in DOMAIN rs : i \in DOMAIN rows \/ i = N
  BY <1>0 DEF RowsShaped
<1>2. N \notin SelectedIn(rs, r)
  <2> SUFFICES ASSUME N \in SelectedIn(rs, r) PROVE FALSE
    OBVIOUS
  <2>1. IF r.final # Unknown THEN N <= r.final ELSE rs[N].time <= r.completed
    BY DEF SelectedIn
  <2>2. CASE r.final # Unknown
    <3>1. r.final \in 1 .. Len(rows)
      BY <2>2, <1>0, <1>1 DEF Places
    <3> QED BY <2>1, <2>2, <3>1, <1>1
  <2>3. CASE r.final = Unknown
    BY <2>1, <2>3, <1>0, <1>1
  <2> QED BY <2>2, <2>3
<1> HIDE DEF r, N
<1>3. SelectedIn(rs, r) = SelectedIn(rows, r)
  <2>1. \A i : i \in SelectedIn(rs, r) <=> i \in SelectedIn(rows, r)
    BY <1>1, <1>2 DEF SelectedIn
  <2> QED BY <2>1
<1>4. ASSUME NEW i \in DOMAIN rows PROVE EventsIn(rs, i) = EventsIn(rows, i)
  <2>1. rs[i] = rows[i]
    BY <1>1
  <2>2. rows[i].kind = "result" => rs[rows[i].of[1]] = rows[rows[i].of[1]]
    <3> SUFFICES ASSUME rows[i].kind = "result"
                 PROVE  rows[i].of[1] \in DOMAIN rows
      BY <1>1
    <3>1. rows[i].of[1] \in 1 .. i - 1
      BY DEF TableInv, ResultsOf, IsResult
    <3> QED BY <3>1, <1>1
  <2>3. CASE rows[i].kind = "result"
    BY <2>1, <2>2, <2>3 DEF EventsIn, ResultIn
  <2>4. CASE rows[i].kind = "calls"
    BY <2>1, <2>4 DEF EventsIn, CallIn
  <2>5. CASE rows[i].kind \notin {"result", "calls"}
    BY <2>1, <2>5 DEF EventsIn
  <2> QED BY <2>3, <2>4, <2>5
<1>5. FetchedIn(rs, r) = FetchedIn(rows, r)
  <2> DEFINE ids == Ascending(SelectedIn(rows, r))
  <2>1. \A k \in DOMAIN ids : ids[k] \in DOMAIN rows
    <3>1. SelectedIn(rows, r) = Selected(round[t])
      BY DEF SelectedIn, Selected, r
    <3>2. PICK lo \in Nat, hi \in Nat :
             1 <= lo /\ hi <= Len(rows) /\ lo <= hi + 1 /\ SelectedIn(rows, r) = lo .. hi
      BY <3>1, SelectedInterval
    <3>3. /\ ids = [k \in 1 .. hi - lo + 1 |-> lo + k - 1]
          /\ DOMAIN ids = 1 .. hi - lo + 1
      BY <3>2, AscendingInterval
    <3> HIDE DEF ids
    <3> QED BY <3>2, <3>3, <1>1
  <2> HIDE DEF ids
  <2>2. [k \in DOMAIN ids |-> EventsIn(rs, ids[k])] = [k \in DOMAIN ids |-> EventsIn(rows, ids[k])]
    BY <2>1, <1>4
  <2>3. FetchedIn(rs, r) = FlattenSeq(Once([k \in DOMAIN ids |-> EventsIn(rs, ids[k])]))
    BY <1>3 DEF FetchedIn, ids
  <2>4. FetchedIn(rows, r) = FlattenSeq(Once([k \in DOMAIN ids |-> EventsIn(rows, ids[k])]))
    BY DEF FetchedIn, ids
  <2> QED BY <2>2, <2>3, <2>4
<1> QED BY <1>5 DEF RecoveredIn, r

\* A closed round is left alone.
LEMMA RoundsStay ==
  ASSUME TableInv, [TableNext]_tableVars, NEW t \in Turns, Closed(t)
  PROVE  /\ round'[t] = round[t]
         /\ rows' = rows \/ \E x : x.time = clock /\ rows' = Append(rows, x)
<1> DEFINE Stays == /\ round'[t] = round[t]
                    /\ rows' = rows \/ \E x : x.time = clock /\ rows' = Append(rows, x)
<1>1. ASSUME NEW kind, NEW calls, NEW of, Store(kind, calls, of), round' = round PROVE Stays
  <2> DEFINE x == [turn |-> turn, kind |-> kind, time |-> clock, calls |-> calls, of |-> of]
  <2>1. rows' = Append(rows, x) /\ x.time = clock
    BY <1>1 DEF Store
  <2> HIDE DEF x
  <2> QED BY <2>1, <1>1
<1>2. CASE NewTurn
  BY <1>2 DEF NewTurn
<1>3. CASE StoreUser
  BY <1>1, <1>3 DEF StoreUser
<1>4. CASE StoreCalls
  BY <1>1, <1>4 DEF StoreCalls
<1>5. CASE StoreResult
  BY <1>1, <1>5 DEF StoreResult
<1>6. CASE StoreFinal
  BY <1>1, <1>6 DEF StoreFinal
<1>7. CASE Pre
  <2>1. PICK id : round' = [u \in Turns |->
         CASE u = turn -> [round[u] EXCEPT !.started = clock, !.user = id]
           [] round[u].started # Unknown /\ ~Closed(u) -> ClosedNow(round[u])
           [] OTHER -> round[u]]
    BY <1>7 DEF Pre
  <2>2. round[turn].started = Unknown /\ rows' = rows
    BY <1>7 DEF Pre
  <2>3. round[t].started # Unknown
    BY DEF TableInv, Closes
  <2>4. round'[t] = round[t]
    BY <2>1, <2>2, <2>3
  <2> QED BY <2>2, <2>4
<1>8. CASE Post
  <2>1. PICK user, ended : round' = [round EXCEPT ![turn].completed = clock,
                                                  ![turn].user = Kept(@, user),
                                                  ![turn].final = Kept(@, ended)]
    BY <1>8 DEF Post
  <2>2. t # turn /\ rows' = rows
    BY <1>8 DEF Post
  <2>3. round'[t] = round[t]
    BY <2>1, <2>2 DEF TableInv, RoundsShaped
  <2> QED BY <2>2, <2>3
<1>9. CASE UNCHANGED tableVars
  BY <1>9 DEF tableVars
<1>10. ASSUME NEW u \in Turns, Read(u) PROVE Stays
  BY <1>10 DEF Read
<1> QED BY <1>2, <1>3, <1>4, <1>5, <1>6, <1>7, <1>8, <1>9, <1>10 DEF TableNext

LEMMA ReadsKept == TableInv /\ Reads /\ [TableNext]_tableVars => Reads'
<1> SUFFICES ASSUME TableInv, Reads, [TableNext]_tableVars PROVE Reads'
  OBVIOUS
<1>1. ASSUME NEW t \in Turns, Closed(t) PROVE Closed(t)' /\ Recovered(t)' = Recovered(t)
  <2>1. /\ round'[t] = round[t]
        /\ rows' = rows \/ \E x : x.time = clock /\ rows' = Append(rows, x)
    BY <1>1, RoundsStay
  <2>2. RecoveredIn(rows', round[t]) = RecoveredIn(rows, round[t])
    <3>1. CASE rows' = rows
      BY <3>1
    <3>2. ASSUME NEW x, x.time = clock, rows' = Append(rows, x)
          PROVE  RecoveredIn(rows', round[t]) = RecoveredIn(rows, round[t])
      BY <1>1, <3>2, Undisturbed
    <3> QED BY <2>1, <3>1, <3>2
  <2>3. Recovered(t)' = Recovered(t)
    BY <2>1, <2>2, ReaderIs
  <2> QED BY <2>1, <2>3, <1>1 DEF Closed
<1>2. DOMAIN read' = Turns
  <2>1. DOMAIN read = Turns
    BY DEF Reads
  <2>2. read' = read \/ \E t \in Turns : Read(t)
    BY DEF TableNext, tableVars, NewTurn, StoreUser, Pre, StoreCalls, StoreResult, StoreFinal, Post
  <2> QED BY <2>1, <2>2 DEF Read
<1>3. ASSUME NEW t \in Turns, read'[t] # <<>> PROVE Closed(t) /\ read'[t] = Recovered(t)
  <2>1. CASE read' = read
    BY <2>1, <1>3 DEF Reads
  <2>2. ASSUME NEW u \in Turns, Read(u) PROVE Closed(t) /\ read'[t] = Recovered(t)
    <3>1. CASE u = t
      BY <2>2, <3>1 DEF Read, Reads
    <3>2. CASE u # t
      <4>1. read'[t] = read[t]
        BY <2>2, <3>2 DEF Read, Reads
      <4> QED BY <4>1, <1>3 DEF Reads
    <3> QED BY <3>1, <3>2
  <2>3. read' = read \/ \E u \in Turns : Read(u)
    BY DEF TableNext, tableVars, NewTurn, StoreUser, Pre, StoreCalls, StoreResult, StoreFinal, Post
  <2> QED BY <2>1, <2>2, <2>3
<1> QED BY <1>1, <1>2, <1>3 DEF Reads

\* Every reachable state of the message table and the bounds of rounds is well
\* typed: a bound names a message of its own turn.
THEOREM TableTypeCorrect == TableSpec => []TableTypeOK
<1>1. TableInv /\ Reads => TableTypeOK
  <2> SUFFICES ASSUME TableInv, Reads PROVE TableTypeOK
    OBVIOUS
  <2>1. \A i \in DOMAIN rows : rows[i].turn \in Turns /\ rows[i].kind \in RowKinds
    BY RowFacts DEF TableInv
  <2>2. \A i \in DOMAIN waiting : waiting[i][1] \in Places(turn, "calls")
    BY DEF TableInv, Waits, IsCall, Places
  <2>3. clock \in Nat /\ turn \in 0 .. MaxTurns
    BY DEF TableInv, RowsShaped
  <2> QED BY <2>1, <2>2, <2>3 DEF TableTypeOK, TableInv, RoundsShaped, RowKinds, Reads
<1>2. TableInit => Reads
  BY DEF TableInit, Reads
<1> QED BY <1>1, <1>2, TableInvariance, ReadsKept, PTL DEF TableSpec

\* round_events: what the worker reads of a closed round is the same whenever it
\* reads it, so that a promotion repeated after a crash hands in the same round.
THEOREM RecoveryIsStable == TableSpec => []StableRecovery
<1>1. TableInit => Reads
  BY DEF TableInit, Reads
<1>2. Reads => StableRecovery
  BY DEF Reads, StableRecovery
<1> QED BY <1>1, <1>2, TableInvariance, ReadsKept, PTL DEF TableSpec

\* _query_rows, _trim_to_round and _events_from_rows: a recovered round that has
\* an end and a user's message is all of the messages of its turn and no others,
\* also when its window reaches into turns that were interrupted.
THEOREM RoundsAreWhole == TableSpec => []ExactlyOneRound
  BY TableInvariance, OneRound, PTL

\* _query_rows and _final_assistant_index: with the id of its user's message a
\* round whose messages lie in its window is found, whatever else is there.
THEOREM KnownIsEnough == TableSpec => []KnownSuffices
  BY TableInvariance, Known, PTL

-----------------------------------------------------------------------------
(* Calls and the results that answer them. *)

InOrder(f, L)  == \A i, j \in L : i < j => f[i] < f[j]
Covers(f, L, C) == \A c \in C : \E j \in L : f[j] = c

\* Two sets of places that correspond in their order: those that correspond
\* have the same rank, and no other has it.
LEMMA SameRank ==
  ASSUME NEW n \in Nat, NEW C \in SUBSET (1 .. n), NEW L \in SUBSET (1 .. n), NEW f \in [L -> C],
         InOrder(f, L), Covers(f, L, C),
         NEW p \in L
  PROVE  \A j \in L : Rank(j, L) = Rank(f[p], C) <=> j = p
<1> DEFINE Under(j, S) == {i \in S : i < j}
           A == Under(p, L)
           B == Under(f[p], C)
           g == [j \in A |-> f[j]]
<1>0. \A i \in 1 .. n : i \in Int
  OBVIOUS
<1>d. (\A i, j \in L : i < j => f[i] < f[j]) /\ (\A c \in C : \E j \in L : f[j] = c)
  BY DEF InOrder, Covers
<1>b. \A i, j \in L : i < j \/ j < i \/ i = j
  BY <1>0
<1>c. \A j \in L : f[j] \in C /\ f[j] \in Int
  BY <1>0
<1>1. \A j \in A : j \in L /\ j < p /\ g[j] = f[j]
  OBVIOUS
<1>2. \A c : c \in B <=> c \in C /\ c < f[p]
  OBVIOUS
<1>3. \A j : j \in A <=> j \in L /\ j < p
  OBVIOUS
<1>a. g \in [A -> {f[j] : j \in A}]
  <2> HIDE DEF A
  <2> QED OBVIOUS
<1> HIDE DEF g, A, B
<1>5. \A j \in A : g[j] \in B
  BY <1>1, <1>2, <1>c, <1>d
<1>6. \A i, j \in A : g[i] = g[j] => i = j
  <2> SUFFICES ASSUME NEW i \in A, NEW j \in A, g[i] = g[j] PROVE i = j
    OBVIOUS
  <2>1. i \in L /\ j \in L /\ f[i] = f[j] /\ f[i] \in Int
    BY <1>1, <1>c
  <2>2. ~(f[i] < f[j]) /\ ~(f[j] < f[i])
    BY <2>1
  <2> QED BY <2>1, <2>2, <1>b, <1>d
<1>7. \A c \in B : \E j \in A : g[j] = c
  <2> TAKE c \in B
  <2>1. c \in C /\ c < f[p]
    BY <1>2
  <2>2. PICK j \in L : f[j] = c
    BY <2>1, <1>d
  <2>3. j # p /\ ~(p < j)
    <3>1. f[j] < f[p] /\ f[j] \in Int /\ f[p] \in Int
      BY <2>1, <2>2, <1>c
    <3>2. ~(f[p] < f[j]) /\ f[j] # f[p]
      BY <3>1
    <3> QED BY <3>2, <1>d
  <2>4. j \in A
    BY <2>2, <2>3, <1>3, <1>b, <1>d
  <2> QED BY <2>2, <2>4, <1>1
<1>8. g \in [A -> B]
  BY <1>5, <1>a
<1>9. ExistsBijection(A, B)
  <2>1. g \in Bijection(A, B)
    BY <1>6, <1>7, <1>8 DEF Bijection, Injection, Surjection, IsInjective
  <2> QED BY <2>1 DEF ExistsBijection
<1>10. \A j : IsFiniteSet(Under(j, L))
  <2>1. IsFiniteSet(1 .. n)
    BY FS_Interval
  <2>2. \A j : Under(j, L) \subseteq 1 .. n
    OBVIOUS
  <2> HIDE DEF Under
  <2> QED BY <2>1, <2>2, FS_Subset
<1>11. Cardinality(A) = Cardinality(B)
  BY <1>9, <1>10, FS_Bijection DEF A
<1>12. Rank(p, L) = Cardinality(A) /\ Rank(f[p], C) = Cardinality(B)
       /\ \A j \in L : Rank(j, L) = Cardinality(Under(j, L))
  BY DEF Rank, A, B
<1>13. ASSUME NEW j \in L, Rank(j, L) = Rank(p, L) PROVE j = p
  <2>1. Cardinality(Under(j, L)) = Cardinality(Under(p, L))
    BY <1>12, <1>13 DEF A
  <2>2. ASSUME NEW x \in L, NEW y \in L, x < y
        PROVE  Under(x, L) \subseteq Under(y, L) /\ x \in Under(y, L) /\ x \notin Under(x, L)
    <3>1. x \in Int /\ y \in Int /\ \A i \in L : i \in Int
      BY <1>0
    <3>2. \A i \in L : i < x => i < y
      BY <3>1, <2>2
    <3>3. ~(x < x)
      BY <3>1
    <3> QED BY <3>2, <3>3, <2>2
  <2>3. j \in Int /\ p \in Int
    BY <1>0
  <2> HIDE DEF Under
  <2>4. ~(j < p)
    <3> SUFFICES ASSUME j < p PROVE FALSE
      OBVIOUS
    <3>1. Under(j, L) \in SUBSET Under(p, L) /\ Under(p, L) # Under(j, L)
      BY <2>2
    <3> QED BY <3>1, <2>1, <1>10, FS_Subset
  <2>5. ~(p < j)
    <3> SUFFICES ASSUME p < j PROVE FALSE
      OBVIOUS
    <3>1. Under(p, L) \in SUBSET Under(j, L) /\ Under(p, L) # Under(j, L)
      BY <2>2
    <3> QED BY <3>1, <2>1, <1>10, FS_Subset
  <2> QED BY <2>3, <2>4, <2>5
<1> QED BY <1>11, <1>12, <1>13

-----------------------------------------------------------------------------
(* Who answers whom: a call without an id is linked to its own result. *)

HasId(i, k) == rows[i].calls[k]

\* What a call and a result of the listing are.
LEMMA CallAt ==
  ASSUME RowsShaped, NEW e, NEW row, NEW sub, NEW lo, NEW hi, Listing(e, row, sub, lo, hi),
         NEW p \in 1 .. Len(e), e[p].kind = "tool_call"
  PROVE  /\ row[p] \in lo .. hi /\ row[p] \in DOMAIN rows /\ sub[p] - 1 \in Nat
         /\ rows[row[p]].kind = "calls" /\ sub[p] # 1 /\ IsCall(row[p], sub[p] - 1)
         /\ e[p].event_id = <<row[p], sub[p] - 1>>
         /\ e[p].synthetic <=> ~HasId(row[p], sub[p] - 1)
         /\ HasId(row[p], sub[p] - 1) => e[p].tool_call_id = <<"call", row[p], sub[p] - 1>>
<1> DEFINE i == row[p]
           k == sub[p]
<1>1. i \in lo .. hi /\ i \in DOMAIN rows /\ k \in 1 .. RowLen(i) /\ k \in Nat
  BY ListingFacts
<1>2. e[p] = EventAt(i, k)
  BY DEF Listing
<1> HIDE DEF i, k
<1> DEFINE x == EventAt(i, k)
<1>3. x.kind = "tool_call"
  BY <1>2
<1>4. rows[i].kind = "calls" /\ k # 1
  BY <1>1, <1>3, EventFacts
<1>5. /\ x.synthetic = ~rows[i].calls[k - 1] /\ x.event_id = <<i, k - 1>>
      /\ x.tool_call_id = IF rows[i].calls[k - 1] THEN <<"call", i, k - 1>>
                          ELSE <<"row call", i, k - 1>>
  BY <1>1, <1>3, EventShape
<1>6. k - 1 \in Nat /\ k - 1 \in DOMAIN rows[i].calls
  <2>1. RowLen(i) = 1 + Len(rows[i].calls)
    BY <1>4 DEF RowLen
  <2>2. Len(rows[i].calls) \in Nat /\ DOMAIN rows[i].calls = 1 .. Len(rows[i].calls)
    BY <1>1, CallsShape
  <2> QED BY <2>1, <2>2, <1>1, <1>4
<1> HIDE DEF x
<1>7. e[p] = x
  BY <1>2 DEF x
<1> QED BY <1>1, <1>4, <1>5, <1>6, <1>7 DEF i, k, IsCall, HasId

LEMMA ResultAt ==
  ASSUME RowsShaped, NEW e, NEW row, NEW sub, NEW lo, NEW hi, Listing(e, row, sub, lo, hi),
         NEW p \in 1 .. Len(e), e[p].kind = "tool_result"
  PROVE  /\ row[p] \in lo .. hi /\ row[p] \in DOMAIN rows /\ sub[p] = 1
         /\ rows[row[p]].kind = "result" /\ rows[row[p]].of \in Pairs
         /\ LET of == rows[row[p]].of IN
            /\ HasId(of[1], of[2]) => e[p].tool_call_id = <<"call", of[1], of[2]>>
            /\ ~HasId(of[1], of[2]) => e[p].tool_call_id = <<"row", row[p], 0>>
<1> DEFINE i == row[p]
           k == sub[p]
<1>1. i \in lo .. hi /\ i \in DOMAIN rows /\ k \in 1 .. RowLen(i) /\ k \in Nat
      /\ (rows[i].kind # "calls" => k = 1)
  BY ListingFacts
<1>2. e[p] = EventAt(i, k)
  BY DEF Listing
<1> HIDE DEF i, k
<1> DEFINE x == EventAt(i, k)
<1>3. x.kind = "tool_result"
  BY <1>2
<1>4. rows[i].kind = "result"
  BY <1>1, <1>3, EventFacts
<1>5. x.tool_call_id = ResultEvent(i).tool_call_id
  BY <1>1, <1>3, EventShape
<1> DEFINE of == rows[i].of
<1>6. ResultEvent(i).tool_call_id = IF rows[of[1]].calls[of[2]] THEN <<"call", of[1], of[2]>>
                                    ELSE <<"row", i, 0>>
  BY DEF ResultEvent
<1>7. of \in Pairs
  BY <1>1, <1>4 DEF RowsShaped
<1> HIDE DEF x
<1>8. e[p] = x
  BY <1>2 DEF x
<1> QED BY <1>1, <1>4, <1>5, <1>6, <1>7, <1>8 DEF i, k, HasId

LEMMA Ids ==
  /\ \A a, b, c, d : <<"call", a, b>> # <<"row", c, d>>
  /\ \A a, b, c, d : <<"call", a, b>> = <<"call", c, d>> => a = c /\ b = d
  /\ \A a, b, c, d : <<"row", a, b>> = <<"row", c, d>> => a = c
<1>1. \A a, b, c, d : <<"call", a, b>> # <<"row", c, d>>
  <2> TAKE a, b, c, d
  <2>1. <<"call", a, b>>[1] = "call" /\ <<"row", c, d>>[1] = "row"
    OBVIOUS
  <2> QED BY <2>1
<1>2. \A a, b, c, d : <<"call", a, b>> = <<"call", c, d>> => a = c /\ b = d
  OBVIOUS
<1>3. \A a, b, c, d : <<"row", a, b>> = <<"row", c, d>> => a = c
  OBVIOUS
<1> QED BY <1>1, <1>2, <1>3

\* p is the result of the call q.
Answering(e, row, sub, p, q) ==
  /\ e[p].kind = "tool_result" /\ e[q].kind = "tool_call"
  /\ rows[row[p]].of = <<row[q], sub[q] - 1>>

\* The events of a turn: where a call is, where its result is.
LEMMA Pairing ==
  ASSUME TableInv, NEW t \in Turns, NEW e, NEW row, NEW sub, NEW lo, NEW hi, NEW last,
         WholeRound(t, e, row, sub, lo, hi, last)
  PROVE  /\ \A p \in 1 .. Len(e) : e[p].kind = "tool_result" =>
              \E q \in 1 .. Len(e) : Answering(e, row, sub, p, q) /\ q < p
         /\ \A q \in 1 .. Len(e) : e[q].kind = "tool_call" =>
              \E p \in 1 .. Len(e) : Answering(e, row, sub, p, q)
         /\ \A p, p2, q, q2 \in 1 .. Len(e) :
              Answering(e, row, sub, p, q) /\ Answering(e, row, sub, p2, q2) /\ p < p2 => q < q2
<1>0. /\ RowsShaped /\ Listing(e, row, sub, lo, hi) /\ last \in 1 .. Len(e)
      /\ row[last] \in Places(t, "final")
      /\ \A i \in lo .. hi : rows[i].kind # "user" => rows[i].turn = t
      /\ \A i \in DOMAIN rows : rows[i].turn = t <=> i \in lo .. row[last]
  BY DEF WholeRound, TableInv
<1>1. /\ Len(e) \in Nat /\ lo \in Nat /\ hi \in Nat /\ DOMAIN e = 1 .. Len(e)
      /\ DOMAIN rows = 1 .. Len(rows) /\ Len(rows) \in Nat
      /\ \A p \in 1 .. Len(e) : row[p] \in lo .. hi /\ row[p] \in Nat /\ sub[p] \in Nat
                                /\ row[p] \in DOMAIN rows
  BY <1>0, ListingFacts
<1>2. \A p, q \in 1 .. Len(e) : p < q => row[p] < row[q] \/ (row[p] = row[q] /\ sub[p] < sub[q])
  BY <1>0 DEF Listing
<1>3. /\ row[last] \in lo .. hi /\ row[last] \in DOMAIN rows
      /\ rows[row[last]].kind = "final" /\ rows[row[last]].turn = t
  BY <1>0, <1>1 DEF Places
<1>4. ASSUME NEW p \in 1 .. Len(e), e[p].kind = "tool_result"
      PROVE  /\ row[p] \in DOMAIN rows /\ IsResult(row[p]) /\ rows[row[p]].turn = t /\ sub[p] = 1
             /\ rows[row[p]].of \in Pairs
             /\ \E q \in 1 .. Len(e) : /\ e[q].kind = "tool_call" /\ q < p
                                       /\ rows[row[p]].of = <<row[q], sub[q] - 1>>
  <2>a. RowsShaped /\ Listing(e, row, sub, lo, hi) /\ e[p].kind = "tool_result"
    BY <1>0, <1>4
  <2>b. row[p] \in lo .. hi /\ row[p] \in DOMAIN rows /\ sub[p] = 1
    BY <2>a, ResultAt
  <2>c. rows[row[p]].kind = "result" /\ rows[row[p]].of \in Pairs
    BY <2>a, ResultAt
  <2> DEFINE i == row[p]
             c == rows[i].of[1]
             k == rows[i].of[2]
  <2>1. /\ i \in lo .. hi /\ i \in DOMAIN rows /\ rows[i].kind = "result" /\ sub[p] = 1
        /\ rows[i].of \in Pairs
    BY <2>b, <2>c
  <2>2. rows[i].turn = t /\ rows[i].of = <<c, k>> /\ c \in Nat /\ k \in Nat
    BY <2>1, <1>0 DEF Pairs
  <2>3. c \in 1 .. i - 1 /\ rows[c].turn = rows[i].turn /\ IsCall(c, k)
    BY <2>1 DEF TableInv, ResultsOf, IsResult
  <2> HIDE DEF i, c, k
  <2>4. c \in DOMAIN rows /\ c < i /\ i \in Nat
    BY <2>1, <2>3, <1>1
  <2>5. c \in lo .. hi
    <3>1. c \in lo .. row[last]
      BY <2>2, <2>3, <2>4, <1>0
    <3> QED BY <3>1, <1>1, <1>3
  <2>6. k + 1 \in 1 .. RowLen(c) /\ k + 1 # 1 /\ (k + 1) - 1 = k
    <3>1. Len(rows[c].calls) \in Nat /\ DOMAIN rows[c].calls = 1 .. Len(rows[c].calls)
      BY <2>4, <1>0, CallsShape
    <3> QED BY <3>1, <2>2, <2>3 DEF IsCall, RowLen
  <2>7. PICK q \in 1 .. Len(e) : row[q] = c /\ sub[q] = k + 1
    BY <2>5, <2>6, <1>0 DEF Listing
  <2>8. e[q].kind = "tool_call"
    <3>1. e[q] = EventAt(c, k + 1)
      BY <2>7, <1>0 DEF Listing
    <3>2. EventAt(c, k + 1).kind = "tool_call"
      BY <2>3, <2>4, <2>6, <1>0, EventFacts DEF IsCall
    <3> QED BY <3>1, <3>2
  <2>9. q < p
    <3>1. ~(p < q) /\ p # q
      BY <2>4, <2>7, <1>1, <1>2 DEF i
    <3> QED BY <3>1, <1>1
  <2>10. rows[i].of = <<row[q], sub[q] - 1>>
    BY <2>2, <2>6, <2>7
  <2> QED BY <2>1, <2>2, <2>8, <2>9, <2>10 DEF IsResult, i
<1>5. ASSUME NEW q \in 1 .. Len(e), e[q].kind = "tool_call"
      PROVE  \E p \in 1 .. Len(e) : /\ e[p].kind = "tool_result"
                                    /\ rows[row[p]].of = <<row[q], sub[q] - 1>>
  <2> DEFINE i == row[q]
             k == sub[q] - 1
  <2>1. i \in lo .. hi /\ i \in DOMAIN rows /\ k \in Nat /\ IsCall(i, k) /\ rows[i].kind = "calls"
    <3>1. RowsShaped /\ Listing(e, row, sub, lo, hi)
      BY <1>0
    <3>2. row[q] \in lo .. hi /\ row[q] \in DOMAIN rows /\ sub[q] - 1 \in Nat
      BY <3>1, <1>5, CallAt
    <3>3. rows[row[q]].kind = "calls" /\ IsCall(row[q], sub[q] - 1)
      BY <3>1, <1>5, CallAt
    <3> QED BY <3>2, <3>3
  <2> HIDE DEF i, k
  <2>2. rows[i].turn = t
    BY <2>1, <1>0
  <2>3. InTurn(i, row[last])
    <3>1. i \in lo .. row[last]
      BY <2>1, <2>2, <1>0
    <3>2. i # row[last]
      BY <2>1, <1>3
    <3> QED BY <3>1, <3>2, <2>2, <1>1, <1>3 DEF InTurn
  <2>4. Answered(i, k)
    BY <2>1, <2>3, <1>3 DEF TableInv, Answers
  <2>5. PICK j \in DOMAIN rows : IsResult(j) /\ rows[j].of = <<i, k>>
    BY <2>4 DEF Answered
  <2>6. rows[j].turn = t
    <3>1. rows[j].of[1] = i
      BY <2>5
    <3> QED BY <3>1, <2>2, <2>5 DEF TableInv, ResultsOf
  <2>7. j \in lo .. hi
    <3>1. j \in lo .. row[last]
      BY <2>6, <1>0
    <3> QED BY <3>1, <1>1, <1>3
  <2>8. 1 \in 1 .. RowLen(j)
    BY <1>0, CallsShape
  <2>9. PICK p \in 1 .. Len(e) : row[p] = j /\ sub[p] = 1
    BY <2>7, <2>8, <1>0 DEF Listing
  <2>10. e[p].kind = "tool_result"
    <3>1. e[p] = EventAt(j, 1)
      BY <2>9, <1>0 DEF Listing
    <3>2. EventAt(j, 1).kind = "tool_result"
      BY <2>5, <2>8, <1>0, EventFacts DEF IsResult
    <3> QED BY <3>1, <3>2
  <2> QED BY <2>5, <2>9, <2>10 DEF i, k
<1>6. \A p, p2, q, q2 \in 1 .. Len(e) :
        Answering(e, row, sub, p, q) /\ Answering(e, row, sub, p2, q2) /\ p < p2 => q < q2
  <2> SUFFICES ASSUME NEW p \in 1 .. Len(e), NEW p2 \in 1 .. Len(e),
                      NEW q \in 1 .. Len(e), NEW q2 \in 1 .. Len(e),
                      Answering(e, row, sub, p, q), Answering(e, row, sub, p2, q2), p < p2
               PROVE  q < q2
    BY Zenon
  <2>0. /\ e[p].kind = "tool_result" /\ e[p2].kind = "tool_result"
        /\ rows[row[p]].of = <<row[q], sub[q] - 1>>
        /\ rows[row[p2]].of = <<row[q2], sub[q2] - 1>>
    BY DEF Answering
  <2>1. /\ row[p] \in DOMAIN rows /\ IsResult(row[p]) /\ rows[row[p]].turn = t /\ sub[p] = 1
        /\ row[p2] \in DOMAIN rows /\ IsResult(row[p2]) /\ rows[row[p2]].turn = t /\ sub[p2] = 1
    BY <2>0, <1>4
  <2>2. row[p] < row[p2]
    BY <2>1, <1>1, <1>2
  <2>3. Before(rows[row[p]].of, rows[row[p2]].of)
    BY <2>1, <2>2 DEF TableInv, ResultsInOrder, InTurn
  <2>4. row[q] < row[q2] \/ (row[q] = row[q2] /\ sub[q] - 1 < sub[q2] - 1)
    BY <2>0, <2>3 DEF Before
  <2>5. /\ row[q] \in Nat /\ row[q2] \in Nat /\ sub[q] \in Nat /\ sub[q2] \in Nat
        /\ q \in Nat /\ q2 \in Nat
    BY <1>1
  <2>6. ~(q2 < q) /\ q # q2
    <3>1. q2 < q => row[q2] < row[q] \/ (row[q2] = row[q] /\ sub[q2] < sub[q])
      BY <1>2
    <3> QED BY <3>1, <2>4, <2>5
  <2> QED BY <2>5, <2>6
<1>7. \A p \in 1 .. Len(e) : e[p].kind = "tool_result" =>
        \E q \in 1 .. Len(e) : Answering(e, row, sub, p, q) /\ q < p
  BY <1>4 DEF Answering
<1>8. \A q \in 1 .. Len(e) : e[q].kind = "tool_call" =>
        \E p \in 1 .. Len(e) : Answering(e, row, sub, p, q)
  BY <1>5 DEF Answering
<1> QED BY <1>6, <1>7, <1>8, Zenon

-----------------------------------------------------------------------------
(* The links of a recovered round.  The calls without an id and the results *)
(* that answer them are in the same order, so that each has the rank of its *)
(* partner, also when the round ends before the last results.               *)

LEMMA Links ==
  ASSUME TableInv, NEW t \in Turns, NEW e, NEW row, NEW sub, NEW lo, NEW hi, NEW last,
         WholeRound(t, e, row, sub, lo, hi, last)
  PROVE  /\ \A p \in 1 .. Len(e) : e[p].kind = "tool_result" => LinkOf(e, p) = e[p].tool_call_id
         /\ \A q \in 1 .. Len(e) : e[q].kind = "tool_call" =>
              /\ HasId(row[q], sub[q] - 1) => LinkOf(e, q) = <<"call", row[q], sub[q] - 1>>
              /\ ~HasId(row[q], sub[q] - 1) =>
                   \E p \in 1 .. Len(e) : /\ Answering(e, row, sub, p, q)
                                          /\ LinkOf(e, q) = <<"row", row[p], 0>>
<1> DEFINE n == Len(e)
           C == Anonymous(e)
           L == Loose(e)
<1>0. RowsShaped /\ Listing(e, row, sub, lo, hi)
  BY DEF WholeRound, TableInv
<1>1. n \in Nat /\ DOMAIN e = 1 .. n
  BY <1>0, ListingFacts
<1>2. \A p, q \in 1 .. n : row[p] = row[q] /\ sub[p] = sub[q] => p = q
  BY <1>0, ListingFacts
<1>3. \A q \in 1 .. n : e[q].kind = "tool_call" =>
        /\ e[q].synthetic <=> ~HasId(row[q], sub[q] - 1)
        /\ HasId(row[q], sub[q] - 1) => e[q].tool_call_id = <<"call", row[q], sub[q] - 1>>
  BY <1>0, CallAt
<1>4. \A p \in 1 .. n : e[p].kind = "tool_result" =>
        LET of == rows[row[p]].of IN
        /\ HasId(of[1], of[2]) => e[p].tool_call_id = <<"call", of[1], of[2]>>
        /\ ~HasId(of[1], of[2]) => e[p].tool_call_id = <<"row", row[p], 0>>
  BY <1>0, ResultAt
<1>5. \A p \in 1 .. n : e[p].kind = "tool_result" => \E q \in 1 .. n : Answering(e, row, sub, p, q)
  BY Pairing
<1>6. \A q \in 1 .. n : e[q].kind = "tool_call" => \E p \in 1 .. n : Answering(e, row, sub, p, q)
  BY Pairing
<1>7. \A p, p2, q, q2 \in 1 .. n :
        Answering(e, row, sub, p, q) /\ Answering(e, row, sub, p2, q2) /\ p < p2 => q < q2
  BY Pairing, Zenon
<1>8. \A p, q \in 1 .. n : Answering(e, row, sub, p, q) =>
        /\ e[p].kind = "tool_result" /\ e[q].kind = "tool_call"
        /\ rows[row[p]].of[1] = row[q] /\ rows[row[p]].of[2] = sub[q] - 1
  BY DEF Answering
<1>9. \A q : q \in C <=> q \in 1 .. n /\ e[q].kind = "tool_call" /\ ~HasId(row[q], sub[q] - 1)
  BY <1>1, <1>3 DEF Anonymous
<1>10. ASSUME NEW p \in 1 .. n, NEW q \in 1 .. n, Answering(e, row, sub, p, q)
       PROVE  /\ p \in L <=> q \in C
              /\ q \in C => e[p].tool_call_id = <<"row", row[p], 0>>
  <2>1. /\ e[p].kind = "tool_result" /\ e[q].kind = "tool_call"
        /\ rows[row[p]].of[1] = row[q] /\ rows[row[p]].of[2] = sub[q] - 1
    BY <1>8, <1>10
  <2>2. CASE HasId(row[q], sub[q] - 1)
    <3>1. e[p].tool_call_id = <<"call", row[q], sub[q] - 1>>
      BY <2>1, <2>2, <1>4
    <3>2. e[q].tool_call_id = <<"call", row[q], sub[q] - 1>> /\ ~e[q].synthetic
      BY <2>1, <2>2, <1>3
    <3>3. e[p].tool_call_id \in Named(e)
      BY <2>1, <3>1, <3>2, <1>1 DEF Named
    <3>4. p \notin L
      BY <3>3 DEF Loose
    <3>5. q \notin C
      BY <2>2, <1>9
    <3> QED BY <3>4, <3>5
  <2>3. CASE ~HasId(row[q], sub[q] - 1)
    <3>1. e[p].tool_call_id = <<"row", row[p], 0>>
      BY <2>1, <2>3, <1>4
    <3>2. \A x \in Named(e) : \E a, b : x = <<"call", a, b>>
      BY <1>1, <1>3 DEF Named
    <3>3. e[p].tool_call_id \notin Named(e)
      BY <3>1, <3>2, Ids
    <3>4. p \in L
      BY <2>1, <3>3, <1>1 DEF Loose
    <3>5. q \in C
      BY <2>1, <2>3, <1>9
    <3> QED BY <3>1, <3>4, <3>5
  <2> QED BY <2>2, <2>3
<1>11. \A p \in L : p \in 1 .. n /\ e[p].kind = "tool_result"
  BY <1>1 DEF Loose
<1>12. C \in SUBSET (1 .. n) /\ L \in SUBSET (1 .. n)
  BY <1>9, <1>11
<1> DEFINE of(p) == CHOOSE q \in C : Answering(e, row, sub, p, q)
           f == [p \in L |-> of(p)]
<1>13. \A p \in L : of(p) \in C /\ Answering(e, row, sub, p, of(p))
  <2> TAKE p \in L
  <2>1. \E q \in C : Answering(e, row, sub, p, q)
    BY <1>5, <1>10, <1>11
  <2> QED BY <2>1
<1> HIDE DEF of
<1>14. f \in [L -> C] /\ \A p \in L : f[p] = of(p)
  <2> HIDE DEF C, L
  <2> QED BY <1>13
<1> HIDE DEF C, L, f
<1>15. \A p \in L : f[p] \in C /\ Answering(e, row, sub, p, f[p]) /\ p \in 1 .. n /\ f[p] \in 1 .. n
  BY <1>11, <1>12, <1>13, <1>14
<1>16. \A i, j \in L : i < j => f[i] < f[j]
  BY <1>7, <1>15
<1>17. ASSUME NEW p \in 1 .. n, NEW q \in C, Answering(e, row, sub, p, q)
       PROVE  p \in L /\ f[p] = q
  <2>1. q \in 1 .. n /\ p \in L
    BY <1>10, <1>12, <1>17
  <2>2. rows[row[p]].of = <<row[q], sub[q] - 1>> /\ rows[row[p]].of = <<row[f[p]], sub[f[p]] - 1>>
    BY <2>1, <1>15, <1>17 DEF Answering
  <2>3. row[q] = row[f[p]] /\ sub[q] - 1 = sub[f[p]] - 1
    <3>1. \A a, b, c, d : <<a, b>> = <<c, d>> => a = c /\ b = d
      OBVIOUS
    <3> QED BY <2>2, <3>1
  <2>4. sub[q] \in Nat /\ sub[f[p]] \in Nat
    BY <2>1, <1>0, <1>15, ListingFacts
  <2>5. sub[q] = sub[f[p]]
    BY <2>3, <2>4
  <2> QED BY <2>1, <2>3, <2>5, <1>2, <1>15
<1>18. \A c \in C : \E j \in L : f[j] = c
  BY <1>6, <1>9, <1>17
<1>19. ASSUME NEW q \in C
       PROVE  \E p \in 1 .. n : Answering(e, row, sub, p, q) /\ LinkOf(e, q) = <<"row", row[p], 0>>
  <2>1. PICK p \in 1 .. n : Answering(e, row, sub, p, q)
    BY <1>6, <1>9
  <2>2. p \in L /\ f[p] = q /\ q \in 1 .. n
    BY <2>1, <1>12, <1>17
  <2>3. \A j \in L : Rank(j, L) = Rank(f[p], C) <=> j = p
    <3> HIDE DEF n
    <3>1. n \in Nat /\ C \in SUBSET (1 .. n) /\ L \in SUBSET (1 .. n) /\ f \in [L -> C] /\ p \in L
      BY <2>2, <1>1, <1>12, <1>14
    <3>2. InOrder(f, L) /\ Covers(f, L, C)
      BY <1>16, <1>18 DEF InOrder, Covers
    <3> QED BY <3>1, <3>2, SameRank
  <2>4. Partners(e, q) = {p}
    BY <2>2, <2>3 DEF Partners, L, C
  <2>5. LinkOf(e, q) = e[p].tool_call_id
    <3>1. q \in Anonymous(e)
      BY DEF C
    <3> QED BY <2>4, <3>1 DEF LinkOf
  <2>6. e[p].tool_call_id = <<"row", row[p], 0>>
    BY <2>1, <2>2, <1>10
  <2> QED BY <2>1, <2>5, <2>6
<1>20. \A p \in 1 .. n : p \notin C => LinkOf(e, p) = e[p].tool_call_id
  BY DEF LinkOf, C
<1>21. \A p \in 1 .. n : e[p].kind = "tool_result" => LinkOf(e, p) = e[p].tool_call_id
  BY <1>9, <1>20
<1>22. ASSUME NEW q \in 1 .. n, e[q].kind = "tool_call"
       PROVE  /\ HasId(row[q], sub[q] - 1) => LinkOf(e, q) = <<"call", row[q], sub[q] - 1>>
              /\ ~HasId(row[q], sub[q] - 1) =>
                   \E p \in 1 .. n : /\ Answering(e, row, sub, p, q)
                                     /\ LinkOf(e, q) = <<"row", row[p], 0>>
  <2>1. CASE HasId(row[q], sub[q] - 1)
    BY <2>1, <1>3, <1>9, <1>20, <1>22
  <2>2. CASE ~HasId(row[q], sub[q] - 1)
    BY <2>2, <1>9, <1>19, <1>22
  <2> QED BY <2>1, <2>2
<1> QED BY <1>21, <1>22

-----------------------------------------------------------------------------
\* Ids of the events of a recovered round, before it is cut.
LEMMA LinkIds ==
  ASSUME TableInv, NEW t \in Turns, NEW e, NEW row, NEW sub, NEW lo, NEW hi, NEW last,
         WholeRound(t, e, row, sub, lo, hi, last)
  PROVE  /\ \A q, p \in 1 .. Len(e) :
              e[q].kind = "tool_call" /\ e[p].kind = "tool_result" /\ LinkOf(e, q) = LinkOf(e, p)
                => rows[row[p]].of = <<row[q], sub[q] - 1>>
         /\ \A q, q2 \in 1 .. Len(e) :
              e[q].kind = "tool_call" /\ e[q2].kind = "tool_call" /\ LinkOf(e, q) = LinkOf(e, q2)
                => q = q2
         /\ \A p \in 1 .. Len(e) : e[p].kind = "tool_result" =>
              \E q \in 1 .. Len(e) : e[q].kind = "tool_call" /\ q < p /\ LinkOf(e, q) = LinkOf(e, p)
<1> DEFINE n == Len(e)
<1>0. RowsShaped /\ Listing(e, row, sub, lo, hi)
  BY DEF WholeRound, TableInv
<1>1. n \in Nat /\ \A p \in 1 .. n : sub[p] \in Nat
  BY <1>0, ListingFacts
<1>2. \A p, q \in 1 .. n : row[p] = row[q] /\ sub[p] = sub[q] => p = q
  BY <1>0, ListingFacts
<1>3. \A q \in 1 .. n : e[q].kind = "tool_call" =>
        /\ HasId(row[q], sub[q] - 1) => LinkOf(e, q) = <<"call", row[q], sub[q] - 1>>
        /\ ~HasId(row[q], sub[q] - 1) =>
             \E p \in 1 .. n : /\ Answering(e, row, sub, p, q)
                               /\ LinkOf(e, q) = <<"row", row[p], 0>>
  BY Links
<1>4. \A p \in 1 .. n : e[p].kind = "tool_result" => LinkOf(e, p) = e[p].tool_call_id
  BY Links
<1>5. \A p \in 1 .. n : e[p].kind = "tool_result" =>
        /\ HasId(rows[row[p]].of[1], rows[row[p]].of[2]) =>
             e[p].tool_call_id = <<"call", rows[row[p]].of[1], rows[row[p]].of[2]>>
        /\ ~HasId(rows[row[p]].of[1], rows[row[p]].of[2]) =>
             e[p].tool_call_id = <<"row", row[p], 0>>
        /\ rows[row[p]].of = <<rows[row[p]].of[1], rows[row[p]].of[2]>>
  <2> TAKE p \in 1 .. n
  <2> HAVE e[p].kind = "tool_result"
  <2>1. rows[row[p]].of \in Pairs
    BY <1>0, ResultAt
  <2>2. rows[row[p]].of = <<rows[row[p]].of[1], rows[row[p]].of[2]>>
    BY <2>1 DEF Pairs
  <2>3. LET of == rows[row[p]].of IN
        /\ HasId(of[1], of[2]) => e[p].tool_call_id = <<"call", of[1], of[2]>>
        /\ ~HasId(of[1], of[2]) => e[p].tool_call_id = <<"row", row[p], 0>>
    BY <1>0, ResultAt
  <2> QED BY <2>2, <2>3
<1>6. \A p \in 1 .. n : e[p].kind = "tool_result" =>
        \E q \in 1 .. n : Answering(e, row, sub, p, q) /\ q < p
  BY Pairing
<1>7. \A p, q : Answering(e, row, sub, p, q) =>
        /\ e[p].kind = "tool_result" /\ e[q].kind = "tool_call"
        /\ rows[row[p]].of = <<row[q], sub[q] - 1>>
        /\ rows[row[p]].of[1] = row[q] /\ rows[row[p]].of[2] = sub[q] - 1
  BY DEF Answering
<1>8. \A q, q2, p \in 1 .. n :
        (/\ rows[row[p]].of[1] = row[q] /\ rows[row[p]].of[2] = sub[q] - 1
         /\ rows[row[p]].of[1] = row[q2] /\ rows[row[p]].of[2] = sub[q2] - 1) => q = q2
  <2> TAKE q, q2, p \in 1 .. n
  <2> HAVE /\ rows[row[p]].of[1] = row[q] /\ rows[row[p]].of[2] = sub[q] - 1
           /\ rows[row[p]].of[1] = row[q2] /\ rows[row[p]].of[2] = sub[q2] - 1
  <2>1. sub[q] \in Nat /\ sub[q2] \in Nat /\ sub[q] - 1 = sub[q2] - 1
    BY <1>1
  <2>2. sub[q] = sub[q2]
    BY <2>1
  <2> QED BY <2>2, <1>2
<1> HIDE DEF n
<1>10. ASSUME NEW q \in 1 .. n, NEW p \in 1 .. n,
              e[q].kind = "tool_call", e[p].kind = "tool_result", LinkOf(e, q) = LinkOf(e, p)
       PROVE  rows[row[p]].of = <<row[q], sub[q] - 1>>
  <2> DEFINE a == rows[row[p]].of[1]
             b == rows[row[p]].of[2]
  <2>1. rows[row[p]].of = <<a, b>>
    BY <1>5, <1>10
  <2>2. CASE HasId(a, b) /\ HasId(row[q], sub[q] - 1)
    <3>1. <<"call", a, b>> = <<"call", row[q], sub[q] - 1>>
      BY <2>2, <1>3, <1>4, <1>5, <1>10
    <3>2. a = row[q] /\ b = sub[q] - 1
      BY <3>1, Ids
    <3> QED BY <2>1, <3>2
  <2>3. CASE HasId(a, b) /\ ~HasId(row[q], sub[q] - 1)
    <3>1. \E c : <<"call", a, b>> = <<"row", c, 0>>
      BY <2>3, <1>3, <1>4, <1>5, <1>10
    <3> QED BY <3>1, Ids
  <2>4. CASE ~HasId(a, b) /\ HasId(row[q], sub[q] - 1)
    <3>1. <<"call", row[q], sub[q] - 1>> = <<"row", row[p], 0>>
      BY <2>4, <1>3, <1>4, <1>5, <1>10
    <3> QED BY <3>1, Ids
  <2>5. CASE ~HasId(a, b) /\ ~HasId(row[q], sub[q] - 1)
    <3>1. PICK r \in 1 .. n : Answering(e, row, sub, r, q) /\ LinkOf(e, q) = <<"row", row[r], 0>>
      BY <2>5, <1>3, <1>10
    <3>2. <<"row", row[r], 0>> = <<"row", row[p], 0>>
      BY <3>1, <2>5, <1>4, <1>5, <1>10
    <3>3. row[r] = row[p]
      BY <3>2, Ids
    <3> QED BY <3>1, <3>3, <1>7
  <2> QED BY <2>2, <2>3, <2>4, <2>5
<1>11. ASSUME NEW q \in 1 .. n, NEW q2 \in 1 .. n,
              e[q].kind = "tool_call", e[q2].kind = "tool_call", LinkOf(e, q) = LinkOf(e, q2)
       PROVE  q = q2
  <2>1. CASE HasId(row[q], sub[q] - 1) /\ HasId(row[q2], sub[q2] - 1)
    <3>1. <<"call", row[q], sub[q] - 1>> = <<"call", row[q2], sub[q2] - 1>>
      BY <2>1, <1>3, <1>11
    <3>2. row[q] = row[q2] /\ sub[q] - 1 = sub[q2] - 1
      BY <3>1, Ids
    <3>3. sub[q] = sub[q2]
      BY <3>2, <1>1 DEF n
    <3> QED BY <3>2, <3>3, <1>2 DEF n
  <2>2. CASE HasId(row[q], sub[q] - 1) /\ ~HasId(row[q2], sub[q2] - 1)
    <3>1. \E c : <<"call", row[q], sub[q] - 1>> = <<"row", c, 0>>
      BY <2>2, <1>3, <1>11
    <3> QED BY <3>1, Ids
  <2>3. CASE ~HasId(row[q], sub[q] - 1) /\ HasId(row[q2], sub[q2] - 1)
    <3>1. \E c : <<"call", row[q2], sub[q2] - 1>> = <<"row", c, 0>>
      BY <2>3, <1>3, <1>11
    <3> QED BY <3>1, Ids
  <2>4. CASE ~HasId(row[q], sub[q] - 1) /\ ~HasId(row[q2], sub[q2] - 1)
    <3>1. PICK r \in 1 .. n : Answering(e, row, sub, r, q) /\ LinkOf(e, q) = <<"row", row[r], 0>>
      BY <2>4, <1>3, <1>11
    <3>2. PICK r2 \in 1 .. n : Answering(e, row, sub, r2, q2) /\ LinkOf(e, q2) = <<"row", row[r2], 0>>
      BY <2>4, <1>3, <1>11
    <3>3. row[r] = row[r2]
      BY <3>1, <3>2, <1>11, Ids
    <3>4. /\ rows[row[r]].of[1] = row[q] /\ rows[row[r]].of[2] = sub[q] - 1
          /\ rows[row[r]].of[1] = row[q2] /\ rows[row[r]].of[2] = sub[q2] - 1
      BY <3>1, <3>2, <3>3, <1>7
    <3> QED BY <3>4, <1>8 DEF n
  <2> QED BY <2>1, <2>2, <2>3, <2>4
<1>12. ASSUME NEW p \in 1 .. n, e[p].kind = "tool_result"
       PROVE  \E q \in 1 .. n : e[q].kind = "tool_call" /\ q < p /\ LinkOf(e, q) = LinkOf(e, p)
  <2>1. PICK q \in 1 .. n : Answering(e, row, sub, p, q) /\ q < p
    BY <1>6, <1>12 DEF n
  <2>2. /\ e[q].kind = "tool_call"
        /\ rows[row[p]].of[1] = row[q] /\ rows[row[p]].of[2] = sub[q] - 1
    BY <2>1, <1>7
  <2>3. CASE HasId(row[q], sub[q] - 1)
    <3>1. LinkOf(e, q) = <<"call", row[q], sub[q] - 1>>
      BY <2>2, <2>3, <1>3
    <3>2. LinkOf(e, p) = <<"call", row[q], sub[q] - 1>>
      BY <2>2, <2>3, <1>4, <1>5, <1>12
    <3> QED BY <3>1, <3>2, <2>1, <2>2
  <2>4. CASE ~HasId(row[q], sub[q] - 1)
    <3>1. PICK r \in 1 .. n : Answering(e, row, sub, r, q) /\ LinkOf(e, q) = <<"row", row[r], 0>>
      BY <2>2, <2>4, <1>3
    <3>2. LinkOf(e, p) = <<"row", row[p], 0>>
      BY <2>2, <2>4, <1>4, <1>5, <1>12
    <3>3. row[r] = row[p]
      <4>0. /\ r \in 1 .. Len(e) /\ p \in 1 .. Len(e) /\ q \in 1 .. Len(e)
        BY DEF n
      <4>1. ~(r < p) /\ ~(p < r)
        <5>1. r < p => q < q
          BY <4>0, <2>1, <3>1, Pairing
        <5>2. p < r => q < q
          BY <4>0, <2>1, <3>1, Pairing
        <5>3. ~(q < q)
          BY <1>1 DEF n
        <5> QED BY <5>1, <5>2, <5>3
      <4>2. r = p
        BY <4>0, <4>1, <1>1
      <4> QED BY <4>2
    <3> QED BY <3>1, <3>2, <3>3, <2>1, <2>2
  <2> QED BY <2>3, <2>4
<1>13. \A q, p \in 1 .. n :
         e[q].kind = "tool_call" /\ e[p].kind = "tool_result" /\ LinkOf(e, q) = LinkOf(e, p)
           => rows[row[p]].of = <<row[q], sub[q] - 1>>
  BY <1>10
<1>14. \A q, q2 \in 1 .. n :
         e[q].kind = "tool_call" /\ e[q2].kind = "tool_call" /\ LinkOf(e, q) = LinkOf(e, q2)
           => q = q2
  BY <1>11
<1> QED BY <1>12, <1>13, <1>14 DEF n

LEMMA Answer == TableInv => ResultsAnswer
<1> SUFFICES ASSUME TableInv, NEW t \in Turns, Closed(t), Usable(Recovered(t)),
                    NEW i \in DOMAIN Recovered(t), NEW j \in DOMAIN Recovered(t),
                    Recovered(t)[i].kind = "tool_call", Recovered(t)[j].kind = "tool_result",
                    Recovered(t)[i].tool_call_id = Recovered(t)[j].tool_call_id
             PROVE  rows[Recovered(t)[j].event_id[1]].of = Recovered(t)[i].event_id
  BY DEF ResultsAnswer
<1> DEFINE v == Recovered(t)
<1>1. PICK e, row, sub, lo, hi, last : WholeRound(t, e, row, sub, lo, hi, last)
  BY RecoveredWhole
<1>2. i \in 1 .. last /\ j \in 1 .. last
  BY <1>1 DEF WholeRound, Finished
<1>3. /\ i \in 1 .. Len(e) /\ v[i].kind = e[i].kind /\ v[i].event_id = e[i].event_id
      /\ v[i].kind # "message" => v[i].tool_call_id = LinkOf(e, i)
  BY <1>1, <1>2, WholeEvents
<1>4. /\ j \in 1 .. Len(e) /\ v[j].kind = e[j].kind /\ v[j].event_id[1] = row[j]
      /\ v[j].kind # "message" => v[j].tool_call_id = LinkOf(e, j)
  BY <1>1, <1>2, WholeEvents
<1>5. LinkOf(e, i) = LinkOf(e, j) /\ e[i].kind = "tool_call" /\ e[j].kind = "tool_result"
  BY <1>3, <1>4
<1>6. rows[row[j]].of = <<row[i], sub[i] - 1>>
  <2>1. \A q, p \in 1 .. Len(e) :
          e[q].kind = "tool_call" /\ e[p].kind = "tool_result" /\ LinkOf(e, q) = LinkOf(e, p)
            => rows[row[p]].of = <<row[q], sub[q] - 1>>
    BY <1>1, LinkIds
  <2> QED BY <2>1, <1>3, <1>4, <1>5
<1>7. e[i].event_id = <<row[i], sub[i] - 1>>
  <2>1. RowsShaped /\ Listing(e, row, sub, lo, hi)
    BY <1>1 DEF WholeRound, TableInv
  <2> QED BY <2>1, <1>3, <1>5, CallAt
<1> QED BY <1>3, <1>4, <1>6, <1>7

\* _link_anonymous_tool_calls: in a recovered round a result has the id of a call
\* only if it answers that call, with any mixture of calls with and without ids.
THEOREM ResultsAreAnswers == TableSpec => []ResultsAnswer
  BY TableInvariance, Answer, PTL

-----------------------------------------------------------------------------
(* The RawRound built of a recovered round. *)

\* An event that has all that its kind demands, and the same event with its
\* place in the round.
Complete(x) ==
  /\ {"kind", "event_id", "final"} \subseteq DOMAIN x /\ x.kind \in Kinds
  /\ x.kind = "tool_call" => "arguments" \in DOMAIN x
  /\ x.kind = "tool_result" => "status" \in DOMAIN x

Numbered(y, x, place) ==
  /\ DOMAIN y = {"event_id", "sequence", "kind", "final"} \cup (DOMAIN x \cap Carried)
  /\ y.event_id = x.event_id /\ y.sequence = place /\ y.kind = x.kind /\ y.final = x.final
  /\ \A f \in DOMAIN x \cap Carried : y[f] = x[f]

LEMMA Normalized ==
  ASSUME NEW x, NEW place, Complete(x)
  PROVE  Numbered(Normalize(x, place), x, place)
<1> USE DEF Complete
<1> DEFINE kind  == IF Field(x, "kind", "message") \in Kinds THEN Field(x, "kind", "message") ELSE "message"
           given == DOMAIN x \cap Carried
           added == CASE kind = "tool_call"   -> {"arguments"} \ given
                      [] kind = "tool_result" -> {"status"} \ given
                      [] OTHER                -> {}
           filled == [arguments |-> "{}", status |-> "unknown"]
           D == {"event_id", "sequence", "kind", "final"} \cup given \cup added
           g == [name \in D |->
                   CASE name = "event_id" -> Field(x, "event_id", <<"place", place>>)
                     [] name = "sequence" -> place
                     [] name = "kind"     -> kind
                     [] name = "final"    -> Field(x, "final", FALSE)
                     [] name \in given    -> x[name]
                     [] OTHER             -> filled[name]]
<1>1. Normalize(x, place) = g
  BY DEF Normalize
<1>2. kind = x.kind
  BY DEF Field
<1>3. "arguments" \in Carried /\ "status" \in Carried
  BY DEF Carried
<1>4. added = {}
  <2> HIDE DEF kind
  <2> QED BY <1>2, <1>3
<1>5. Field(x, "event_id", <<"place", place>>) = x.event_id /\ Field(x, "final", FALSE) = x.final
  BY DEF Field
<1>6. \A f \in given : f \notin {"event_id", "sequence", "kind", "final"}
  BY DEF Carried
<1>7. D = {"event_id", "sequence", "kind", "final"} \cup given
  <2> HIDE DEF added, given
  <2> QED BY <1>4
<1>8. \A f \in given : f \in D
  BY <1>7
<1>9. "event_id" \in D /\ "sequence" \in D /\ "kind" \in D /\ "final" \in D
  BY <1>7
<1> HIDE DEF D, added, filled, kind
<1>10. DOMAIN g = D
  OBVIOUS
<1>11. g["event_id"] = x.event_id
  BY <1>5, <1>9
<1>12. g["sequence"] = place
  <2>1. "sequence" \notin given
    BY <1>6
  <2> HIDE DEF given
  <2> QED BY <2>1, <1>9
<1>13. g["kind"] = x.kind
  BY <1>2, <1>9
<1>14. g["final"] = x.final
  BY <1>5, <1>9
<1>15. ASSUME NEW f \in given PROVE g[f] = x[f]
  <2>1. f \in D /\ f # "event_id" /\ f # "sequence" /\ f # "kind" /\ f # "final"
    BY <1>6, <1>8
  <2> HIDE DEF given
  <2> QED BY <2>1, <1>15
<1> HIDE DEF g
<1> QED BY <1>1, <1>7, <1>10, <1>11, <1>12, <1>13, <1>14, <1>15 DEF Numbered

LEMMA SameIds ==
  ASSUME TableInv, NEW t \in Turns, NEW e, NEW row, NEW sub, NEW lo, NEW hi, NEW last,
         WholeRound(t, e, row, sub, lo, hi, last)
  PROVE  \A p, q \in 1 .. Len(e) : e[p].event_id = e[q].event_id => p = q
<1>0. RowsShaped /\ Listing(e, row, sub, lo, hi)
  BY DEF WholeRound, TableInv
<1>1. \A p, q \in 1 .. Len(e) : row[p] = row[q] /\ sub[p] = sub[q] => p = q
  BY <1>0, ListingFacts
<1>2. ASSUME NEW p \in 1 .. Len(e)
      PROVE  /\ e[p].event_id[1] = row[p] /\ sub[p] \in Nat
             /\ sub[p] = 1 => e[p].event_id = <<row[p]>>
             /\ sub[p] # 1 => e[p].event_id = <<row[p], sub[p] - 1>>
  <2>1. row[p] \in DOMAIN rows /\ sub[p] \in 1 .. RowLen(row[p]) /\ sub[p] \in Nat
    BY <1>0, ListingFacts
  <2>2. rows[row[p]].kind # "calls" => sub[p] = 1
    BY <1>0, ListingFacts
  <2> DEFINE x == EventAt(row[p], sub[p])
  <2>3. e[p] = x
    BY <1>0 DEF Listing
  <2>4. /\ x.event_id[1] = row[p]
        /\ x.kind \in {"message", "tool_call", "tool_result"}
        /\ x.kind = "message" => x.event_id = <<row[p]>>
        /\ x.kind = "tool_call" <=> rows[row[p]].kind = "calls" /\ sub[p] # 1
    BY <2>1, <1>0, EventFacts
  <2>5. x.kind = "tool_call" => x.event_id = <<row[p], sub[p] - 1>>
    BY <2>1, <1>0, EventShape
  <2>6. x.kind = "tool_result" => x.event_id = <<row[p]>>
    BY <2>1, <1>0, EventShape
  <2> HIDE DEF x
  <2> QED BY <2>1, <2>2, <2>3, <2>4, <2>5, <2>6
<1>3. \A a, b, c : <<a>> # <<b, c>>
  <2> TAKE a, b, c
  <2>1. Len(<<a>>) = 1 /\ Len(<<b, c>>) = 2
    OBVIOUS
  <2> QED BY <2>1
<1> TAKE p, q \in 1 .. Len(e)
<1> HAVE e[p].event_id = e[q].event_id
<1>4. row[p] = row[q] /\ sub[p] \in Nat /\ sub[q] \in Nat
  BY <1>2
<1>5. sub[p] = sub[q]
  <2>1. CASE sub[p] = 1
    <3>1. e[p].event_id = <<row[p]>>
      BY <2>1, <1>2
    <3>2. <<row[p]>> # <<row[q], sub[q] - 1>>
      BY <1>3
    <3>3. sub[q] = 1
      <4> SUFFICES ASSUME sub[q] # 1 PROVE FALSE
        OBVIOUS
      <4>1. e[q].event_id = <<row[q], sub[q] - 1>>
        BY <1>2
      <4> QED BY <4>1, <3>1, <3>2
    <3> QED BY <3>3, <2>1
  <2>2. CASE sub[p] # 1
    <3>1. sub[q] # 1
      <4> SUFFICES ASSUME sub[q] = 1 PROVE FALSE
        OBVIOUS
      <4>1. e[q].event_id = <<row[q]>>
        BY <1>2
      <4>2. e[p].event_id = <<row[p], sub[p] - 1>>
        BY <2>2, <1>2
      <4>3. <<row[q]>> # <<row[p], sub[p] - 1>>
        BY <1>3
      <4> QED BY <4>1, <4>2, <4>3
    <3>2. <<row[p], sub[p] - 1>> = <<row[q], sub[q] - 1>>
      BY <2>2, <3>1, <1>2
    <3>3. sub[p] - 1 = sub[q] - 1
      BY <3>2
    <3> QED BY <3>3, <1>4
  <2> QED BY <2>1, <2>2
<1> QED BY <1>1, <1>4, <1>5

LEMMA CanBeSubmitted == TableInv => RecoveredIsValid
<1> SUFFICES ASSUME TableInv, NEW t \in Turns, Closed(t), Usable(Recovered(t))
             PROVE  Valid(Build(Recovered(t)))
  BY DEF RecoveredIsValid
<1> DEFINE v == Recovered(t)
           b == Build(v)
           w(p) == Normalize(v[p], p - 1)
<1>1. PICK e, row, sub, lo, hi, last : WholeRound(t, e, row, sub, lo, hi, last)
  BY RecoveredWhole
<1>2. /\ DOMAIN v = 1 .. last /\ last \in Nat /\ 1 \in 1 .. last /\ last \in 1 .. last
      /\ Len(e) \in Nat /\ last \in 1 .. Len(e)
      /\ RowsShaped /\ Listing(e, row, sub, lo, hi)
  <2>1. DOMAIN v = 1 .. last /\ last \in 1 .. Len(e) /\ RowsShaped /\ Listing(e, row, sub, lo, hi)
    BY <1>1 DEF WholeRound, Finished, TableInv
  <2>2. Len(e) \in Nat
    BY <2>1, ListingFacts
  <2> QED BY <2>1, <2>2
<1>3. ASSUME NEW p \in 1 .. last
      PROVE  /\ p \in 1 .. Len(e) /\ v[p].kind = e[p].kind /\ v[p].event_id = e[p].event_id
             /\ v[p].kind \in {"message", "tool_call", "tool_result"} /\ v[p].final = (p = last)
             /\ v[p].kind = "message" =>
                  v[p].role = e[p].role /\ DOMAIN v[p] = {"event_id", "kind", "role", "final"}
             /\ v[p].kind = "tool_call" =>
                  DOMAIN v[p] = {"event_id", "kind", "tool_name", "arguments", "tool_call_id", "final"}
             /\ v[p].kind = "tool_result" =>
                  DOMAIN v[p] = {"event_id", "kind", "status", "tool_call_id", "final"}
             /\ v[p].kind # "message" => v[p].tool_call_id = LinkOf(e, p)
  BY <1>1, WholeEvents
<1> HIDE DEF v
<1>4. ASSUME NEW p \in 1 .. last
      PROVE  /\ DOMAIN w(p) = {"event_id", "sequence", "kind", "final"} \cup (DOMAIN v[p] \cap Carried)
             /\ w(p).event_id = v[p].event_id /\ w(p).sequence = p - 1 /\ w(p).kind = v[p].kind
             /\ w(p).final = v[p].final
             /\ \A f \in DOMAIN v[p] \cap Carried : w(p)[f] = v[p][f]
  <2>1. Complete(v[p])
    BY <1>3 DEF Kinds, Complete
  <2>2. Numbered(w(p), v[p], p - 1)
    BY <2>1, Normalized
  <2> QED BY <2>2 DEF Numbered
<1> HIDE DEF w
<1>5. ASSUME NEW p \in 1 .. last
      PROVE  /\ w(p).event_id = e[p].event_id /\ w(p).sequence = p - 1 /\ w(p).final = (p = last)
             /\ w(p).kind = e[p].kind
             /\ w(p).kind \in {"message", "tool_call", "tool_result"}
             /\ w(p).kind = "message" =>
                  /\ DOMAIN w(p) = {"event_id", "sequence", "kind", "final", "role"}
                  /\ w(p).role = e[p].role
             /\ w(p).kind = "tool_call" =>
                  DOMAIN w(p) = {"event_id", "sequence", "kind", "final", "tool_name",
                                 "arguments", "tool_call_id"}
             /\ w(p).kind = "tool_result" =>
                  DOMAIN w(p) = {"event_id", "sequence", "kind", "final", "status", "tool_call_id"}
             /\ w(p).kind # "message" => w(p).tool_call_id = LinkOf(e, p)
  <2> DEFINE x == v[p]
             y == w(p)
  <2>1. /\ x.kind = e[p].kind /\ x.event_id = e[p].event_id
        /\ x.kind \in {"message", "tool_call", "tool_result"} /\ x.final = (p = last)
        /\ x.kind = "message" =>
             x.role = e[p].role /\ DOMAIN x = {"event_id", "kind", "role", "final"}
        /\ x.kind = "tool_call" =>
             DOMAIN x = {"event_id", "kind", "tool_name", "arguments", "tool_call_id", "final"}
        /\ x.kind = "tool_result" =>
             DOMAIN x = {"event_id", "kind", "status", "tool_call_id", "final"}
        /\ x.kind # "message" => x.tool_call_id = LinkOf(e, p)
    BY <1>3
  <2>2. /\ DOMAIN y = {"event_id", "sequence", "kind", "final"} \cup (DOMAIN x \cap Carried)
        /\ y.event_id = x.event_id /\ y.sequence = p - 1 /\ y.kind = x.kind /\ y.final = x.final
        /\ \A f \in DOMAIN x \cap Carried : y[f] = x[f]
    BY <1>4
  <2> HIDE DEF x, y
  <2>3. y.kind = "message" => /\ DOMAIN y = {"event_id", "sequence", "kind", "final", "role"}
                              /\ y.role = e[p].role
    BY <2>1, <2>2 DEF Carried
  <2>4. y.kind = "tool_call" => /\ DOMAIN y = {"event_id", "sequence", "kind", "final", "tool_name",
                                               "arguments", "tool_call_id"}
                                /\ y.tool_call_id = LinkOf(e, p)
    BY <2>1, <2>2 DEF Carried
  <2>5. y.kind = "tool_result" => /\ DOMAIN y = {"event_id", "sequence", "kind", "final", "status",
                                                 "tool_call_id"}
                                  /\ y.tool_call_id = LinkOf(e, p)
    BY <2>1, <2>2 DEF Carried
  <2>6. /\ y.event_id = e[p].event_id /\ y.sequence = p - 1 /\ y.final = (p = last)
        /\ y.kind = e[p].kind /\ y.kind \in {"message", "tool_call", "tool_result"}
    BY <2>1, <2>2
  <2> QED BY <2>3, <2>4, <2>5, <2>6 DEF y
<1> DEFINE normal == [p \in 1 .. last |-> w(p)]
           ids    == [p \in 1 .. last |-> normal[p].event_id]
<1>6. b = [events |-> normal, event_ids |-> ids, first |-> ids[1], last |-> ids[Len(ids)]]
  BY <1>2 DEF Build, w
<1>7. /\ b.events = normal /\ b.event_ids = ids /\ b.first = ids[1] /\ b.last = ids[Len(ids)]
      /\ DOMAIN normal = 1 .. last /\ DOMAIN ids = 1 .. last
      /\ \A p \in 1 .. last : normal[p] = w(p) /\ ids[p] = w(p).event_id
      /\ ids = [p \in DOMAIN normal |-> normal[p].event_id]
  <2> HIDE DEF b
  <2>1. b.events = normal /\ b.event_ids = ids /\ b.first = ids[1] /\ b.last = ids[Len(ids)]
    <3> HIDE DEF normal, ids
    <3> QED BY <1>6
  <2> QED BY <2>1
<1> HIDE DEF b, normal, ids
<1>8. ASSUME NEW p \in 1 .. last, rows[row[p]].kind \in {"user", "final"}
      PROVE  /\ w(p).kind = "message"
             /\ w(p).role = IF rows[row[p]].kind = "user" THEN "user" ELSE "assistant"
  <2>1. row[p] \in DOMAIN rows /\ sub[p] \in 1 .. RowLen(row[p])
    BY <1>2, <1>3, ListingFacts
  <2>2. e[p] = EventAt(row[p], sub[p])
    BY <1>2, <1>3 DEF Listing
  <2>3. /\ IsUser(EventAt(row[p], sub[p])) <=> rows[row[p]].kind = "user"
        /\ IsAssistant(EventAt(row[p], sub[p])) <=>
             rows[row[p]].kind = "final" \/ (rows[row[p]].kind = "calls" /\ sub[p] = 1)
    BY <2>1, <1>2, EventFacts
  <2>4. rows[row[p]].kind = "user" => e[p].kind = "message" /\ e[p].role = "user"
    BY <2>2, <2>3 DEF IsUser
  <2>5. rows[row[p]].kind = "final" => e[p].kind = "message" /\ e[p].role = "assistant"
    BY <2>2, <2>3 DEF IsAssistant
  <2> QED BY <2>4, <2>5, <1>5, <1>8
<1>9. b.events # <<>>
  BY <1>2, <1>7
<1>10. ASSUME NEW p \in 1 .. last PROVE ShapeValid(w(p)) /\ w(p).sequence = p - 1
  <2> DEFINE y == w(p)
  <2>1. y.kind = "message" => y.role \in {"user", "assistant", "system"}
    <3> SUFFICES ASSUME y.kind = "message" PROVE e[p].role \in {"user", "assistant"}
      BY <1>5
    <3>1. row[p] \in DOMAIN rows /\ sub[p] \in 1 .. RowLen(row[p])
      BY <1>2, <1>3, ListingFacts
    <3>2. e[p] = EventAt(row[p], sub[p]) /\ e[p].kind = "message"
      BY <1>2, <1>3, <1>5 DEF Listing
    <3> DEFINE x == EventAt(row[p], sub[p])
    <3>3. x.kind = "message" => x.role \in {"user", "assistant"}
      BY <3>1, <1>2, EventShape
    <3> HIDE DEF x
    <3>4. e[p] = x
      BY <3>2 DEF x
    <3> QED BY <3>2, <3>3, <3>4
  <2>2. /\ y.sequence = p - 1 /\ y.kind \in {"message", "tool_call", "tool_result"}
        /\ y.kind = "message" => DOMAIN y = {"event_id", "sequence", "kind", "final", "role"}
        /\ y.kind = "tool_call" => DOMAIN y = {"event_id", "sequence", "kind", "final", "tool_name",
                                               "arguments", "tool_call_id"}
        /\ y.kind = "tool_result" => DOMAIN y = {"event_id", "sequence", "kind", "final", "status",
                                                 "tool_call_id"}
    BY <1>5
  <2> HIDE DEF y
  <2>3. CASE y.kind = "message"
    <3>1. DOMAIN y = {"event_id", "sequence", "kind", "final", "role"}
      BY <2>2, <2>3
    <3>2. DOMAIN y \cap (Carried \ {"role"}) = {}
      BY <3>1 DEF Carried
    <3>3. Field(y, "role", "") = y.role
      BY <3>1 DEF Field
    <3>4. Field(y, "role", "") \in {"user", "assistant", "system"}
      BY <3>3, <2>1, <2>3
    <3> QED BY <3>2, <3>4, <2>2, <2>3 DEF ShapeValid, y
  <2>4. CASE y.kind = "tool_call"
    <3>1. DOMAIN y = {"event_id", "sequence", "kind", "final", "tool_name", "arguments", "tool_call_id"}
      BY <2>2, <2>4
    <3>2. {"tool_call_id", "tool_name"} \subseteq DOMAIN y /\ {"role", "status"} \cap DOMAIN y = {}
      BY <3>1
    <3>3. y.kind # "message"
      BY <2>4
    <3> QED BY <3>2, <3>3, <2>2, <2>4 DEF ShapeValid, y
  <2>5. CASE y.kind = "tool_result"
    <3>1. DOMAIN y = {"event_id", "sequence", "kind", "final", "status", "tool_call_id"}
      BY <2>2, <2>5
    <3>2. {"tool_call_id", "status"} \subseteq DOMAIN y /\ "role" \notin DOMAIN y
      BY <3>1
    <3>3. y.kind # "message" /\ y.kind # "tool_call"
      BY <2>5
    <3> QED BY <3>2, <3>3, <2>2, <2>5 DEF ShapeValid, y
  <2> QED BY <2>2, <2>3, <2>4, <2>5 DEF y
<1>11. Distinct(b.event_ids)
  <2>1. \A p, q \in 1 .. last : e[p].event_id = e[q].event_id => p = q
    BY <1>1, <1>3, SameIds
  <2> QED BY <2>1, <1>5, <1>7 DEF Distinct
<1>12. Users(b) # {}
  <2>1. row[1] = lo /\ lo \in Places(t, "user")
    <3>1. e # <<>>
      BY <1>2
    <3> QED BY <3>1, <1>1, <1>2, ListingFacts DEF WholeRound
  <2>2. w(1).kind = "message" /\ w(1).role = "user"
    BY <2>1, <1>2, <1>8 DEF Places
  <2>3. 1 \in Users(b)
    BY <2>2, <1>2, <1>7 DEF Users
  <2> QED BY <2>3
<1>13. Cardinality(Finals(b)) = 1
  <2>1. rows[row[last]].kind = "final"
    BY <1>1 DEF WholeRound, Places
  <2>2. w(last).kind = "message" /\ w(last).role = "assistant"
    BY <2>1, <1>2, <1>8
  <2>3. \A p \in 1 .. last : w(p).final <=> p = last
    BY <1>5
  <2>4. \A p : p \in Finals(b) <=> p \in 1 .. last /\ w(p).kind = "message"
                                   /\ w(p).role = "assistant" /\ w(p).final
    BY <1>7 DEF Finals
  <2>5. Finals(b) = {last}
    BY <2>2, <2>3, <2>4, <1>2
  <2> QED BY <2>5, FS_Singleton
<1>14. CallsValid(b)
  <2>1. \A p, k : p \in Of(b, k) <=> p \in 1 .. last /\ e[p].kind = k
    BY <1>5, <1>7 DEF Of
  <2>2. \A p \in 1 .. last : e[p].kind \in {"tool_call", "tool_result"} =>
          b.events[p].tool_call_id = LinkOf(e, p)
    BY <1>5, <1>7
  <2>3. ASSUME NEW p \in Of(b, "tool_call"), NEW q \in Of(b, "tool_call"),
               b.events[p].tool_call_id = b.events[q].tool_call_id
        PROVE  p = q
    <3>1. /\ p \in 1 .. Len(e) /\ q \in 1 .. Len(e) /\ e[p].kind = "tool_call"
          /\ e[q].kind = "tool_call" /\ LinkOf(e, p) = LinkOf(e, q)
      BY <2>1, <2>2, <2>3, <1>3
    <3>2. \A i, j \in 1 .. Len(e) :
            e[i].kind = "tool_call" /\ e[j].kind = "tool_call" /\ LinkOf(e, i) = LinkOf(e, j) => i = j
      BY <1>1, LinkIds
    <3> QED BY <3>1, <3>2
  <2>4. ASSUME NEW p \in Of(b, "tool_result")
        PROVE  \E q \in Of(b, "tool_call") : b.events[q].tool_call_id = b.events[p].tool_call_id
    <3>1. p \in 1 .. last /\ p \in 1 .. Len(e) /\ e[p].kind = "tool_result"
      BY <2>1, <1>3
    <3>2. \A i \in 1 .. Len(e) : e[i].kind = "tool_result" =>
            \E j \in 1 .. Len(e) : e[j].kind = "tool_call" /\ j < i /\ LinkOf(e, j) = LinkOf(e, i)
      BY <1>1, LinkIds
    <3>3. PICK q \in 1 .. Len(e) : e[q].kind = "tool_call" /\ q < p /\ LinkOf(e, q) = LinkOf(e, p)
      BY <3>1, <3>2
    <3>4. q \in 1 .. last
      BY <3>1, <3>3, <1>2
    <3> QED BY <3>1, <3>3, <3>4, <2>1, <2>2
  <2> QED BY <2>3, <2>4 DEF CallsValid
<1>15. \A p \in DOMAIN b.events : ShapeValid(b.events[p]) /\ b.events[p].sequence = p - 1
  BY <1>7, <1>10
<1>16. /\ b.event_ids = [p \in DOMAIN b.events |-> b.events[p].event_id]
       /\ b.first = b.event_ids[1] /\ b.last = b.event_ids[Len(b.event_ids)]
  BY <1>7
<1>17. Valid(b)
  BY <1>9, <1>11, <1>12, <1>13, <1>14, <1>15, <1>16 DEF Valid
<1> QED BY <1>17 DEF b, v

\* round_events, build_raw_round and validate_raw_round: what the worker takes for
\* a whole round is never refused by the protocol.
THEOREM RecoveredRoundsAreValid == TableSpec => []RecoveredIsValid
  BY TableInvariance, CanBeSubmitted, PTL
=============================================================================
