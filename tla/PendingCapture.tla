--------------------------- MODULE PendingCapture ---------------------------
(***************************************************************************)
(* Rounds that were captured before Hermes committed their final message:  *)
(* hooks that deliver or defer a round (HermesRoundCapture), workers that  *)
(* promote a deferred one when state.db shows its final message            *)
(* (PendingCaptureWorker), and the pending-capture half of runtime/spool.py.*)
(*                                                                         *)
(* Hermes processes of one profile share the spool, so there may be several*)
(* workers.  Nothing claims a pending item: a worker promotes what it read *)
(* some steps ago.  The limit test and the write it guards are one step    *)
(* here; SpoolDelivery takes them apart.  Of the delivery that follows     *)
(* only its effect is kept: an item leaves the live queues.                *)
(***************************************************************************)
EXTENDS Integers, FiniteSets

CONSTANTS
  Captures,      \* rounds; a round_id and its idempotency key name one file each
  Workers,       \* threads that run PendingCaptureWorker.run_once
  MaxAttempts,   \* PendingCaptureWorker.max_attempts
  MaxFiles, MaxBytes,                       \* limits of the FileSpool
  EvidenceBytes, NoteBytes, RoundBytes,     \* a pending item, its last_error,
                                            \* and an envelope in the ready queue
  MaxCaptures,   \* bound: how often the hooks hand in one round
  MaxCrashes     \* bound: how many workers are killed

ASSUME PendingConstants ==
  /\ {MaxAttempts, MaxFiles, MaxBytes} \subseteq Nat \ {0}
  /\ {EvidenceBytes, NoteBytes, RoundBytes, MaxCaptures, MaxCrashes} \subseteq Nat
  /\ IsFiniteSet(Captures)

VARIABLES
  pending,     \* pending-capture: round -> item
  ready,       \* rounds in the ready or inflight queue
  failed,      \* failed/pending-<name>: "none", "husk" or "evidence"
  final,       \* rounds whose final message state.db shows
  flawed,      \* rounds whose stored events build_raw_round refuses
  batch,       \* worker -> the items pop_pending returned and are still to do
  todo,        \* worker -> names of its directory listing still to be read
  pc, job,     \* worker -> what it does next, and to which item
  captured,    \* history: rounds a hook was told are in the spool
  delivered,   \* history: rounds the core has
  handed,      \* history: how often each round was handed in
  promotions,  \* history: how often a worker put it in the ready queue
  crashes      \* history: workers killed

vars == <<pending, ready, failed, final, flawed, batch, todo, pc, job,
          captured, delivered, handed, promotions, crashes>>
spool == <<pending, ready, failed>>
hook  == <<captured, handed>>
world == <<final, flawed, delivered>>

NoItem == [there |-> FALSE, attempts |-> 0, due |-> FALSE, noted |-> FALSE]

\* enqueue_pending replaces the delivery record, with a deadline_at if it had
\* one: no item of the queue has a deadline, and _deadline returns None.
Deferred == [there |-> TRUE, attempts |-> 0, due |-> TRUE, noted |-> FALSE]

\* Attempts above the limit are all alike.
Items == [there : BOOLEAN, attempts : 0 .. MaxAttempts, due : BOOLEAN,
          noted : BOOLEAN]

\* promote, retry and fail are about to write, done to unlink the item.
Steps == {"idle", "list", "work", "promote", "retry", "read", "fail", "done"}

NoJob == [name |-> {}, item |-> NoItem, body |-> "none", ret |-> "idle"]
Jobs  == [name : SUBSET Captures, item : Items,
          body : {"none", "husk", "evidence"}, ret : {"idle", "list", "work"}]

\* One more than PromotionsBounded allows.
MaxPromotions == MaxCaptures + MaxCrashes + 1

TypeOK ==
  /\ pending \in [Captures -> Items]
  /\ failed \in [Captures -> {"none", "husk", "evidence"}]
  /\ {ready, final, flawed, captured, delivered} \subseteq SUBSET Captures
  /\ batch \in [Workers -> [Captures -> Items]]
  /\ todo \in [Workers -> SUBSET Captures]
  /\ pc \in [Workers -> Steps]
  /\ job \in [Workers -> Jobs]
  /\ handed \in [Captures -> 0 .. MaxCaptures]
  /\ promotions \in [Captures -> 0 .. MaxPromotions]
  /\ crashes \in 0 .. MaxCrashes

Nothing == [r \in Captures |-> NoItem]

Init ==
  /\ pending = Nothing
  /\ failed = [r \in Captures |-> "none"]
  /\ ready = {} /\ final = {} /\ captured = {} /\ delivered = {}
  /\ flawed \in SUBSET Captures
  /\ batch = [w \in Workers |-> Nothing]
  /\ todo = [w \in Workers |-> {}]
  /\ pc = [w \in Workers |-> "idle"]
  /\ job = [w \in Workers |-> NoJob]
  /\ handed = [r \in Captures |-> 0]
  /\ promotions = [r \in Captures |-> 0]
  /\ crashes = 0

-----------------------------------------------------------------------------
(* Limits: the live queues, without the file that is replaced or superseded. *)

There(dir) == {r \in Captures : dir[r].there}

\* Pending items with and without a last_error, and ready envelopes, when the
\* pending items `ps' and the ready ones `rs' are left out.
Rest(ps, rs) ==
  LET items == There(pending) \ ps
      noted == {r \in items : pending[r].noted}
      rest  == ready \ rs
  IN  [files |-> Cardinality(items) + Cardinality(rest),
       bytes |-> EvidenceBytes * Cardinality(items)
                 + NoteBytes * Cardinality(noted)
                 + RoundBytes * Cardinality(rest)]

Room(rest, size) ==
  rest.files + 1 <= MaxFiles /\ rest.bytes + size <= MaxBytes

Size(item) == EvidenceBytes + (IF item.noted THEN NoteBytes ELSE 0)

PendingFits(r, item) == Room(Rest({r}, {}), Size(item))

\* Defect: promotion counts the item it replaces.
ReadyFitsBeside(r) == Room(Rest({}, {r}), RoundBytes)

\* Promotion discounts the item it is about to remove.
ReadyFits(r) == Room(Rest({r}, {r}), RoundBytes)

\* A quarantined item is no file of the live queues, but is tested like one.
FailedFits(r) ==
  LET old == IF failed[r] = "none" THEN [files |-> 0, bytes |-> 0]
             ELSE [files |-> 1, bytes |-> EvidenceBytes]
      all == Rest({r}, {})
  IN  Room([files |-> all.files - old.files, bytes |-> all.bytes - old.bytes],
           EvidenceBytes)

-----------------------------------------------------------------------------
(* capture_or_defer, and what on_post_llm_call does when it raises. *)

HandIn(r) ==
  /\ handed[r] < MaxCaptures
  /\ handed' = [handed EXCEPT ![r] = @ + 1]
  /\ UNCHANGED <<failed, batch, todo, pc, job, world, promotions, crashes>>

Keep(r) == captured' = captured \cup {r}

\* enqueue_pending; a round the full spool refuses is gone, and logged.
DeferOrLose(r) ==
  /\ UNCHANGED ready
  /\ IF PendingFits(r, Deferred)
       THEN pending' = [pending EXCEPT ![r] = Deferred] /\ Keep(r)
       ELSE UNCHANGED <<pending, captured>>

\* No event of the round is final yet (or a new turn or the end of the
\* session defers it unasked).
Defer(r) == HandIn(r) /\ DeferOrLose(r)

\* The final message is among the events: the round is built and goes to the
\* ready queue, and to pending-capture if it cannot be built or finds no room.
Capture(r) ==
  /\ HandIn(r)
  /\ IF r \notin flawed /\ Room(Rest({}, {r}), RoundBytes)
       THEN ready' = ready \cup {r} /\ Keep(r) /\ UNCHANGED pending
       ELSE DeferOrLose(r)

-----------------------------------------------------------------------------
(* pop_pending. *)

Goto(w, label) == pc' = [pc EXCEPT ![w] = label]

Forgetful(w) ==
  /\ Goto(w, "idle")
  /\ batch' = [batch EXCEPT ![w] = Nothing]
  /\ todo' = [todo EXCEPT ![w] = {}]
  /\ job' = [job EXCEPT ![w] = NoJob]

List(w) ==
  /\ pc[w] = "idle"
  /\ Goto(w, "list")
  /\ todo' = [todo EXCEPT ![w] = There(pending)]
  /\ UNCHANGED <<spool, batch, job, hook, world, promotions, crashes>>

\* fail_pending begins with a look at its source.
Fail(w, r, ret) ==
  /\ Goto(w, "read")
  /\ job' = [job EXCEPT ![w] = [NoJob EXCEPT !.name = {r}, !.ret = ret]]

\* A listed file that is gone when it is read counts as invalid JSON.
ReadItem(w, r) ==
  /\ pc[w] = "list"
  /\ r \in todo[w]
  /\ todo' = [todo EXCEPT ![w] = @ \ {r}]
  /\ IF pending[r].there
       THEN /\ batch' = IF pending[r].due THEN [batch EXCEPT ![w][r] = pending[r]]
                                          ELSE batch
            /\ UNCHANGED <<pc, job>>
       ELSE Fail(w, r, "list") /\ UNCHANGED batch
  /\ UNCHANGED <<spool, hook, world, promotions, crashes>>

EndList(w) ==
  /\ pc[w] = "list"
  /\ todo[w] = {}
  /\ Goto(w, IF There(batch[w]) = {} THEN "idle" ELSE "work")
  /\ UNCHANGED <<spool, batch, todo, job, hook, world, promotions, crashes>>

-----------------------------------------------------------------------------
(* run_once, one popped item after the other. *)

Counted(item) ==
  [item EXCEPT !.attempts = IF @ < MaxAttempts THEN @ + 1 ELSE @]

\* A worker takes an item of its batch, in the order they are due (which the
\* model leaves open), and counts the attempt in memory.
Take(w, r) ==
  /\ pc[w] = "work"
  /\ batch[w][r].there
  /\ batch' = [batch EXCEPT ![w][r] = NoItem]

Carry(w, r, step, item) ==
  /\ Goto(w, step)
  /\ job' = [job EXCEPT ![w] = [name |-> {r}, item |-> item, body |-> "none",
                                ret |-> "work"]]

\* What retry writes: the reason, and a next_attempt_at in the future.
Waiting(item) == [Counted(item) EXCEPT !.due = FALSE, !.noted = TRUE]

\* The reader finds no range or no final message, or raises (state.db locked):
\* back to the queue.  until_deadline exempts the item from max_attempts.
Unresolved(w, r) ==
  /\ Take(w, r)
  /\ Carry(w, r, "retry", Waiting(batch[w][r]))
  /\ UNCHANGED <<spool, todo, hook, world, promotions, crashes>>

\* build_raw_round refuses the events: quarantine.
Refused(w, r) ==
  /\ Take(w, r)
  /\ r \in final \cap flawed
  /\ Fail(w, r, "work")
  /\ UNCHANGED <<spool, todo, hook, world, promotions, crashes>>

Resolved(w, r) ==
  /\ Take(w, r)
  /\ r \in final \ flawed
  /\ Carry(w, r, "promote", Counted(batch[w][r]))
  /\ UNCHANGED <<spool, todo, hook, world, promotions, crashes>>

Busy(w, step, r) == pc[w] = step /\ job[w].name = {r}

\* Defect: the promoted item is left for the next cycle.
PromoteUnremoved(w, r) ==
  /\ Busy(w, "promote", r)
  /\ ReadyFits(r)
  /\ ready' = ready \cup {r}
  /\ promotions' = [promotions EXCEPT
                      ![r] = IF @ < MaxPromotions THEN @ + 1 ELSE @]
  /\ Goto(w, "work")
  /\ job' = [job EXCEPT ![w] = NoJob]
  /\ UNCHANGED <<pending, failed, batch, todo, hook, world, crashes>>

\* enqueue_ready, then complete_pending.
Promote(w, r) ==
  /\ Busy(w, "promote", r)
  /\ ReadyFits(r)
  /\ ready' = ready \cup {r}
  /\ promotions' = [promotions EXCEPT
                      ![r] = IF @ < MaxPromotions THEN @ + 1 ELSE @]
  /\ Goto(w, "done")
  /\ UNCHANGED <<pending, failed, batch, todo, job, hook, world, crashes>>

\* The ready queue is full: one more try, until max_attempts.
PromoteFull(w, r) ==
  /\ Busy(w, "promote", r)
  /\ ~ReadyFits(r)
  /\ IF job[w].item.attempts >= MaxAttempts
       THEN Fail(w, r, "work")
       ELSE Carry(w, r, "retry", [job[w].item EXCEPT !.due = FALSE, !.noted = TRUE])
  /\ UNCHANGED <<spool, batch, todo, hook, world, promotions, crashes>>

\* retry_pending writes what the worker has in memory, whether or not the item
\* is still there.
Retry(w, r) ==
  /\ Busy(w, "retry", r)
  /\ PendingFits(r, job[w].item)
  /\ pending' = [pending EXCEPT ![r] = job[w].item]
  /\ Goto(w, "work")
  /\ job' = [job EXCEPT ![w] = NoJob]
  /\ UNCHANGED <<ready, failed, batch, todo, hook, world, promotions, crashes>>

\* Defect: the item is removed before it is in quarantine.
ReadSourceMoved(w, r) ==
  /\ Busy(w, "read", r)
  /\ Goto(w, "fail")
  /\ job' = [job EXCEPT ![w].body =
               IF pending[r].there THEN "evidence" ELSE "husk"]
  /\ pending' = [pending EXCEPT ![r] = NoItem]
  /\ UNCHANGED <<ready, failed, batch, todo, hook, world, promotions, crashes>>

\* fail_pending: a source that is not there leaves only the reason.
ReadSource(w, r) ==
  /\ Busy(w, "read", r)
  /\ Goto(w, "fail")
  /\ job' = [job EXCEPT ![w].body =
               IF pending[r].there THEN "evidence" ELSE "husk"]
  /\ UNCHANGED <<spool, batch, todo, hook, world, promotions, crashes>>

Quarantine(w, r) ==
  /\ Busy(w, "fail", r)
  /\ FailedFits(r)
  /\ failed' = [failed EXCEPT ![r] = job[w].body]
  /\ Goto(w, "done")
  /\ UNCHANGED <<pending, ready, batch, todo, job, hook, world, promotions, crashes>>

\* SpoolFullError from retry_pending or fail_pending leaves run_once: the rest
\* of the batch waits for the next cycle.
Raise(w, r) ==
  /\ \/ Busy(w, "retry", r) /\ ~PendingFits(r, job[w].item)
     \/ Busy(w, "fail", r) /\ ~FailedFits(r)
  /\ Forgetful(w)
  /\ UNCHANGED <<spool, hook, world, promotions, crashes>>

\* unlink(missing_ok=True) of the pending item.
RemoveItem(w, r) ==
  /\ Busy(w, "done", r)
  /\ pending' = [pending EXCEPT ![r] = NoItem]
  /\ Goto(w, job[w].ret)
  /\ job' = [job EXCEPT ![w] = NoJob]
  /\ UNCHANGED <<ready, failed, batch, todo, hook, world, promotions, crashes>>

EndBatch(w) ==
  /\ pc[w] = "work"
  /\ There(batch[w]) = {}
  /\ Goto(w, "idle")
  /\ UNCHANGED <<spool, batch, todo, job, hook, world, promotions, crashes>>

-----------------------------------------------------------------------------
(* The rest of the world. *)

\* Hermes commits the final message of a round.
Commit(r) ==
  /\ r \notin final
  /\ final' = final \cup {r}
  /\ UNCHANGED <<spool, flawed, delivered, batch, todo, pc, job, hook,
                 promotions, crashes>>

\* The delivery worker empties the ready queue.
Deliver(r) ==
  /\ r \in ready
  /\ ready' = ready \ {r}
  /\ delivered' = delivered \cup {r}
  /\ UNCHANGED <<pending, failed, final, flawed, batch, todo, pc, job, hook,
                 promotions, crashes>>

\* next_attempt_at passes.
BackoffElapses(r) ==
  /\ pending[r].there /\ ~pending[r].due
  /\ pending' = [pending EXCEPT ![r].due = TRUE]
  /\ UNCHANGED <<ready, failed, world, batch, todo, pc, job, hook, promotions,
                 crashes>>

Kill(w) ==
  /\ pc[w] # "idle"
  /\ crashes < MaxCrashes
  /\ crashes' = crashes + 1
  /\ Forgetful(w)
  /\ UNCHANGED <<spool, hook, world, promotions>>

WorkerStep(w) ==
  \/ List(w) \/ EndList(w) \/ EndBatch(w)
  \/ \E r \in Captures :
       \/ ReadItem(w, r) \/ Unresolved(w, r) \/ Refused(w, r) \/ Resolved(w, r)
       \/ Promote(w, r) \/ PromoteFull(w, r) \/ Retry(w, r) \/ ReadSource(w, r)
       \/ Quarantine(w, r) \/ Raise(w, r) \/ RemoveItem(w, r)

Next ==
  \/ \E r \in Captures :
       Defer(r) \/ Capture(r) \/ Commit(r) \/ Deliver(r) \/ BackoffElapses(r)
  \/ \E w \in Workers : WorkerStep(w) \/ Kill(w)

Spec == Init /\ [][Next]_vars

\* The loop polls without end, backoffs pass and the core takes rounds.  An item
\* that is taken again and again is resolved some time: state.db is not locked
\* at every attempt.
Fairness ==
  /\ \A w \in Workers : WF_vars(WorkerStep(w))
  /\ \A w \in Workers, r \in Captures :
       SF_vars(Resolved(w, r)) /\ SF_vars(Refused(w, r))
  /\ \A r \in Captures : WF_vars(BackoffElapses(r)) /\ WF_vars(Deliver(r))

FairSpec == Spec /\ Fairness

-----------------------------------------------------------------------------
(* Properties. *)

\* A round a hook was told is in the spool stays there in full, waiting, ready
\* or in quarantine, until the core has it: through promotion, refusal, a full
\* ready queue and a worker killed between any two of its steps.
CaptureKept ==
  \A r \in captured :
    pending[r].there \/ r \in ready \cup delivered \/ failed[r] = "evidence"

\* One hand-in is promoted once, and once more for each worker killed before it
\* could remove the item (the core knows the repeated round by its key).
PromotionsBounded ==
  \A r \in Captures : promotions[r] <= handed[r] + crashes

Quiet(r) == ~pending[r].there

\* A deferred round whose final message was committed leaves the pending queue.
CommittedSettles ==
  \A r \in Captures : (r \in final /\ pending[r].there) ~> Quiet(r)

\* If it can be built, it gets its place in the ready queue: a spool that had
\* room for the item has room for its round, unless a killed worker left a
\* file too many.
CommittedPromoted ==
  \A r \in Captures :
    (r \in final \ flawed /\ pending[r].there)
      ~> (r \in ready \cup delivered \/ crashes > 0)

=============================================================================
