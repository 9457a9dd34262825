---------------------------- MODULE SpoolDelivery ----------------------------
(***************************************************************************)
(* The delivery half of the private spool: hooks that enqueue completed    *)
(* rounds, workers that claim, submit and dispose of them                  *)
(* (runtime/spool.py, runtime/delivery.py), and the core behind HTTP.      *)
(*                                                                         *)
(* One step is one access to the file system or one request: several hook  *)
(* processes share a spool directory without a lock, and any of them can   *)
(* be killed between two accesses.  Every queue move of the code has the   *)
(* same shape, `_write(destination, ...)' and then `source.unlink()', so   *)
(* one `job' per process and the steps Check, Write, Unlink serve them all.*)
(***************************************************************************)
EXTENDS SpoolFiles

CONSTANTS
  Producers,     \* processes or threads that enqueue (hooks)
  Workers,       \* processes or threads that run DeliveryWorker.run_once
  PopLimit,      \* the `limit' of run_once: items claimed per cycle
  MaxEnqueues,   \* bound: how often the model enqueues one round
  MaxCrashes     \* bound: how many processes the model kills

ASSUME DeliveryConstants ==
  /\ Producers \cap Workers = {}
  /\ PopLimit \in Nat \ {0}
  /\ MaxEnqueues \in Nat
  /\ MaxCrashes \in Nat

VARIABLES
  disk,        \* the spool directory: queue -> item name -> file
  pc,          \* what each process does next
  todo,        \* names of the current directory listing still to be visited
  batch,       \* the envelopes pop_ready has claimed, in the worker's memory
  job,         \* the write (and unlink) each process is carrying out
  accepted,    \* history: rounds whose enqueue_ready returned
  delivered,   \* the core's state: rounds it has stored
  enqueues,    \* history: enqueue_ready calls per round
  submits,     \* history: submit_round calls per round
  crashes      \* history: processes killed so far

histVars == <<accepted, delivered, enqueues, submits, crashes>>
vars     == <<disk, pc, todo, batch, job, accepted, delivered, enqueues,
              submits, crashes>>

Procs    == Producers \cup Workers
Empty    == [n \in Rounds |-> NoFile]
NoName   == -1

\* The worker is between two items of its directory listing, or between two
\* envelopes of its batch: where a job returns to when it is done.
Returns == {"idle", "reclaim", "pop", "process"}

\* Where a process is busy with the item its job names.
Naming == {"check", "write", "unlink", "read", "complete", "fail"}

Job == [name : Rounds \cup {NoName}, file : Entry,
        dst : Dirs, src : LiveDirs \cup {"none"}, ret : Returns]

NoJob == [name |-> NoName, file |-> NoFile, dst |-> "ready", src |-> "none",
          ret |-> "idle"]

\* Defect: the attempt is not counted in the envelope.
RecordedUncounted(f) == [f EXCEPT !.due = FALSE]

\* The envelope retry writes back: one attempt more, and a backoff to wait for.
Recorded(f) == [f EXCEPT !.attempts = @ + 1, !.due = FALSE]

\* The history of submissions saturates one above what SubmissionsBounded
\* allows.
MaxSubmits == MaxAttempts * MaxEnqueues + MaxCrashes + 1

TypeOK ==
  /\ disk \in [Dirs -> [Rounds -> Entry]]
  /\ pc \in [Procs -> Returns \cup Naming]
  /\ todo \in [Procs -> SUBSET Rounds]
  /\ batch \in [Procs -> [Rounds -> Entry]]
  /\ job \in [Procs -> Job]
  /\ accepted \subseteq Rounds
  /\ delivered \subseteq Rounds
  /\ enqueues \in [Rounds -> 0 .. MaxEnqueues]
  /\ submits \in [Rounds -> 0 .. MaxSubmits]
  /\ crashes \in 0 .. MaxCrashes

Init ==
  /\ disk = [d \in Dirs |-> Empty]
  /\ pc = [p \in Procs |-> "idle"]
  /\ todo = [p \in Procs |-> {}]
  /\ batch = [p \in Procs |-> Empty]
  /\ job = [p \in Procs |-> NoJob]
  /\ accepted = {}
  /\ delivered = {}
  /\ enqueues = [r \in Rounds |-> 0]
  /\ submits = [r \in Rounds |-> 0]
  /\ crashes = 0

-----------------------------------------------------------------------------
(* One write of the spool, and the removal of the file it replaces. *)

Goto(p, label) == pc' = [pc EXCEPT ![p] = label]

Begin(p, j) ==
  /\ job' = [job EXCEPT ![p] = j]
  /\ Goto(p, "check")

\* The process loses its memory: it is killed, or an exception leaves
\* run_once and the next cycle starts over.
Forgetful(p) ==
  /\ Goto(p, "idle")
  /\ todo' = [todo EXCEPT ![p] = {}]
  /\ batch' = [batch EXCEPT ![p] = Empty]
  /\ job' = [job EXCEPT ![p] = NoJob]

CheckFits(p) ==
  Fits(disk, job[p].dst, job[p].name, job[p].file, job[p].src)

\* _check_limits returns; the temporary file is then written and synced.
CheckPasses(p) ==
  /\ pc[p] = "check"
  /\ CheckFits(p)
  /\ Goto(p, "write")
  /\ UNCHANGED <<disk, todo, batch, job, histVars>>

\* _check_limits raises SpoolFullError, which no caller in run_once handles.
CheckRaises(p) ==
  /\ pc[p] = "check"
  /\ ~CheckFits(p)
  /\ Forgetful(p)
  /\ UNCHANGED <<disk, histVars>>

\* temporary.replace(destination): atomic, whatever was there before.
Write(p) ==
  /\ pc[p] = "write"
  /\ disk' = [disk EXCEPT ![job[p].dst][job[p].name] = job[p].file]
  /\ IF job[p].src = "none"
       THEN Goto(p, job[p].ret) /\ job' = [job EXCEPT ![p] = NoJob]
       ELSE Goto(p, "unlink") /\ job' = job
  /\ accepted' = IF p \in Producers THEN accepted \cup {job[p].name}
                                    ELSE accepted
  /\ UNCHANGED <<todo, batch, delivered, enqueues, submits, crashes>>

\* unlink(missing_ok=True) of the file the write has superseded.
Unlink(p) ==
  /\ pc[p] = "unlink"
  /\ disk' = [disk EXCEPT ![job[p].src][job[p].name] = NoFile]
  /\ Goto(p, job[p].ret)
  /\ job' = [job EXCEPT ![p] = NoJob]
  /\ UNCHANGED <<todo, batch, histVars>>

-----------------------------------------------------------------------------
(* enqueue_ready, called by a hook or by the pending-capture worker. *)

Enqueue(p, r) ==
  /\ pc[p] = "idle"
  /\ enqueues[r] < MaxEnqueues
  /\ enqueues' = [enqueues EXCEPT ![r] = @ + 1]
  /\ Begin(p, [name |-> r, file |-> Fresh, dst |-> "ready", src |-> "none",
               ret |-> "idle"])
  /\ UNCHANGED <<disk, todo, batch, accepted, delivered, submits, crashes>>

-----------------------------------------------------------------------------
(* pop_ready: reclaim expired claims, then claim the first PopLimit names. *)

\* The worker goes on with one item: it reads the claimed file, completes it
\* or fails it, and only the name and the place to return to are known yet.
Hold(w, r, ret, label) ==
  /\ job' = [job EXCEPT ![w] = [NoJob EXCEPT !.name = r, !.ret = ret]]
  /\ Goto(w, label)

StartCycle(w) ==
  /\ pc[w] = "idle"
  /\ todo' = [todo EXCEPT ![w] = Names(disk["inflight"])]
  /\ Goto(w, "reclaim")
  /\ UNCHANGED <<disk, batch, job, histVars>>

Visited(w, r) == todo' = [todo EXCEPT ![w] = @ \ {r}]

\* Defect: a claim without a stamp is taken for a live one.
ExpiredStamped(f) == f.claim = "expired"

\* A claim without a stamp counts as expired.
Expired(f) == f.claim \in {"none", "expired"}

Reclaim(w, r) ==
  /\ pc[w] = "reclaim"
  /\ IsFirst(r, todo[w])
  /\ Visited(w, r)
  /\ LET f == disk["inflight"][r]
     IN  \/ f = NoFile /\ Hold(w, r, "reclaim", "fail")
         \/ /\ f # NoFile
            /\ Expired(f)
            /\ Begin(w, [name |-> r,
                         file |-> [f EXCEPT !.claim = "none", !.due = TRUE],
                         dst |-> "ready", src |-> "inflight",
                         ret |-> "reclaim"])
         \/ f # NoFile /\ ~Expired(f) /\ UNCHANGED <<pc, job>>
  /\ UNCHANGED <<disk, batch, histVars>>

ListReady(w) ==
  /\ pc[w] = "reclaim"
  /\ todo[w] = {}
  /\ todo' = [todo EXCEPT ![w] = First(Names(disk["ready"]), PopLimit)]
  /\ Goto(w, "pop")
  /\ UNCHANGED <<disk, batch, job, histVars>>

\* path.replace(claimed): the file moves over whatever is in `inflight'.  If
\* another worker was faster it is not there, and the item is failed.
Claim(w, r) ==
  /\ pc[w] = "pop"
  /\ IsFirst(r, todo[w])
  /\ Visited(w, r)
  /\ LET f == disk["ready"][r]
     IN  \/ /\ f # NoFile
            /\ disk' = [disk EXCEPT !["ready"][r] = NoFile,
                                    !["inflight"][r] = f]
            /\ Hold(w, r, "pop", "read")
         \/ /\ f = NoFile
            /\ Hold(w, r, "pop", "fail")
            /\ UNCHANGED disk
  /\ UNCHANGED <<batch, histVars>>

\* The claimed file is read back: gone, not yet due, or due.  A due item is
\* stamped and joins the batch.
ReadClaimed(w) ==
  /\ pc[w] = "read"
  /\ LET r == job[w].name
         f == disk["inflight"][r]
     IN  \/ f = NoFile /\ Hold(w, r, "pop", "fail") /\ UNCHANGED batch
         \/ /\ f # NoFile
            /\ ~f.due
            /\ Begin(w, [name |-> r, file |-> f, dst |-> "ready",
                         src |-> "inflight", ret |-> "pop"])
            /\ UNCHANGED batch
         \/ /\ f # NoFile
            /\ f.due
            /\ LET stamped == [f EXCEPT !.claim = "live"]
               IN  /\ Begin(w, [name |-> r, file |-> stamped,
                                dst |-> "inflight", src |-> "none",
                                ret |-> "pop"])
                   /\ batch' = [batch EXCEPT ![w][r] = stamped]
  /\ UNCHANGED <<disk, todo, histVars>>

EndPop(w) ==
  /\ pc[w] = "pop"
  /\ todo[w] = {}
  /\ Goto(w, "process")
  /\ UNCHANGED <<disk, todo, batch, job, histVars>>

-----------------------------------------------------------------------------
(* DeliveryWorker._process, one claimed envelope after the other. *)

Claimed(w) == {r \in Rounds : batch[w][r] # NoFile}

\* The envelope the worker turns to, at the start of one _process call.
Current(w, r) ==
  /\ pc[w] = "process"
  /\ IsFirst(r, Claimed(w))
  /\ batch' = [batch EXCEPT ![w][r] = NoFile]

\* Defect: off by one in the attempt limit.
ExhaustedLate(f) == f.attempts > MaxAttempts

Exhausted(f) == f.attempts + 1 > MaxAttempts

CountSubmit(r) ==
  submits' = [submits EXCEPT ![r] = IF @ < MaxSubmits THEN @ + 1 ELSE @]

\* No request in the envelope, or no attempt left: quarantine, nothing sent.
GiveUp(w, r) ==
  /\ Current(w, r)
  /\ ~Whole(batch[w][r]) \/ Exhausted(batch[w][r])
  /\ Hold(w, r, "process", "fail")
  /\ UNCHANGED <<disk, todo, histVars>>

Submits(w, r) ==
  /\ Current(w, r)
  /\ Whole(batch[w][r])
  /\ ~Exhausted(batch[w][r])
  /\ CountSubmit(r)
  /\ UNCHANGED <<disk, todo, accepted, enqueues, crashes>>

\* The core stores the round and the answer arrives.
SubmitStored(w, r) ==
  /\ Submits(w, r)
  /\ delivered' = delivered \cup {r}
  /\ Hold(w, r, "process", "complete")

\* Defect: retry writes over the claimed file and then unlinks it.
RetryInPlace(w, r) ==
  /\ Submits(w, r)
  /\ UNCHANGED delivered
  /\ Begin(w, [name |-> r, file |-> Recorded(batch[w][r]), dst |-> "inflight",
               src |-> "inflight", ret |-> "process"])

\* No answer, a 5xx or a 401: the attempt is recorded and the item goes back
\* to `ready', keeping its old stamp.  The core may have stored the round.
SubmitUnavailable(w, r) ==
  /\ Submits(w, r)
  /\ \E stored \in BOOLEAN :
       delivered' = IF stored THEN delivered \cup {r} ELSE delivered
  /\ Begin(w, [name |-> r, file |-> Recorded(batch[w][r]), dst |-> "ready",
               src |-> "inflight", ret |-> "process"])

\* Defect: a refused round is completed instead of quarantined.
DropRefused(w, r) ==
  /\ Submits(w, r)
  /\ Hold(w, r, "process", "complete")
  /\ UNCHANGED delivered

\* A 409, another client error or any other exception: quarantine.
SubmitRefused(w, r) ==
  /\ Submits(w, r)
  /\ Hold(w, r, "process", "fail")
  /\ UNCHANGED delivered

\* complete: the item leaves the spool.
Complete(w) ==
  /\ pc[w] = "complete"
  /\ disk' = [disk EXCEPT !["inflight"][job[w].name] = NoFile]
  /\ Goto(w, "process")
  /\ job' = [job EXCEPT ![w] = NoJob]
  /\ UNCHANGED <<todo, batch, histVars>>

\* fail_inflight reads the item from `inflight', else from `ready', and files
\* what it finds in `failed'; an unreadable item is filed without content.
ReadFailing(w) ==
  /\ pc[w] = "fail"
  /\ LET r   == job[w].name
         src == IF disk["inflight"][r] # NoFile THEN "inflight" ELSE "ready"
         f   == disk[src][r]
     IN  Begin(w, [name |-> r, file |-> IF f = NoFile THEN Husk ELSE f,
                   dst |-> "failed", src |-> src, ret |-> job[w].ret])
  /\ UNCHANGED <<disk, todo, batch, histVars>>

EndCycle(w) ==
  /\ pc[w] = "process"
  /\ Claimed(w) = {}
  /\ Goto(w, "idle")
  /\ UNCHANGED <<disk, todo, batch, job, histVars>>

-----------------------------------------------------------------------------
(* Time, and the death of processes. *)

Elapsed(f) == IF f = NoFile THEN f ELSE [f EXCEPT !.due = TRUE]
Aged(f)    == IF f.claim = "live" THEN [f EXCEPT !.claim = "expired"] ELSE f

\* A moment passes for every copy of a round, on disk and in memory alike: both
\* timers are absolute times written into the envelope.
Passes(r, Later(_)) ==
  /\ disk'  = [d \in Dirs |-> [disk[d] EXCEPT ![r] = Later(@)]]
  /\ batch' = [p \in Procs |-> [batch[p] EXCEPT ![r] = Later(@)]]
  /\ job'   = [p \in Procs |-> IF job[p].name = r
                                 THEN [job[p] EXCEPT !.file = Later(@)]
                                 ELSE job[p]]

\* next_attempt_at of a waiting item passes.
BackoffElapses(r) ==
  /\ \E d \in LiveDirs : disk[d][r] # NoFile /\ ~disk[d][r].due
  /\ Passes(r, Elapsed)
  /\ UNCHANGED <<pc, todo, histVars>>

\* A claim stamp becomes older than inflight_ttl_seconds.  Nothing renews it.
ClaimExpires(r) ==
  /\ \E d \in LiveDirs : disk[d][r].claim = "live"
  /\ Passes(r, Aged)
  /\ UNCHANGED <<pc, todo, histVars>>

Crash(p) ==
  /\ pc[p] # "idle"
  /\ crashes < MaxCrashes
  /\ crashes' = crashes + 1
  /\ Forgetful(p)
  /\ UNCHANGED <<disk, accepted, delivered, enqueues, submits>>

-----------------------------------------------------------------------------
Producer(p) == \E r \in Rounds : Enqueue(p, r)

\* What any process does inside FileSpool._write and after it.
WriteStep(p) == CheckPasses(p) \/ CheckRaises(p) \/ Write(p) \/ Unlink(p)

PopStep(w) ==
  \/ StartCycle(w) \/ ListReady(w) \/ ReadClaimed(w) \/ EndPop(w)
  \/ \E r \in Rounds : Reclaim(w, r) \/ Claim(w, r)

ProcessStep(w) ==
  \/ \E r \in Rounds : \/ GiveUp(w, r) \/ SubmitStored(w, r)
                       \/ SubmitUnavailable(w, r) \/ SubmitRefused(w, r)
  \/ Complete(w) \/ ReadFailing(w) \/ EndCycle(w)

WorkerStep(w) == WriteStep(w) \/ PopStep(w) \/ ProcessStep(w)

Time == \E r \in Rounds : BackoffElapses(r) \/ ClaimExpires(r)

Next ==
  \/ \E p \in Producers : Producer(p) \/ WriteStep(p)
  \/ \E w \in Workers : WorkerStep(w)
  \/ Time
  \/ \E p \in Procs : Crash(p)

Spec == Init /\ [][Next]_vars

\* The worker loop polls for ever and clocks advance; hooks, the answers of
\* the core and crashes are not forced.
Fairness ==
  /\ \A w \in Workers : WF_vars(WorkerStep(w))
  /\ \A r \in Rounds : WF_vars(BackoffElapses(r)) /\ WF_vars(ClaimExpires(r))

FairSpec == Spec /\ Fairness

-----------------------------------------------------------------------------
(* Properties. *)

Stored(r, d) == Whole(disk[d][r])

\* A round the spool has accepted is still there in full - waiting, claimed
\* or in quarantine - unless the core has stored it: no interleaving of the
\* queue moves, crash or expired claim loses its content.
NoRoundLost ==
  \A r \in accepted : r \in delivered \/ \E d \in Dirs : Stored(r, d)

\* Each enqueue_ready buys at most max_attempts submissions, and a crash at
\* most one more: the counter in the file is what bounds the retries, so it
\* must survive claims, backoff, reclaims and re-enqueues.
SubmissionsBounded ==
  \A r \in Rounds : submits[r] <= MaxAttempts * enqueues[r] + crashes

\* The number of rounds in the live queues never exceeds max_files by more
\* than one for each further producer that passed the test before another
\* wrote, although the limit is tested before the write and the moves of the
\* queue go on in between: with one producer, it never exceeds max_files.
QueueWithinLimit ==
  Cardinality(Names(disk["ready"]) \cup Names(disk["inflight"]))
    <= MaxFiles + Cardinality(Producers) - 1

Settled(r) == r \in delivered \/ Stored(r, "failed")

LiveFiles == Cardinality(Names(disk["ready"])) + Cardinality(Names(disk["inflight"]))

\* Every accepted round is eventually stored by the core or put in
\* quarantine in full, however often the core is unavailable - as long as the
\* live queues, repeated files included, never grow past the limit.
AcceptedSettles ==
  [](LiveFiles <= MaxFiles) => \A r \in Rounds : r \in accepted ~> Settled(r)

-----------------------------------------------------------------------------
(* The promise of RoundQueue, kept by the files. *)

Held == {r \in Rounds : Stored(r, "ready") \/ Stored(r, "inflight")}

Queue == INSTANCE RoundQueue WITH
           held        <- Held,
           delivered   <- delivered,
           quarantined <- {r \in Rounds : Stored(r, "failed")}

\* A round leaves the live queues only after the core stored it or its full
\* content was filed in quarantine, and nothing but a live round is submitted
\* or quarantined.
ImplementsQueue == Queue!Spec
=============================================================================
