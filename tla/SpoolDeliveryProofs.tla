------------------------- MODULE SpoolDeliveryProofs -------------------------
(***************************************************************************)
(* Theorems about SpoolDelivery for every number of rounds, producers,     *)
(* attempts and crashes and every limit.  TypeOK holds of any number of    *)
(* workers; that no round is lost holds when one worker serves the spool.  *)
(***************************************************************************)
EXTENDS SpoolDelivery, FiniteSetTheorems, TLAPS

JobNamed == \A p \in Procs : pc[p] \in Naming => job[p].name \in Rounds

\* A producer only ever writes a fresh envelope into `ready'.
ProducerOK ==
  \A p \in Producers :
    /\ pc[p] \in {"idle", "check", "write"}
    /\ job[p].ret = "idle"
    /\ pc[p] # "idle" => job[p].dst = "ready" /\ job[p].src = "none"

\* Whatever a live queue holds is a whole round, and so is whatever a process
\* is about to write.
LiveWhole == \A d \in LiveDirs : \A r \in Rounds :
               disk[d][r] = NoFile \/ Whole(disk[d][r])

JobWhole == \A p \in Procs :
              pc[p] \in {"check", "write", "unlink"} => Whole(job[p].file)

InFlight(r) == disk["inflight"][r] # NoFile

\* An item in the worker's batch has its file in `inflight'.
BatchInFlight == \A w \in Workers : \A r \in Rounds :
                   batch[w][r] # NoFile => InFlight(r)

\* The names the worker has still to visit are there, and are not yet
\* claimed.
Listed(w) ==
  /\ pc[w] \in {"idle", "reclaim"} \/ (pc[w] \in Naming /\ job[w].ret = "reclaim")
       => Claimed(w) = {}
  /\ pc[w] = "reclaim" \/ (pc[w] \in Naming /\ job[w].ret = "reclaim")
       => \A r \in todo[w] : InFlight(r)
  /\ pc[w] = "pop" \/ (pc[w] \in Naming /\ job[w].ret = "pop")
       => \A r \in todo[w] : disk["ready"][r] # NoFile /\ r \notin Claimed(w)

\* The item at hand: where its file is, and that nothing else in the worker's
\* memory names it.
AtHand(w) ==
  LET j == job[w]
  IN  pc[w] \in Naming =>
        /\ j.ret # "idle"
        /\ j.ret \in {"reclaim", "pop"} => j.name \notin todo[w]
        /\ pc[w] \in {"read", "complete", "fail", "check", "write"}
             => InFlight(j.name)
        /\ pc[w] = "read" => j.ret = "pop"
        /\ pc[w] \in {"complete", "fail"} => j.ret = "process"
        /\ pc[w] = "complete" => j.name \in delivered
        /\ pc[w] \in {"check", "write"} /\ j.src = "none"
             => j.dst = "inflight" /\ j.ret = "pop"
        /\ ~(pc[w] \in {"check", "write"} /\ j.src = "none")
             => batch[w][j.name] = NoFile
        /\ pc[w] \in {"check", "write", "unlink"} /\ j.src # "none"
             => j.src = "inflight" /\ j.dst \in {"ready", "failed"}
        /\ pc[w] = "unlink"
             => j.src # "none" /\ Whole(disk[j.dst][j.name])

SingleInv ==
  /\ TypeOK
  /\ JobNamed
  /\ ProducerOK
  /\ LiveWhole
  /\ JobWhole
  /\ BatchInFlight
  /\ \A w \in Workers : Listed(w) /\ AtHand(w)
  /\ NoRoundLost

SingleWorker == \A v, w \in Workers : v = w

-----------------------------------------------------------------------------
(* Files and jobs. *)

LEMMA FileFacts ==
  /\ NoFile \notin File
  /\ NoFile \in Entry /\ Fresh \in Entry /\ Husk \in Entry
  /\ Whole(Fresh) /\ ~Whole(NoFile)
  /\ NoJob \in Job
  /\ Empty \in [Rounds -> Entry]
BY SpoolConstants DEF File, Entry, NoFile, Fresh, Husk, Whole, NoJob, Job,
   Empty, Dirs, LiveDirs, Returns

LEMMA FileBody ==
  ASSUME NEW f \in Entry
  PROVE  /\ f = NoFile <=> f.body = "none"
         /\ f # NoFile => f \in File
BY DEF Entry, File, NoFile

\* Changing the claim, the due flag or the attempts of a file leaves its body.
LEMMA StampFacts ==
  ASSUME NEW f \in File, NEW c \in {"none", "live", "expired"},
         NEW d \in BOOLEAN
  PROVE  /\ [f EXCEPT !.claim = c] \in File
         /\ [f EXCEPT !.claim = c].body = f.body
         /\ [f EXCEPT !.due = d] \in File
         /\ [f EXCEPT !.due = d].body = f.body
         /\ [f EXCEPT !.claim = c, !.due = d] \in File
         /\ [f EXCEPT !.claim = c, !.due = d].body = f.body
BY DEF File

\* A moment passing changes neither the type of a file nor whether it is there
\* or whole.
LEMMA LaterFacts ==
  ASSUME NEW f \in Entry
  PROVE  /\ Elapsed(f) \in Entry /\ Aged(f) \in Entry
         /\ Elapsed(f) = NoFile <=> f = NoFile
         /\ Aged(f) = NoFile <=> f = NoFile
         /\ Whole(Elapsed(f)) <=> Whole(f)
         /\ Whole(Aged(f)) <=> Whole(f)
<1>1. CASE f = NoFile
  <2>1. NoFile.claim # "live"
    BY DEF NoFile
  <2> QED BY <1>1, <2>1 DEF Elapsed, Aged
<1>2. CASE f # NoFile
  <2>1. f \in File /\ Elapsed(f) = [f EXCEPT !.due = TRUE]
    BY <1>2, FileBody DEF Elapsed
  <2>2. Elapsed(f) \in File /\ Elapsed(f).body = f.body
    BY <2>1, StampFacts
  <2>3. Aged(f) \in File /\ Aged(f).body = f.body
    BY <2>1, StampFacts DEF Aged
  <2>4. f.body # "none"
    BY <1>2, FileBody
  <2> QED BY <1>2, <2>2, <2>3, <2>4, FileBody DEF Whole, Entry
<1> QED BY <1>1, <1>2

\* The envelopes a worker derives from a file it has read.
LEMMA DerivedFacts ==
  ASSUME NEW f \in Entry, f # NoFile
  PROVE  /\ [f EXCEPT !.claim = "live"] \in Entry
         /\ [f EXCEPT !.claim = "live"] # NoFile
         /\ Whole([f EXCEPT !.claim = "live"]) <=> Whole(f)
         /\ [f EXCEPT !.claim = "none", !.due = TRUE] \in Entry
         /\ Whole([f EXCEPT !.claim = "none", !.due = TRUE]) <=> Whole(f)
         /\ ~Exhausted(f) => Recorded(f) \in Entry
         /\ Whole(Recorded(f)) <=> Whole(f)
<1>1. f \in File /\ f.body # "none"
  BY FileBody
<1>2. /\ ~Exhausted(f) => Recorded(f) \in File
      /\ Recorded(f).body = f.body
  <2>1. f.attempts \in 0 .. MaxAttempts
    BY <1>1 DEF File
  <2>2. ~Exhausted(f) => f.attempts + 1 \in 0 .. MaxAttempts
    BY <2>1, SpoolConstants DEF Exhausted
  <2> QED BY <1>1, <2>2 DEF Recorded, File
<1>3. /\ [f EXCEPT !.claim = "live"] \in File
      /\ [f EXCEPT !.claim = "live"].body = f.body
      /\ [f EXCEPT !.claim = "none", !.due = TRUE] \in File
      /\ [f EXCEPT !.claim = "none", !.due = TRUE].body = f.body
  BY <1>1, StampFacts
<1> QED BY <1>1, <1>2, <1>3, FileBody DEF Whole, Entry

LEMMA ProcFacts ==
  /\ Producers \subseteq Procs /\ Workers \subseteq Procs
  /\ \A p \in Producers : p \notin Workers
BY DeliveryConstants DEF Procs

LEMMA MaxSubmitsNat == MaxSubmits \in Nat
BY SpoolConstants, DeliveryConstants DEF MaxSubmits

-----------------------------------------------------------------------------
(* Type correctness. *)

TypeInv == TypeOK /\ JobNamed

LEMMA TypeInit == Init => TypeInv
BY FileFacts, MaxSubmitsNat, DeliveryConstants
   DEF Init, TypeInv, TypeOK, JobNamed, Returns, Naming, Empty

LEMMA TypeWriteStep ==
  ASSUME TypeInv, NEW p \in Procs, WriteStep(p)
  PROVE  TypeInv'
<1> USE FileFacts DEF TypeInv, Naming, Returns
<1>1. CASE CheckPasses(p)
  BY <1>1 DEF CheckPasses, Goto, histVars, TypeOK, JobNamed
<1>2. CASE CheckRaises(p)
  BY <1>2 DEF CheckRaises, Forgetful, Goto, histVars, TypeOK, JobNamed
<1>3. CASE Write(p)
  <2>1. /\ job[p] \in Job /\ job[p].name \in Rounds
        /\ job[p].file \in Entry /\ job[p].dst \in Dirs
        /\ job[p].ret \in Returns
    BY <1>3 DEF Write, TypeOK, JobNamed, Job
  <2>2. disk' \in [Dirs -> [Rounds -> Entry]]
    BY <1>3, <2>1 DEF Write, TypeOK
  <2>3. /\ pc' \in [Procs -> Returns \cup Naming]
        /\ job' \in [Procs -> Job]
        /\ accepted' \subseteq Rounds
    BY <1>3, <2>1 DEF Write, Goto, TypeOK
  <2>4. JobNamed'
    BY <1>3, <2>1 DEF Write, Goto, TypeOK, JobNamed
  <2> QED BY <1>3, <2>2, <2>3, <2>4 DEF Write, TypeOK
<1>4. CASE Unlink(p)
  BY <1>4 DEF Unlink, Goto, histVars, TypeOK, JobNamed, Job
<1> QED BY <1>1, <1>2, <1>3, <1>4 DEF WriteStep

LEMMA TypeEnqueue ==
  ASSUME TypeInv, NEW p \in Producers, NEW r \in Rounds, Enqueue(p, r)
  PROVE  TypeInv'
<1>1. [name |-> r, file |-> Fresh, dst |-> "ready", src |-> "none",
       ret |-> "idle"] \in Job
  BY FileFacts DEF Job, Dirs, Returns
<1>2. enqueues' \in [Rounds -> 0 .. MaxEnqueues]
  BY DeliveryConstants DEF Enqueue, TypeInv, TypeOK
<1> QED BY <1>1, <1>2, ProcFacts
        DEF Enqueue, Begin, Goto, TypeInv, TypeOK, JobNamed, Naming

\* The jobs a worker holds or begins are well formed.
LEMMA JobFacts ==
  ASSUME NEW r \in Rounds, NEW f \in Entry, NEW dst \in Dirs,
         NEW src \in LiveDirs \cup {"none"}, NEW ret \in Returns
  PROVE  /\ [name |-> r, file |-> f, dst |-> dst, src |-> src, ret |-> ret]
              \in Job
BY DEF Job

LEMMA HoldFacts ==
  ASSUME NEW r \in Rounds, NEW ret \in Returns
  PROVE  /\ [NoJob EXCEPT !.name = r, !.ret = ret] \in Job
         /\ [NoJob EXCEPT !.name = r, !.ret = ret].name = r
         /\ [NoJob EXCEPT !.name = r, !.ret = ret].ret = ret
BY FileFacts DEF Job, NoJob

LEMMA TypeHold ==
  ASSUME TypeInv, NEW w \in Workers, NEW r \in Rounds, NEW ret \in Returns,
         NEW label \in Naming, Hold(w, r, ret, label)
  PROVE  /\ pc' \in [Procs -> Returns \cup Naming]
         /\ job' \in [Procs -> Job]
         /\ JobNamed'
<1> DEFINE j == [NoJob EXCEPT !.name = r, !.ret = ret]
<1>1. j \in Job /\ j.name = r
  BY HoldFacts
<1>2. w \in Procs /\ job' = [job EXCEPT ![w] = j] /\ pc' = [pc EXCEPT ![w] = label]
  BY ProcFacts DEF Hold, Goto
<1> HIDE DEF j
<1> QED BY <1>1, <1>2 DEF TypeInv, TypeOK, JobNamed

LEMMA TypeBegin ==
  ASSUME TypeInv, NEW w \in Procs, NEW j \in Job, j.name \in Rounds,
         Begin(w, j)
  PROVE  /\ pc' \in [Procs -> Returns \cup Naming]
         /\ job' \in [Procs -> Job]
         /\ JobNamed'
BY DEF Begin, Goto, TypeInv, TypeOK, JobNamed, Naming

LEMMA TypePopStep ==
  ASSUME TypeInv, NEW w \in Workers, PopStep(w)
  PROVE  TypeInv'
<1> USE FileFacts, ProcFacts DEF TypeInv
<1>1. CASE StartCycle(w)
  BY <1>1 DEF StartCycle, Names, Goto, histVars, TypeOK, JobNamed, Naming,
     Returns
<1>2. CASE ListReady(w)
  BY <1>2 DEF ListReady, Names, First, Goto, histVars, TypeOK, JobNamed,
     Naming, Returns
<1>3. CASE EndPop(w)
  BY <1>3 DEF EndPop, Goto, histVars, TypeOK, JobNamed, Naming, Returns
<1>4. CASE ReadClaimed(w)
  <2> DEFINE r == job[w].name
             f == disk["inflight"][r]
  <2>1. r \in Rounds /\ f \in Entry
    BY <1>4 DEF ReadClaimed, TypeOK, JobNamed, Naming, Dirs
  <2>2. /\ pc' \in [Procs -> Returns \cup Naming]
        /\ job' \in [Procs -> Job]
        /\ JobNamed'
    <3>1. CASE Hold(w, r, "pop", "fail")
      BY <3>1, <2>1, TypeHold DEF Returns, Naming
    <3>2. CASE Begin(w, [name |-> r, file |-> f, dst |-> "ready",
                         src |-> "inflight", ret |-> "pop"])
      BY <3>2, <2>1, TypeBegin, JobFacts DEF Returns, Dirs, LiveDirs
    <3>3. CASE /\ f # NoFile
               /\ Begin(w, [name |-> r, file |-> [f EXCEPT !.claim = "live"],
                            dst |-> "inflight", src |-> "none",
                            ret |-> "pop"])
      BY <3>3, <2>1, TypeBegin, JobFacts, DerivedFacts DEF Returns, Dirs
    <3> QED BY <1>4, <3>1, <3>2, <3>3 DEF ReadClaimed
  <2>3. batch' \in [Procs -> [Rounds -> Entry]]
    <3>1. CASE UNCHANGED batch
      BY <3>1 DEF TypeOK
    <3>2. CASE /\ f # NoFile
               /\ batch' = [batch EXCEPT ![w][r] = [f EXCEPT !.claim = "live"]]
      <4>1. [f EXCEPT !.claim = "live"] \in Entry
        BY <3>2, <2>1, DerivedFacts
      <4> QED BY <3>2, <4>1, <2>1 DEF TypeOK
    <3> QED BY <1>4, <3>1, <3>2 DEF ReadClaimed
  <2> QED BY <1>4, <2>2, <2>3 DEF ReadClaimed, histVars, TypeOK
<1>5. ASSUME NEW r \in Rounds, Reclaim(w, r)
      PROVE  TypeInv'
  <2> DEFINE f == disk["inflight"][r]
             g == [f EXCEPT !.claim = "none", !.due = TRUE]
  <2>1. f \in Entry
    BY DEF TypeOK, Dirs
  <2>2. /\ pc' \in [Procs -> Returns \cup Naming]
        /\ job' \in [Procs -> Job]
        /\ JobNamed'
    <3>1. CASE Hold(w, r, "reclaim", "fail")
      BY <3>1, TypeHold DEF Returns, Naming
    <3>2. CASE /\ f # NoFile
               /\ Begin(w, [name |-> r, file |-> g, dst |-> "ready",
                            src |-> "inflight", ret |-> "reclaim"])
      <4>1. g \in Entry
        BY <3>2, <2>1, DerivedFacts
      <4> HIDE DEF g
      <4>2. /\ [name |-> r, file |-> g, dst |-> "ready", src |-> "inflight",
                ret |-> "reclaim"] \in Job
        BY <4>1, JobFacts DEF Returns, Dirs, LiveDirs
      <4> QED BY <3>2, <4>2, TypeBegin
    <3>3. CASE UNCHANGED <<pc, job>>
      BY <3>3 DEF TypeOK, JobNamed
    <3> QED BY <1>5, <3>1, <3>2, <3>3 DEF Reclaim
  <2>3. todo' \in [Procs -> SUBSET Rounds]
    BY <1>5 DEF Reclaim, Visited, TypeOK
  <2> QED BY <1>5, <2>2, <2>3 DEF Reclaim, histVars, TypeOK
<1>6. ASSUME NEW r \in Rounds, Claim(w, r)
      PROVE  TypeInv'
  <2>1. /\ pc' \in [Procs -> Returns \cup Naming]
        /\ job' \in [Procs -> Job]
        /\ JobNamed'
    BY <1>6, TypeHold DEF Claim, Returns, Naming
  <2>2. disk' \in [Dirs -> [Rounds -> Entry]]
    BY <1>6 DEF Claim, TypeOK, Dirs
  <2>3. todo' \in [Procs -> SUBSET Rounds]
    BY <1>6 DEF Claim, Visited, TypeOK
  <2> QED BY <1>6, <2>1, <2>2, <2>3 DEF Claim, histVars, TypeOK
<1> QED BY <1>1, <1>2, <1>3, <1>4, <1>5, <1>6 DEF PopStep

LEMMA TypeProcessStep ==
  ASSUME TypeInv, NEW w \in Workers, ProcessStep(w)
  PROVE  TypeInv'
<1> USE FileFacts, ProcFacts DEF TypeInv
<1>1. ASSUME NEW r \in Rounds, Current(w, r)
      PROVE  /\ batch' \in [Procs -> [Rounds -> Entry]]
             /\ batch[w][r] \in Entry /\ batch[w][r] # NoFile
  BY <1>1 DEF Current, IsFirst, Claimed, TypeOK
<1>2. ASSUME NEW r \in Rounds, CountSubmit(r)
      PROVE  submits' \in [Rounds -> 0 .. MaxSubmits]
  BY <1>2, MaxSubmitsNat DEF CountSubmit, TypeOK
<1>3. ASSUME NEW r \in Rounds, GiveUp(w, r)
      PROVE  TypeInv'
  BY <1>1, <1>3, TypeHold
     DEF GiveUp, histVars, TypeOK, Returns, Naming
<1>4. ASSUME NEW r \in Rounds, SubmitStored(w, r)
      PROVE  TypeInv'
  BY <1>1, <1>2, <1>4, TypeHold
     DEF SubmitStored, Submits, TypeOK, Returns, Naming
<1>5. ASSUME NEW r \in Rounds, SubmitUnavailable(w, r)
      PROVE  TypeInv'
  <2>1. Recorded(batch[w][r]) \in Entry
    BY <1>1, <1>5, DerivedFacts DEF SubmitUnavailable, Submits
  <2>2. /\ pc' \in [Procs -> Returns \cup Naming]
        /\ job' \in [Procs -> Job]
        /\ JobNamed'
    BY <1>5, <2>1, TypeBegin, JobFacts
       DEF SubmitUnavailable, Dirs, LiveDirs, Returns
  <2>3. delivered' \subseteq Rounds
    BY <1>5 DEF SubmitUnavailable, TypeOK
  <2> QED BY <1>1, <1>2, <1>5, <2>2, <2>3
          DEF SubmitUnavailable, Submits, TypeOK
<1>6. ASSUME NEW r \in Rounds, SubmitRefused(w, r)
      PROVE  TypeInv'
  BY <1>1, <1>2, <1>6, TypeHold
     DEF SubmitRefused, Submits, TypeOK, Returns, Naming
<1>7. CASE Complete(w)
  BY <1>7 DEF Complete, Goto, histVars, TypeOK, JobNamed, Naming, Returns,
     Dirs
<1>8. CASE ReadFailing(w)
  <2> DEFINE r == job[w].name
             src == IF disk["inflight"][r] # NoFile THEN "inflight"
                                                    ELSE "ready"
             f == IF disk[src][r] = NoFile THEN Husk ELSE disk[src][r]
  <2>1. r \in Rounds /\ f \in Entry /\ src \in LiveDirs
        /\ job[w].ret \in Returns
    BY <1>8 DEF ReadFailing, TypeOK, JobNamed, Naming, Dirs, LiveDirs, Job
  <2>2. /\ pc' \in [Procs -> Returns \cup Naming]
        /\ job' \in [Procs -> Job]
        /\ JobNamed'
    <3> DEFINE j == [name |-> r, file |-> f, dst |-> "failed", src |-> src,
                     ret |-> job[w].ret]
    <3>1. Begin(w, j)
      BY <1>8 DEF ReadFailing
    <3> HIDE DEF f, src
    <3>2. j \in Job /\ j.name \in Rounds
      BY <2>1, JobFacts DEF Dirs
    <3> HIDE DEF j
    <3> QED BY <3>1, <3>2, TypeBegin
  <2> QED BY <1>8, <2>2 DEF ReadFailing, histVars, TypeOK
<1>9. CASE EndCycle(w)
  BY <1>9 DEF EndCycle, Goto, histVars, TypeOK, JobNamed, Naming, Returns
<1> QED BY <1>3, <1>4, <1>5, <1>6, <1>7, <1>8, <1>9 DEF ProcessStep

LEMMA TypeTime ==
  ASSUME TypeInv, Time
  PROVE  TypeInv'
<1>1. PICK r \in Rounds : BackoffElapses(r) \/ ClaimExpires(r)
  BY DEF Time
<1>2. /\ disk' \in [Dirs -> [Rounds -> Entry]]
      /\ batch' \in [Procs -> [Rounds -> Entry]]
      /\ job' \in [Procs -> Job]
      /\ \A p \in Procs : job'[p].name = job[p].name
  <2>1. CASE BackoffElapses(r)
    <3>1. \A f \in Entry : Elapsed(f) \in Entry
      BY LaterFacts
    <3>2. /\ disk' \in [Dirs -> [Rounds -> Entry]]
          /\ batch' \in [Procs -> [Rounds -> Entry]]
      BY <2>1, <3>1 DEF BackoffElapses, Passes, TypeInv, TypeOK
    <3>3. ASSUME NEW p \in Procs
          PROVE  job'[p] \in Job /\ job'[p].name = job[p].name
      BY <2>1, <3>1 DEF BackoffElapses, Passes, TypeInv, TypeOK, Job
    <3>4. job' \in [Procs -> Job]
      BY <2>1, <3>3 DEF BackoffElapses, Passes
    <3> QED BY <3>2, <3>3, <3>4
  <2>2. CASE ClaimExpires(r)
    <3>1. \A f \in Entry : Aged(f) \in Entry
      BY LaterFacts
    <3>2. /\ disk' \in [Dirs -> [Rounds -> Entry]]
          /\ batch' \in [Procs -> [Rounds -> Entry]]
      BY <2>2, <3>1 DEF ClaimExpires, Passes, TypeInv, TypeOK
    <3>3. ASSUME NEW p \in Procs
          PROVE  job'[p] \in Job /\ job'[p].name = job[p].name
      BY <2>2, <3>1 DEF ClaimExpires, Passes, TypeInv, TypeOK, Job
    <3>4. job' \in [Procs -> Job]
      BY <2>2, <3>3 DEF ClaimExpires, Passes
    <3> QED BY <3>2, <3>3, <3>4
  <2> QED BY <1>1, <2>1, <2>2
<1>3. UNCHANGED <<pc, todo, histVars>>
  BY <1>1 DEF BackoffElapses, ClaimExpires
<1> QED BY <1>2, <1>3 DEF TypeInv, TypeOK, JobNamed, histVars

LEMMA TypeCrash ==
  ASSUME TypeInv, NEW p \in Procs, Crash(p)
  PROVE  TypeInv'
<1>1. crashes' \in 0 .. MaxCrashes
  BY DeliveryConstants DEF Crash, TypeInv, TypeOK
<1> QED BY <1>1, FileFacts
        DEF Crash, Forgetful, Goto, TypeInv, TypeOK, JobNamed, Naming, Returns

LEMMA TypeNext == TypeInv /\ [Next]_vars => TypeInv'
<1> SUFFICES ASSUME TypeInv, [Next]_vars PROVE TypeInv'
  OBVIOUS
<1>1. CASE UNCHANGED vars
  BY <1>1 DEF vars, TypeInv, TypeOK, JobNamed
<1>2. ASSUME NEW p \in Producers, Producer(p) PROVE TypeInv'
  BY <1>2, TypeEnqueue DEF Producer
<1>3. ASSUME NEW w \in Workers, WorkerStep(w) PROVE TypeInv'
  BY <1>3, ProcFacts, TypeWriteStep, TypePopStep, TypeProcessStep
     DEF WorkerStep
<1>4. ASSUME NEW p \in Producers, WriteStep(p) PROVE TypeInv'
  BY <1>4, ProcFacts, TypeWriteStep
<1> QED BY <1>1, <1>2, <1>3, <1>4, TypeTime, TypeCrash DEF Next

\* Type correctness, for any number of producers and workers: in particular a
\* file never records more than max_attempts attempts.
THEOREM TypeCorrect == Spec => []TypeOK
BY TypeNext, TypeInit, PTL DEF Spec, TypeInv

-----------------------------------------------------------------------------
(* One worker: no round is lost. *)

\* A process other than the worker changes nothing of the worker's memory, and
\* on disk only adds whole files to `ready'.
LEMMA ProducerMoves ==
  ASSUME SingleInv, NEW p \in Producers,
         Producer(p) \/ WriteStep(p) \/ Crash(p)
  PROVE  /\ \A q \in Procs \ {p} : /\ pc'[q] = pc[q] /\ job'[q] = job[q]
                                   /\ todo'[q] = todo[q] /\ batch'[q] = batch[q]
         /\ delivered' = delivered
         /\ \/ UNCHANGED disk /\ UNCHANGED accepted
            \/ \E r \in Rounds, f \in Entry :
                 /\ Whole(f) /\ disk' = [disk EXCEPT !["ready"][r] = f]
                 /\ accepted' = accepted \cup {r}
         /\ ProducerOK' /\ JobWhole'
<1> USE ProcFacts, FileFacts DEF SingleInv, TypeOK, ProducerOK, JobWhole, Goto
<1>1. CASE Producer(p)
  <2> PICK r \in Rounds : Enqueue(p, r)
    BY <1>1 DEF Producer
  <2> QED BY DEF Enqueue, Begin
<1>2. CASE CheckPasses(p)
  BY <1>2 DEF CheckPasses, histVars
<1>3. CASE CheckRaises(p) \/ Crash(p)
  <2>1. /\ UNCHANGED <<disk, accepted, delivered>>
        /\ Forgetful(p)
    BY <1>3 DEF CheckRaises, Crash, histVars
  <2>2. NoJob.ret = "idle"
    BY DEF NoJob
  <2> QED BY <2>1, <2>2 DEF Forgetful
<1>4. CASE Write(p)
  <2>1. /\ job[p].name \in Rounds /\ job[p].file \in Entry /\ Whole(job[p].file)
        /\ job[p].dst = "ready" /\ job[p].src = "none" /\ job[p].ret = "idle"
    BY <1>4 DEF Write, JobNamed, Naming, Job
  <2>2. /\ disk' = [disk EXCEPT !["ready"][job[p].name] = job[p].file]
        /\ accepted' = accepted \cup {job[p].name}
        /\ pc' = [pc EXCEPT ![p] = "idle"] /\ job' = [job EXCEPT ![p] = NoJob]
    BY <1>4, <2>1 DEF Write
  <2>3. NoJob.ret = "idle"
    BY DEF NoJob
  <2> QED BY <1>4, <2>1, <2>2, <2>3 DEF Write
<1>5. CASE Unlink(p)
  BY <1>5 DEF Unlink
<1> QED BY <1>1, <1>2, <1>3, <1>4, <1>5 DEF WriteStep

LEMMA SafeProducer ==
  ASSUME SingleInv, NEW p \in Producers,
         Producer(p) \/ WriteStep(p) \/ Crash(p)
  PROVE  SingleInv'
<1> USE ProcFacts, FileFacts
<1>1. TypeInv'
  BY TypeEnqueue, TypeWriteStep, TypeCrash DEF SingleInv, TypeInv, Producer
<1>2. /\ \A q \in Procs \ {p} : /\ pc'[q] = pc[q] /\ job'[q] = job[q]
                                /\ todo'[q] = todo[q] /\ batch'[q] = batch[q]
      /\ delivered' = delivered
      /\ ProducerOK' /\ JobWhole'
  BY ProducerMoves
<1>3. \/ UNCHANGED disk /\ UNCHANGED accepted
      \/ \E r \in Rounds, f \in Entry :
           /\ Whole(f) /\ disk' = [disk EXCEPT !["ready"][r] = f]
           /\ accepted' = accepted \cup {r}
  BY ProducerMoves
<1>5. \A d \in Dirs, r \in Rounds :
        /\ disk[d][r] # NoFile => disk'[d][r] # NoFile
        /\ Whole(disk[d][r]) => Whole(disk'[d][r])
        /\ Whole(disk'[d][r]) \/ disk'[d][r] = disk[d][r]
  BY <1>3 DEF SingleInv, TypeOK, Dirs
<1>6. NoRoundLost'
  <2>1. \A r \in accepted' : r \in accepted \/ Whole(disk'["ready"][r])
    BY <1>3 DEF SingleInv, TypeOK, Dirs
  <2> QED BY <1>2, <1>5, <2>1 DEF SingleInv, TypeOK, NoRoundLost, Stored, Dirs
<1>7. LiveWhole' /\ BatchInFlight'
  BY <1>2, <1>5
     DEF SingleInv, TypeOK, BatchInFlight, InFlight, Dirs, LiveWhole, LiveDirs
<1>8. ASSUME NEW w \in Workers PROVE Listed(w)'
  BY <1>2, <1>5 DEF SingleInv, TypeOK, Listed, InFlight, Claimed, Dirs
<1>9. ASSUME NEW w \in Workers PROVE AtHand(w)'
  <2>1. /\ pc'[w] = pc[w] /\ job'[w] = job[w] /\ batch'[w] = batch[w]
        /\ todo'[w] = todo[w]
    BY <1>2
  <2>2. pc[w] \in Naming => job[w].name \in Rounds /\ job[w].dst \in Dirs
    BY DEF SingleInv, TypeOK, JobNamed, Job
  <2>3. /\ pc[w] \in Naming /\ InFlight(job[w].name) => InFlight(job[w].name)'
        /\ pc[w] \in Naming /\ Whole(disk[job[w].dst][job[w].name])
             => Whole(disk'[job[w].dst][job[w].name])
    BY <1>5, <2>1, <2>2 DEF InFlight, Dirs
  <2>4. AtHand(w)
    BY DEF SingleInv
  <2> QED BY <1>2, <2>1, <2>3, <2>4 DEF AtHand, Naming
<1> QED BY <1>1, <1>2, <1>6, <1>7, <1>8, <1>9 DEF SingleInv, TypeInv

\* What one step of the worker must be shown to keep.
Kept(r) == r \in delivered \/ \E d \in Dirs : Stored(r, d)

WorkerGoal(w) ==
  /\ pc[w] \in {"check", "write", "unlink"} => Whole(job[w].file)
  /\ \A r \in Rounds : batch[w][r] # NoFile => InFlight(r)
  /\ Listed(w)
  /\ AtHand(w)
  /\ LiveWhole

LEMMA Frame ==
  ASSUME SingleInv, SingleWorker, NEW w \in Workers, TypeInv',
         \A p \in Procs \ {w} : pc'[p] = pc[p] /\ job'[p] = job[p],
         accepted' = accepted,
         WorkerGoal(w)',
         \A r \in Rounds : Kept(r) => Kept(r)'
  PROVE  SingleInv'
<1> USE ProcFacts DEF SingleInv, WorkerGoal
<1>1. ProducerOK'
  BY DEF ProducerOK
<1>2. JobWhole'
  BY DEF JobWhole
<1>3. BatchInFlight'
  BY DEF SingleWorker, BatchInFlight
<1>4. \A v \in Workers : Listed(v)' /\ AtHand(v)'
  BY DEF SingleWorker
<1>5. NoRoundLost'
  BY DEF NoRoundLost, Kept, TypeOK
<1> QED BY <1>1, <1>2, <1>3, <1>4, <1>5 DEF TypeInv

\* The facts about the worker that SingleInv holds ready for its next step.
LEMMA Ready ==
  ASSUME SingleInv, NEW w \in Workers
  PROVE  /\ WorkerGoal(w)
         /\ disk \in [Dirs -> [Rounds -> Entry]]
         /\ pc \in [Procs -> Returns \cup Naming]
         /\ todo \in [Procs -> SUBSET Rounds]
         /\ batch \in [Procs -> [Rounds -> Entry]]
         /\ job \in [Procs -> Job]
         /\ w \in Procs
         /\ pc[w] \in Naming => job[w].name \in Rounds
         /\ TypeInv
BY ProcFacts DEF SingleInv, WorkerGoal, TypeOK, JobNamed, JobWhole,
   BatchInFlight, TypeInv

LEMMA SafeChecks ==
  ASSUME SingleInv, SingleWorker, NEW w \in Workers,
         CheckPasses(w) \/ CheckRaises(w) \/ Crash(w)
  PROVE  SingleInv'
<1> USE Ready
<1>1. TypeInv'
  BY TypeWriteStep, TypeCrash DEF WriteStep
<1>2. /\ UNCHANGED <<disk, accepted, delivered>>
      /\ \A p \in Procs \ {w} : pc'[p] = pc[p] /\ job'[p] = job[p]
  BY DEF CheckPasses, CheckRaises, Crash, Forgetful, Goto, histVars
<1>3. WorkerGoal(w)'
  <2>1. CASE CheckPasses(w)
    BY <2>1 DEF CheckPasses, Goto, histVars, WorkerGoal, InFlight, LiveWhole,
       Listed, AtHand, Claimed, Naming
  <2>2. CASE Forgetful(w) /\ UNCHANGED disk
    <3>1. /\ pc'[w] = "idle"
          /\ batch'[w] = Empty
      BY <2>2 DEF Forgetful, Goto
    <3>2. \A r \in Rounds : batch'[w][r] = NoFile
      BY <3>1 DEF Empty
    <3> QED BY <2>2, <3>1, <3>2
            DEF WorkerGoal, LiveWhole, Listed, AtHand, Claimed, Naming
  <2> QED BY <2>1, <2>2 DEF CheckRaises, Crash
<1> QED BY <1>1, <1>2, <1>3, Frame DEF Kept, Stored

LEMMA SafeWrite ==
  ASSUME SingleInv, SingleWorker, NEW w \in Workers, Write(w)
  PROVE  SingleInv'
<1> USE Ready
<1> DEFINE j == job[w]
<1>1. TypeInv'
  BY TypeWriteStep DEF WriteStep
<1>2. /\ pc[w] = "write" /\ j.name \in Rounds /\ j.dst \in Dirs
      /\ j.file \in Entry /\ Whole(j.file) /\ j.ret \in Returns
      /\ disk' = [disk EXCEPT ![j.dst][j.name] = j.file]
      /\ UNCHANGED <<todo, batch, accepted, delivered>>
      /\ j.file # NoFile
  BY ProcFacts, FileFacts DEF Write, Naming, WorkerGoal, Job
<1>3. /\ \A p \in Procs \ {w} : pc'[p] = pc[p] /\ job'[p] = job[p]
  BY DEF Write, Goto
<1>4. \A d \in Dirs, r \in Rounds :
        /\ disk[d][r] # NoFile => disk'[d][r] # NoFile
        /\ Whole(disk[d][r]) => Whole(disk'[d][r])
        /\ Whole(disk'[d][r]) \/ disk'[d][r] = disk[d][r]
  BY <1>2 DEF Dirs
<1>5. \/ /\ j.src = "none" /\ pc'[w] = "pop" /\ j.ret = "pop"
      \/ /\ j.src = "inflight" /\ j.dst \in {"ready", "failed"}
         /\ pc'[w] = "unlink" /\ job'[w] = j
  BY <1>2 DEF Write, Goto, WorkerGoal, AtHand, Naming
<1>6. LiveWhole' /\ \A r \in Rounds : batch'[w][r] # NoFile => InFlight(r)'
  BY <1>2, <1>4 DEF WorkerGoal, LiveWhole, LiveDirs, InFlight, Dirs
<1>7. Listed(w)'
  BY <1>2, <1>4, <1>5 DEF WorkerGoal, Listed, InFlight, Dirs, Claimed, Naming
<1>8. AtHand(w)' /\ (pc'[w] = "unlink" => Whole(job'[w].file))
  <2>1. CASE pc'[w] = "pop"
    BY <2>1 DEF AtHand, Naming
  <2>2. CASE pc'[w] = "unlink"
    <3>1. Whole(disk'[j.dst][j.name])
      BY <1>2
    <3> QED BY <1>2, <1>5, <2>2, <3>1 DEF WorkerGoal, AtHand, Naming
  <2> QED BY <1>5, <2>1, <2>2
<1>9. WorkerGoal(w)'
  BY <1>5, <1>6, <1>7, <1>8 DEF WorkerGoal
<1> QED BY <1>1, <1>2, <1>3, <1>4, <1>9, Frame DEF Kept, Stored

LEMMA SafeUnlink ==
  ASSUME SingleInv, SingleWorker, NEW w \in Workers, Unlink(w)
  PROVE  SingleInv'
<1> USE Ready, FileFacts
<1> DEFINE j == job[w]
<1>1. TypeInv'
  BY TypeWriteStep DEF WriteStep
<1>2. /\ pc[w] = "unlink" /\ j.name \in Rounds /\ j.ret \in Returns \ {"idle"}
      /\ j.src = "inflight" /\ j.dst \in {"ready", "failed"}
      /\ Whole(disk[j.dst][j.name])
      /\ batch[w][j.name] = NoFile
      /\ j.ret \in {"reclaim", "pop"} => j.name \notin todo[w]
      /\ disk' = [disk EXCEPT !["inflight"][j.name] = NoFile]
      /\ pc' = [pc EXCEPT ![w] = j.ret]
      /\ UNCHANGED <<todo, batch, accepted, delivered>>
  BY DEF Unlink, Goto, Naming, WorkerGoal, Job, AtHand, histVars
<1>3. /\ \A p \in Procs \ {w} : pc'[p] = pc[p] /\ job'[p] = job[p]
  BY DEF Unlink, Goto
<1>4. /\ LiveWhole'
      /\ \A r \in Rounds : batch'[w][r] # NoFile => InFlight(r)'
  BY <1>2 DEF WorkerGoal, LiveWhole, LiveDirs, InFlight, Dirs
<1>5. Listed(w)'
  BY <1>2 DEF WorkerGoal, Listed, InFlight, Dirs, Claimed, Naming, Returns
<1>6. WorkerGoal(w)'
  BY <1>2, <1>4, <1>5 DEF WorkerGoal, AtHand, Naming, Returns
<1>7. ASSUME NEW r \in Rounds, Kept(r) PROVE Kept(r)'
  <2>1. CASE r = j.name
    <3>1. Whole(disk'[j.dst][r])
      BY <1>2, <2>1 DEF Dirs
    <3> QED BY <3>1, <1>2 DEF Kept, Stored, Dirs
  <2>2. CASE r # j.name
    <3>1. \A d \in Dirs : disk'[d][r] = disk[d][r]
      BY <1>2, <2>2 DEF Dirs
    <3> QED BY <3>1, <1>2, <1>7 DEF Kept, Stored
  <2> QED BY <2>1, <2>2
<1> QED BY <1>1, <1>2, <1>3, <1>6, <1>7, Frame

\* A step of the worker that leaves the disk and what it has delivered alone.
LEMMA MemoryStep ==
  ASSUME SingleInv, SingleWorker, NEW w \in Workers, TypeInv',
         \A p \in Procs \ {w} : pc'[p] = pc[p] /\ job'[p] = job[p],
         UNCHANGED <<disk, accepted>>, delivered \subseteq delivered',
         pc'[w] \in {"check", "write", "unlink"} => Whole(job'[w].file),
         \A r \in Rounds : batch'[w][r] # NoFile => InFlight(r),
         Listed(w)', AtHand(w)'
  PROVE  SingleInv'
<1>1. WorkerGoal(w)'
  BY Ready DEF WorkerGoal, LiveWhole, InFlight
<1> QED BY <1>1, Frame DEF Kept, Stored

LEMMA SafePop ==
  ASSUME SingleInv, SingleWorker, NEW w \in Workers, PopStep(w)
  PROVE  SingleInv'
<1> USE Ready, FileFacts
<1>1. TypeInv'
  BY TypePopStep
<1>2. CASE StartCycle(w)
  <2>1. /\ pc[w] = "idle" /\ pc'[w] = "reclaim"
        /\ todo'[w] = Names(disk["inflight"])
        /\ UNCHANGED <<disk, accepted, delivered, batch, job>>
        /\ \A p \in Procs \ {w} : pc'[p] = pc[p]
    BY <1>2 DEF StartCycle, Goto, histVars
  <2>2. Listed(w)' /\ AtHand(w)'
    BY <2>1 DEF WorkerGoal, Listed, AtHand, Names, InFlight, Claimed, Naming
  <2> QED BY <1>1, <2>1, <2>2, MemoryStep DEF WorkerGoal
<1>3. CASE ListReady(w)
  <2>1. /\ pc[w] = "reclaim" /\ pc'[w] = "pop"
        /\ todo'[w] \subseteq Names(disk["ready"])
        /\ UNCHANGED <<disk, accepted, delivered, batch, job>>
        /\ \A p \in Procs \ {w} : pc'[p] = pc[p]
    BY <1>3 DEF ListReady, Goto, histVars, First
  <2>2. Listed(w)' /\ AtHand(w)'
    BY <2>1 DEF WorkerGoal, Listed, AtHand, Names, InFlight, Claimed, Naming
  <2> QED BY <1>1, <2>1, <2>2, MemoryStep DEF WorkerGoal
<1>4. CASE EndPop(w)
  <2>1. /\ pc'[w] = "process"
        /\ UNCHANGED <<disk, accepted, delivered, batch, job, todo>>
        /\ \A p \in Procs \ {w} : pc'[p] = pc[p]
    BY <1>4 DEF EndPop, Goto, histVars
  <2>2. Listed(w)' /\ AtHand(w)'
    BY <2>1 DEF Listed, AtHand, Naming
  <2> QED BY <1>1, <2>1, <2>2, MemoryStep DEF WorkerGoal
<1>5. ASSUME NEW r \in Rounds, Reclaim(w, r)
      PROVE  SingleInv'
  <2> DEFINE f == disk["inflight"][r]
             g == [f EXCEPT !.claim = "none", !.due = TRUE]
             j == [name |-> r, file |-> g, dst |-> "ready",
                   src |-> "inflight", ret |-> "reclaim"]
  <2>1. /\ pc[w] = "reclaim" /\ r \in todo[w] /\ todo'[w] = todo[w] \ {r}
        /\ UNCHANGED <<disk, accepted, delivered, batch>>
        /\ \A p \in Procs \ {w} : pc'[p] = pc[p] /\ job'[p] = job[p]
        /\ \A n \in todo[w] : InFlight(n)
        /\ Claimed(w) = {} /\ \A n \in Rounds : batch[w][n] = NoFile
    BY <1>5 DEF Reclaim, IsFirst, Visited, Hold, Begin, Goto, histVars,
       WorkerGoal, Listed, Claimed
  <2>2. f \in Entry /\ f # NoFile /\ Whole(f)
    BY <2>1 DEF InFlight, WorkerGoal, LiveWhole, LiveDirs, Dirs
  <2>3. \/ pc'[w] = "reclaim" /\ UNCHANGED job
        \/ pc'[w] = "check" /\ job'[w] = j
    BY <1>5, <2>1, <2>2 DEF Reclaim, Begin, Goto
  <2>4. Whole(g)
    BY <2>2, DerivedFacts
  <2> HIDE DEF g
  <2>5. Listed(w)' /\ AtHand(w)'
    BY <2>1, <2>3 DEF Listed, AtHand, InFlight, Claimed, Naming
  <2> QED BY <1>1, <2>1, <2>3, <2>4, <2>5, MemoryStep
<1>6. CASE ReadClaimed(w)
  <2> DEFINE r == job[w].name
             f == disk["inflight"][r]
             g == [f EXCEPT !.claim = "live"]
             back  == [name |-> r, file |-> f, dst |-> "ready",
                       src |-> "inflight", ret |-> "pop"]
             stamp == [name |-> r, file |-> g, dst |-> "inflight",
                       src |-> "none", ret |-> "pop"]
  <2>1. /\ pc[w] = "read" /\ r \in Rounds /\ job[w].ret = "pop"
        /\ r \notin todo[w] /\ InFlight(r) /\ batch[w][r] = NoFile
        /\ UNCHANGED <<disk, accepted, delivered, todo>>
        /\ \A p \in Procs \ {w} : pc'[p] = pc[p] /\ job'[p] = job[p]
    BY <1>6 DEF ReadClaimed, Hold, Begin, Goto, histVars, WorkerGoal, AtHand,
       Naming
  <2>2. f \in Entry /\ f # NoFile /\ Whole(f)
    BY <2>1 DEF InFlight, WorkerGoal, LiveWhole, LiveDirs, Dirs
  <2>3. Whole(g) /\ g # NoFile
    BY <2>2, DerivedFacts
  <2>4. /\ pc'[w] = "check"
        /\ \/ job'[w] = back /\ UNCHANGED batch
           \/ job'[w] = stamp /\ batch' = [batch EXCEPT ![w][r] = g]
    BY <1>6, <2>1, <2>2 DEF ReadClaimed, Begin, Goto
  <2> HIDE DEF g
  <2>5. /\ \A n \in Rounds : batch'[w][n] # NoFile => InFlight(n)
        /\ \A n \in Rounds \ {r} : batch'[w][n] = batch[w][n]
    BY <2>1, <2>4 DEF WorkerGoal
  <2>6. Listed(w)'
    <3>1. \A n \in todo[w] : disk["ready"][n] # NoFile /\ n \notin Claimed(w)
      BY <2>1 DEF WorkerGoal, Listed, Naming
    <3>2. \A n \in todo'[w] : n \in Rounds /\ n # r
      BY <2>1
    <3>3. pc'[w] = "check" /\ job'[w].ret = "pop"
      BY <2>4
    <3> QED BY <2>1, <2>5, <3>1, <3>2, <3>3 DEF Listed, Claimed
  <2>7. AtHand(w)'
    BY <2>1, <2>4, <2>5 DEF AtHand, InFlight, Naming
  <2> QED BY <1>1, <2>1, <2>2, <2>3, <2>4, <2>5, <2>6, <2>7, MemoryStep
<1>7. ASSUME NEW r \in Rounds, Claim(w, r)
      PROVE  SingleInv'
  <2> DEFINE f == disk["ready"][r]
  <2>1. /\ pc[w] = "pop" /\ r \in todo[w] /\ todo'[w] = todo[w] \ {r}
        /\ UNCHANGED <<accepted, delivered, batch>>
        /\ \A p \in Procs \ {w} : pc'[p] = pc[p] /\ job'[p] = job[p]
        /\ f # NoFile /\ r \notin Claimed(w)
    BY <1>7 DEF Claim, IsFirst, Visited, Hold, Goto, histVars,
       WorkerGoal, Listed
  <2>2. Whole(f)
    BY <2>1 DEF WorkerGoal, LiveWhole, LiveDirs
  <2>3. /\ disk' = [disk EXCEPT !["ready"][r] = NoFile, !["inflight"][r] = f]
        /\ pc'[w] = "read"
        /\ job'[w] = [NoJob EXCEPT !.name = r, !.ret = "pop"]
    BY <1>7, <2>1 DEF Claim, Hold, Goto
  <2>4. job'[w].name = r /\ job'[w].ret = "pop"
    BY <2>3 DEF NoJob
  <2>5. /\ disk'["inflight"][r] = f /\ disk'["ready"][r] = NoFile
        /\ \A n \in Rounds \ {r} : \A d \in Dirs : disk'[d][n] = disk[d][n]
        /\ disk'["failed"] = disk["failed"]
    BY <2>3 DEF Dirs
  <2>6. /\ LiveWhole'
        /\ \A n \in Rounds : batch'[w][n] # NoFile => InFlight(n)'
    BY <2>1, <2>2, <2>5 DEF WorkerGoal, LiveWhole, LiveDirs, InFlight, Dirs
  <2>7. Listed(w)'
    BY <2>1, <2>3, <2>4, <2>5
       DEF WorkerGoal, Listed, InFlight, Claimed, Naming, Dirs
  <2>8. AtHand(w)'
    BY <2>1, <2>3, <2>4, <2>5 DEF AtHand, InFlight, Claimed, Naming
  <2>9. WorkerGoal(w)'
    BY <2>3, <2>6, <2>7, <2>8 DEF WorkerGoal
  <2>10. \A n \in Rounds : Kept(n) => Kept(n)'
    <3>1. Kept(r)'
      BY <2>2, <2>5 DEF Kept, Stored, Dirs
    <3>2. ASSUME NEW n \in Rounds \ {r}, Kept(n) PROVE Kept(n)'
      BY <2>1, <2>5, <3>2 DEF Kept, Stored
    <3> QED BY <3>1, <3>2
  <2> QED BY <1>1, <2>1, <2>9, <2>10, Frame
<1> QED BY <1>2, <1>3, <1>4, <1>5, <1>6, <1>7 DEF PopStep

LEMMA SafeProcess ==
  ASSUME SingleInv, SingleWorker, NEW w \in Workers, ProcessStep(w)
  PROVE  SingleInv'
<1> USE Ready, FileFacts
<1>1. TypeInv'
  BY TypeProcessStep
<1>2. ASSUME NEW r \in Rounds, Current(w, r)
      PROVE  /\ pc[w] = "process" /\ InFlight(r) /\ batch'[w][r] = NoFile
             /\ \A n \in Rounds : batch'[w][n] # NoFile => InFlight(n)
  BY <1>2 DEF Current, IsFirst, Claimed, WorkerGoal
<1>3. ASSUME NEW r \in Rounds, NEW label \in {"fail", "complete"},
             Current(w, r), Hold(w, r, "process", label),
             UNCHANGED <<disk, accepted>>, delivered \subseteq delivered',
             label = "complete" => r \in delivered'
      PROVE  SingleInv'
  <2>1. /\ pc'[w] = label
        /\ \A p \in Procs \ {w} : pc'[p] = pc[p] /\ job'[p] = job[p]
        /\ job'[w] = [NoJob EXCEPT !.name = r, !.ret = "process"]
    BY <1>3 DEF Hold, Goto
  <2>2. job'[w].name = r /\ job'[w].ret = "process"
    BY <2>1 DEF NoJob
  <2>3. Listed(w)' /\ AtHand(w)'
    BY <1>2, <1>3, <2>1, <2>2 DEF Listed, AtHand, InFlight, Naming
  <2> QED BY <1>1, <1>2, <1>3, <2>1, <2>3, MemoryStep
<1>4. ASSUME NEW r \in Rounds,
             GiveUp(w, r) \/ SubmitStored(w, r) \/ SubmitRefused(w, r)
      PROVE  SingleInv'
  <2>1. CASE GiveUp(w, r)
    BY <1>3, <2>1 DEF GiveUp, histVars
  <2>2. CASE SubmitStored(w, r)
    BY <1>3, <2>2 DEF SubmitStored, Submits
  <2>3. CASE SubmitRefused(w, r)
    BY <1>3, <2>3 DEF SubmitRefused, Submits
  <2> QED BY <1>4, <2>1, <2>2, <2>3
<1>5. ASSUME NEW r \in Rounds, SubmitUnavailable(w, r)
      PROVE  SingleInv'
  <2> DEFINE g == Recorded(batch[w][r])
             j == [name |-> r, file |-> g, dst |-> "ready",
                   src |-> "inflight", ret |-> "process"]
  <2>1. /\ Current(w, r) /\ UNCHANGED <<disk, accepted>>
        /\ delivered \subseteq delivered'
        /\ Whole(batch[w][r]) /\ batch[w][r] \in Entry
        /\ batch[w][r] # NoFile
    BY <1>5 DEF SubmitUnavailable, Submits
  <2>2. Whole(g)
    BY <2>1, DerivedFacts
  <2>3. /\ pc'[w] = "check" /\ job'[w] = j
        /\ \A p \in Procs \ {w} : pc'[p] = pc[p] /\ job'[p] = job[p]
    BY <1>5 DEF SubmitUnavailable, Begin, Goto
  <2> HIDE DEF g
  <2>4. Listed(w)' /\ AtHand(w)'
    BY <1>2, <2>1, <2>3 DEF Listed, AtHand, InFlight, Naming
  <2> QED BY <1>1, <1>2, <2>1, <2>2, <2>3, <2>4, MemoryStep
<1>6. CASE Complete(w)
  <2> DEFINE r == job[w].name
  <2>1. /\ pc[w] = "complete" /\ r \in Rounds /\ r \in delivered
        /\ batch[w][r] = NoFile
        /\ disk' = [disk EXCEPT !["inflight"][r] = NoFile]
        /\ pc'[w] = "process" /\ UNCHANGED <<batch, accepted, delivered>>
        /\ \A p \in Procs \ {w} : pc'[p] = pc[p] /\ job'[p] = job[p]
    BY <1>6 DEF Complete, Goto, histVars, WorkerGoal, AtHand, Naming
  <2>2. Listed(w)' /\ AtHand(w)'
    BY <2>1 DEF Listed, AtHand, Naming
  <2>3. WorkerGoal(w)'
    BY <2>1, <2>2 DEF WorkerGoal, LiveWhole, LiveDirs, InFlight, Dirs
  <2>4. ASSUME NEW n \in Rounds, Kept(n) PROVE Kept(n)'
    <3>1. CASE n = r
      BY <2>1, <3>1 DEF Kept
    <3>2. CASE n # r
      <4>1. \A d \in Dirs : disk'[d][n] = disk[d][n]
        BY <2>1, <3>2 DEF Dirs
      <4> QED BY <2>1, <2>4, <4>1 DEF Kept, Stored
    <3> QED BY <3>1, <3>2
  <2> QED BY <1>1, <2>1, <2>3, <2>4, Frame
<1>7. CASE ReadFailing(w)
  <2> DEFINE r == job[w].name
             f == disk["inflight"][r]
             j == [name |-> r, file |-> f, dst |-> "failed",
                   src |-> "inflight", ret |-> job[w].ret]
  <2>1. /\ pc[w] = "fail" /\ r \in Rounds /\ job[w].ret = "process"
        /\ InFlight(r) /\ batch[w][r] = NoFile
        /\ UNCHANGED <<disk, accepted, delivered, todo, batch>>
        /\ \A p \in Procs \ {w} : pc'[p] = pc[p] /\ job'[p] = job[p]
    BY <1>7 DEF ReadFailing, Begin, Goto, histVars, WorkerGoal, AtHand, Naming
  <2>2. f \in Entry /\ f # NoFile /\ Whole(f)
    BY <2>1 DEF InFlight, WorkerGoal, LiveWhole, LiveDirs, Dirs
  <2>3. pc'[w] = "check" /\ job'[w] = j
    BY <1>7, <2>1, <2>2 DEF ReadFailing, Begin, Goto
  <2>4. Listed(w)' /\ AtHand(w)'
    BY <2>1, <2>3 DEF Listed, AtHand, InFlight, Naming
  <2> QED BY <1>1, <2>1, <2>2, <2>3, <2>4, MemoryStep DEF WorkerGoal
<1>8. CASE EndCycle(w)
  <2>1. /\ pc'[w] = "idle" /\ Claimed(w) = {}
        /\ UNCHANGED <<disk, accepted, delivered, batch, job, todo>>
        /\ \A p \in Procs \ {w} : pc'[p] = pc[p]
    BY <1>8 DEF EndCycle, Goto, histVars
  <2>2. Listed(w)' /\ AtHand(w)'
    BY <2>1 DEF Listed, AtHand, Naming, Claimed
  <2> QED BY <1>1, <2>1, <2>2, MemoryStep DEF WorkerGoal
<1> QED BY <1>4, <1>5, <1>6, <1>7, <1>8 DEF ProcessStep

\* Time changes neither which files are there nor which are whole.
LEMMA TimeMoves ==
  ASSUME TypeInv, Time
  PROVE  /\ \A d \in Dirs, r \in Rounds :
              /\ disk'[d][r] = NoFile <=> disk[d][r] = NoFile
              /\ Whole(disk'[d][r]) <=> Whole(disk[d][r])
         /\ \A p \in Procs :
              /\ \A r \in Rounds :
                   batch'[p][r] = NoFile <=> batch[p][r] = NoFile
              /\ Whole(job'[p].file) <=> Whole(job[p].file)
              /\ job'[p].name = job[p].name /\ job'[p].dst = job[p].dst
              /\ job'[p].src = job[p].src /\ job'[p].ret = job[p].ret
         /\ UNCHANGED <<pc, todo, histVars>>
<1> USE DEF TypeInv, TypeOK
<1>1. PICK r \in Rounds : BackoffElapses(r) \/ ClaimExpires(r)
  BY DEF Time
<1>2. \A p \in Procs : job[p] \in Job /\ job[p].file \in Entry
  BY DEF Job
<1>3. CASE BackoffElapses(r)
  <2>1. \A f \in Entry : /\ Elapsed(f) = NoFile <=> f = NoFile
                         /\ Whole(Elapsed(f)) <=> Whole(f)
    BY LaterFacts
  <2>2. ASSUME NEW d \in Dirs, NEW n \in Rounds
        PROVE  /\ disk'[d][n] = NoFile <=> disk[d][n] = NoFile
               /\ Whole(disk'[d][n]) <=> Whole(disk[d][n])
    BY <1>3, <2>1 DEF BackoffElapses, Passes
  <2>3. ASSUME NEW p \in Procs, NEW n \in Rounds
        PROVE  batch'[p][n] = NoFile <=> batch[p][n] = NoFile
    BY <1>3, <2>1 DEF BackoffElapses, Passes
  <2>4. ASSUME NEW p \in Procs
        PROVE  /\ Whole(job'[p].file) <=> Whole(job[p].file)
               /\ job'[p].name = job[p].name /\ job'[p].dst = job[p].dst
               /\ job'[p].src = job[p].src /\ job'[p].ret = job[p].ret
    BY <1>2, <1>3, <2>1 DEF BackoffElapses, Passes, Job
  <2> QED BY <1>3, <2>2, <2>3, <2>4 DEF BackoffElapses
<1>4. CASE ClaimExpires(r)
  <2>1. \A f \in Entry : /\ Aged(f) = NoFile <=> f = NoFile
                         /\ Whole(Aged(f)) <=> Whole(f)
    BY LaterFacts
  <2>2. ASSUME NEW d \in Dirs, NEW n \in Rounds
        PROVE  /\ disk'[d][n] = NoFile <=> disk[d][n] = NoFile
               /\ Whole(disk'[d][n]) <=> Whole(disk[d][n])
    BY <1>4, <2>1 DEF ClaimExpires, Passes
  <2>3. ASSUME NEW p \in Procs, NEW n \in Rounds
        PROVE  batch'[p][n] = NoFile <=> batch[p][n] = NoFile
    BY <1>4, <2>1 DEF ClaimExpires, Passes
  <2>4. ASSUME NEW p \in Procs
        PROVE  /\ Whole(job'[p].file) <=> Whole(job[p].file)
               /\ job'[p].name = job[p].name /\ job'[p].dst = job[p].dst
               /\ job'[p].src = job[p].src /\ job'[p].ret = job[p].ret
    BY <1>2, <1>4, <2>1 DEF ClaimExpires, Passes, Job
  <2> QED BY <1>4, <2>2, <2>3, <2>4 DEF ClaimExpires
<1> QED BY <1>1, <1>3, <1>4

LEMMA SafeTime ==
  ASSUME SingleInv, Time
  PROVE  SingleInv'
<1> USE ProcFacts
<1>1. TypeInv /\ TypeInv'
  BY TypeTime DEF SingleInv, TypeInv
<1>2. /\ \A d \in Dirs, r \in Rounds :
           /\ disk'[d][r] = NoFile <=> disk[d][r] = NoFile
           /\ Whole(disk'[d][r]) <=> Whole(disk[d][r])
      /\ \A p \in Procs :
           /\ \A r \in Rounds : batch'[p][r] = NoFile <=> batch[p][r] = NoFile
           /\ Whole(job'[p].file) <=> Whole(job[p].file)
           /\ job'[p].name = job[p].name /\ job'[p].dst = job[p].dst
           /\ job'[p].src = job[p].src /\ job'[p].ret = job[p].ret
      /\ UNCHANGED <<pc, todo, accepted, delivered>>
  BY <1>1, TimeMoves DEF histVars
<1>3. ProducerOK' /\ JobWhole' /\ NoRoundLost'
  BY <1>1, <1>2 DEF SingleInv, ProducerOK, JobWhole, NoRoundLost, Stored, TypeInv,
     TypeOK
<1>4. LiveWhole' /\ BatchInFlight'
  BY <1>1, <1>2
     DEF SingleInv, LiveWhole, BatchInFlight, InFlight, Dirs, LiveDirs
<1>5. ASSUME NEW w \in Workers PROVE Listed(w)' /\ AtHand(w)'
  <2>1. /\ Claimed(w)' = Claimed(w)
        /\ \A r \in Rounds : InFlight(r)' <=> InFlight(r)
        /\ todo[w] \subseteq Rounds
    BY <1>1, <1>2 DEF Claimed, InFlight, Dirs, TypeInv, TypeOK
  <2>2. pc[w] \in Naming => job[w].name \in Rounds /\ job[w].dst \in Dirs
    BY <1>1 DEF TypeInv, TypeOK, JobNamed, Job
  <2>3. Listed(w) /\ AtHand(w)
    BY DEF SingleInv
  <2>4. Listed(w)'
    BY <1>2, <2>1, <2>3 DEF Listed, Dirs
  <2>5. AtHand(w)'
    BY <1>2, <2>1, <2>2, <2>3 DEF AtHand, Naming
  <2> QED BY <2>4, <2>5
<1> QED BY <1>1, <1>3, <1>4, <1>5 DEF SingleInv, TypeInv

LEMMA SafeInit == Init => SingleInv
<1> SUFFICES ASSUME Init PROVE SingleInv
  OBVIOUS
<1>1. TypeInv
  BY TypeInit
<1>2. /\ \A p \in Procs : pc[p] = "idle" /\ job[p] = NoJob /\ todo[p] = {}
      /\ \A p \in Procs, r \in Rounds : batch[p][r] = NoFile
      /\ \A d \in Dirs, r \in Rounds : disk[d][r] = NoFile
      /\ accepted = {}
  BY DEF Init, Empty
<1>3. ProducerOK /\ JobWhole /\ NoRoundLost
  BY <1>2, ProcFacts DEF ProducerOK, JobWhole, NoRoundLost, NoJob
<1>4. LiveWhole /\ BatchInFlight
  BY <1>2, ProcFacts DEF LiveWhole, BatchInFlight, Dirs, LiveDirs
<1>5. \A w \in Workers : Listed(w) /\ AtHand(w)
  BY <1>2, ProcFacts DEF Listed, AtHand, Claimed, Naming
<1> QED BY <1>1, <1>3, <1>4, <1>5 DEF SingleInv, TypeInv

LEMMA SafeNext ==
  ASSUME SingleInv, SingleWorker, [Next]_vars
  PROVE  SingleInv'
<1>1. CASE UNCHANGED vars
  BY <1>1 DEF vars, SingleInv, TypeOK, JobNamed, ProducerOK, LiveWhole,
     JobWhole, BatchInFlight, InFlight, Listed, AtHand, Claimed, NoRoundLost,
     Stored
<1>2. ASSUME NEW p \in Producers, Producer(p) \/ WriteStep(p) \/ Crash(p)
      PROVE  SingleInv'
  BY <1>2, SafeProducer
<1>3. ASSUME NEW w \in Workers, WorkerStep(w) \/ Crash(w)
      PROVE  SingleInv'
  BY <1>3, SafeChecks, SafeWrite, SafeUnlink, SafePop, SafeProcess
     DEF WorkerStep, WriteStep
<1> QED BY <1>1, <1>2, <1>3, SafeTime DEF Next, Procs

\* With a single worker on the spool - the Hermes plugin's worker thread - no
\* accepted round is ever lost: whatever the hooks enqueue meanwhile, whatever
\* the core answers, at whatever file-system access a process is killed and
\* whenever claims expire, its content is in a queue, in quarantine or stored.
THEOREM NoRoundLostSingle == SingleWorker => (Spec => []NoRoundLost)
<1> SUFFICES ASSUME SingleWorker PROVE Spec => []NoRoundLost
  OBVIOUS
<1>1. SingleInv /\ [Next]_vars => SingleInv'
  BY SafeNext
<1>2. SingleInv => NoRoundLost
  BY DEF SingleInv
<1> QED BY <1>1, <1>2, SafeInit, PTL DEF Spec

-----------------------------------------------------------------------------
(* One worker: the files implement RoundQueue. *)

Aside == {r \in Rounds : Stored(r, "failed")}

\* The next-state relation of RoundQueue on the mapped state.
LEMMA QueueSteps ==
  ASSUME NEW r \in Rounds,
         \/ /\ Held' = Held \cup {r} /\ delivered' = delivered
            /\ Aside' = Aside
         \/ /\ r \in Held /\ Held' = Held /\ delivered' = delivered \cup {r}
            /\ Aside' = Aside
         \/ /\ r \in Held /\ Held' = Held /\ delivered' = delivered
            /\ Aside' = Aside \cup {r}
         \/ /\ r \in Held /\ r \in delivered \cup Aside
            /\ Held' = Held \ {r} /\ delivered' = delivered /\ Aside' = Aside
  PROVE  Queue!Next
BY DEF Queue!Next, Queue!Accept, Queue!Deliver, Queue!Quarantine,
   Queue!Forget, Aside

LEMMA QueueStutter ==
  ASSUME Held' = Held, delivered' = delivered, Aside' = Aside
  PROVE  UNCHANGED Queue!vars
BY DEF Queue!vars, Aside

\* A step that leaves the disk alone maps to a stutter unless the core stores a
\* round, which is then one the worker holds.
LEMMA SameDisk ==
  ASSUME disk' = disk
  PROVE  Held' = Held /\ Aside' = Aside
BY DEF Held, Aside, Stored

LEMMA QueueWrite ==
  ASSUME SingleInv, NEW p \in Procs, Write(p)
  PROVE  Queue!Next
<1> DEFINE r == job[p].name
           f == job[p].file
           d == job[p].dst
<1>1. /\ pc[p] = "write" /\ r \in Rounds /\ d \in Dirs /\ Whole(f)
      /\ disk' = [disk EXCEPT ![d][r] = f] /\ delivered' = delivered
      /\ disk \in [Dirs -> [Rounds -> Entry]]
  BY DEF SingleInv, TypeOK, JobNamed, JobWhole, Job, Naming, Write
<1> HIDE DEF r, f, d
<1>2. /\ disk'[d][r] = f
      /\ \A e \in Dirs, n \in Rounds :
           e # d \/ n # r => disk'[e][n] = disk[e][n]
  BY <1>1
<1>3. CASE d \in LiveDirs
  <2>1. Held' = Held \cup {r}
    BY <1>1, <1>2, <1>3 DEF Held, Stored, Dirs, LiveDirs
  <2>2. Aside' = Aside
    BY <1>1, <1>2, <1>3 DEF Aside, Stored, Dirs, LiveDirs
  <2> QED BY <1>1, <2>1, <2>2, QueueSteps
<1>4. CASE d = "failed"
  <2>1. p \in Workers
    BY <1>1, <1>4 DEF SingleInv, ProducerOK, Procs, d
  <2>2. InFlight(r)
    BY <1>1, <2>1 DEF SingleInv, AtHand, Naming, r
  <2>3. r \in Held
    BY <1>1, <2>2 DEF SingleInv, LiveWhole, LiveDirs, InFlight, Held, Stored
  <2>4. Held' = Held
    BY <1>1, <1>2, <1>4 DEF Held, Stored, Dirs
  <2>5. Aside' = Aside \cup {r}
    BY <1>1, <1>2, <1>4 DEF Aside, Stored, Dirs
  <2> QED BY <1>1, <2>3, <2>4, <2>5, QueueSteps
<1> QED BY <1>1, <1>3, <1>4 DEF Dirs, LiveDirs

\* Removing an item's file from `inflight', once its content is safe.
LEMMA QueueRemove ==
  ASSUME SingleInv, NEW r \in Rounds, delivered' = delivered,
         disk' = [disk EXCEPT !["inflight"][r] = NoFile],
         r \in delivered \/ Whole(disk["ready"][r]) \/ Whole(disk["failed"][r])
  PROVE  [Queue!Next]_(Queue!vars)
<1> USE FileFacts
<1>1. /\ disk'["inflight"][r] = NoFile
      /\ \A e \in Dirs, n \in Rounds :
           e # "inflight" \/ n # r => disk'[e][n] = disk[e][n]
  BY DEF SingleInv, TypeOK, Dirs
<1>2. Aside' = Aside
  BY <1>1 DEF Aside, Stored, Dirs
<1>3. CASE r \in Held /\ ~Whole(disk["ready"][r])
  <2>1. Held' = Held \ {r}
    BY <1>1, <1>3 DEF Held, Stored, Dirs
  <2>2. r \in delivered \cup Aside
    BY <1>3 DEF Aside, Stored
  <2> QED BY <1>2, <1>3, <2>1, <2>2, QueueSteps
<1>4. CASE r \notin Held \/ Whole(disk["ready"][r])
  <2>1. Held' = Held
    BY <1>1, <1>4 DEF Held, Stored, Dirs
  <2> QED BY <1>2, <2>1, QueueStutter
<1> QED BY <1>3, <1>4

LEMMA QueueUnlink ==
  ASSUME SingleInv, NEW p \in Procs, Unlink(p)
  PROVE  [Queue!Next]_(Queue!vars)
<1>1. p \in Workers
  BY DEF SingleInv, ProducerOK, Procs, Unlink
<1>2. AtHand(p) /\ JobNamed
  BY <1>1 DEF SingleInv
<1>3. /\ job[p].name \in Rounds /\ job[p].src = "inflight"
      /\ job[p].dst \in {"ready", "failed"}
      /\ Whole(disk[job[p].dst][job[p].name])
      /\ delivered' = delivered
  BY <1>1, <1>2, ProcFacts DEF Unlink, AtHand, JobNamed, Naming, histVars
<1> QED BY <1>3, QueueRemove DEF Unlink

LEMMA QueueClaim ==
  ASSUME SingleInv, NEW w \in Workers, NEW r \in Rounds, Claim(w, r)
  PROVE  [Queue!Next]_(Queue!vars)
<1> USE FileFacts
<1>1. delivered' = delivered
  BY DEF Claim, histVars
<1>2. CASE UNCHANGED disk
  BY <1>1, <1>2, SameDisk, QueueStutter
<1>3. CASE /\ disk["ready"][r] # NoFile
           /\ disk' = [disk EXCEPT !["ready"][r] = NoFile,
                                   !["inflight"][r] = disk["ready"][r]]
  <2>1. /\ disk'["inflight"][r] = disk["ready"][r]
        /\ disk'["failed"] = disk["failed"]
        /\ \A e \in Dirs, n \in Rounds \ {r} : disk'[e][n] = disk[e][n]
    BY <1>3 DEF SingleInv, TypeOK, Dirs
  <2>2. Whole(disk["ready"][r])
    BY <1>3 DEF SingleInv, LiveWhole, LiveDirs
  <2>3. Held' = Held
    BY <2>1, <2>2 DEF Held, Stored, Dirs
  <2>4. Aside' = Aside
    BY <2>1 DEF Aside, Stored
  <2> QED BY <1>1, <2>3, <2>4, QueueStutter
<1> QED BY <1>2, <1>3 DEF Claim

LEMMA QueueSubmit ==
  ASSUME SingleInv, NEW w \in Workers, NEW r \in Rounds,
         SubmitStored(w, r) \/ SubmitUnavailable(w, r) \/ SubmitRefused(w, r)
  PROVE  [Queue!Next]_(Queue!vars)
<1>1. /\ disk' = disk /\ Current(w, r)
      /\ delivered' = delivered \/ delivered' = delivered \cup {r}
  BY DEF SubmitStored, SubmitUnavailable, SubmitRefused, Submits
<1>2. r \in Held
  <2>1. InFlight(r)
    BY <1>1 DEF SingleInv, BatchInFlight, Current, IsFirst, Claimed
  <2> QED BY <2>1 DEF SingleInv, LiveWhole, LiveDirs, InFlight, Held, Stored
<1>3. Held' = Held /\ Aside' = Aside
  BY <1>1, SameDisk
<1>4. CASE delivered' = delivered
  BY <1>3, <1>4, QueueStutter
<1>5. CASE delivered' = delivered \cup {r}
  BY <1>2, <1>3, <1>5, QueueSteps
<1> QED BY <1>1, <1>4, <1>5

LEMMA QueueTime ==
  ASSUME SingleInv, Time
  PROVE  [Queue!Next]_(Queue!vars)
<1>1. /\ \A d \in Dirs, r \in Rounds :
           Whole(disk'[d][r]) <=> Whole(disk[d][r])
      /\ delivered' = delivered
  BY TimeMoves DEF SingleInv, TypeInv, histVars
<1>2. Held' = Held /\ Aside' = Aside
  BY <1>1 DEF Held, Aside, Stored, Dirs
<1> QED BY <1>1, <1>2, QueueStutter

\* The files of a spool with one worker keep the promise of RoundQueue: a
\* round leaves `ready' and `inflight' only after the core stored it or its
\* whole content is in `failed', and nothing else is submitted or quarantined.
THEOREM SingleImplementsQueue == SingleWorker => (Spec => ImplementsQueue)
<1> SUFFICES ASSUME SingleWorker PROVE Spec => Queue!Spec
  BY DEF ImplementsQueue
<1>1. Init => Queue!Init
  BY FileFacts
     DEF Init, Queue!Init, Held, Stored, Empty, Dirs
<1>2. SingleInv /\ [Next]_vars => [Queue!Next]_(Queue!vars)
  <2> SUFFICES ASSUME SingleInv, [Next]_vars
               PROVE  [Queue!Next]_(Queue!vars)
    OBVIOUS
  <2>1. CASE disk' = disk /\ delivered' = delivered
    BY <2>1, SameDisk, QueueStutter
  <2>2. ASSUME NEW p \in Procs, WriteStep(p)
        PROVE  [Queue!Next]_(Queue!vars)
    BY <2>1, <2>2, QueueWrite, QueueUnlink
       DEF WriteStep, CheckPasses, CheckRaises, histVars
  <2>3. ASSUME NEW p \in Producers, Producer(p)
        PROVE  [Queue!Next]_(Queue!vars)
    BY <2>1, <2>3 DEF Producer, Enqueue
  <2>4. ASSUME NEW w \in Workers, PopStep(w)
        PROVE  [Queue!Next]_(Queue!vars)
    BY <2>1, <2>4, QueueClaim
       DEF PopStep, StartCycle, ListReady, ReadClaimed, EndPop, Reclaim,
           histVars
  <2>5. ASSUME NEW w \in Workers, ProcessStep(w)
        PROVE  [Queue!Next]_(Queue!vars)
    <3>1. CASE Complete(w)
      <4>1. /\ job[w].name \in Rounds /\ job[w].name \in delivered
            /\ delivered' = delivered
        BY <3>1, ProcFacts
           DEF SingleInv, AtHand, JobNamed, Naming, Complete, histVars
      <4> QED BY <3>1, <4>1, QueueRemove DEF Complete
    <3>2. CASE ReadFailing(w) \/ EndCycle(w)
      BY <2>1, <3>2 DEF ReadFailing, EndCycle, histVars
    <3>3. ASSUME NEW r \in Rounds, GiveUp(w, r)
          PROVE  [Queue!Next]_(Queue!vars)
      BY <2>1, <3>3 DEF GiveUp, histVars
    <3> QED BY <2>5, <3>1, <3>2, <3>3, QueueSubmit DEF ProcessStep
  <2>6. ASSUME NEW p \in Procs, Crash(p)
        PROVE  [Queue!Next]_(Queue!vars)
    BY <2>1, <2>6 DEF Crash
  <2>7. CASE UNCHANGED vars
    BY <2>1, <2>7 DEF vars
  <2> QED BY <2>2, <2>3, <2>4, <2>5, <2>6, <2>7, QueueTime, ProcFacts
          DEF Next, WorkerStep
<1>3. SingleInv /\ [Next]_vars => SingleInv'
  BY SafeNext
<1> QED BY <1>1, <1>2, <1>3, SafeInit, PTL DEF Spec, Queue!Spec
-----------------------------------------------------------------------------
(* The limit of the live queues. *)

\* The rounds in the live queues, and those that a process of V has passed
\* the limit test for and is about to write there.
Live == Names(disk["ready"]) \cup Names(disk["inflight"])

Writing(p) == pc[p] = "write" /\ job[p].dst \in LiveDirs

Taken(V) == Live \cup {job[p].name : p \in {q \in V : Writing(q)}}

\* The invariant of the limit: only the last of the tests that passed has seen
\* all of the others' writes, so every process but one may be in excess.
Limited(V) == /\ IsFiniteSet(Taken(V))
              /\ Cardinality(Taken(V)) <= MaxFiles + Cardinality(V) - 1

\* No write discounts, as the file to be unlinked, the file it writes over.
JobApart == \A p \in Procs : job[p].src # job[p].dst

LimitInv(V) == TypeInv /\ JobApart /\ Limited(V)

\* What the processes outside V write is in the live queues already.
RestWithin(V) == \A p \in Procs \ V : Writing(p) => job[p].name \in Live

\* The values of a function on a finite set are no more than its arguments.
LEMMA ValuesCount ==
  ASSUME NEW S, IsFiniteSet(S), NEW f, f \in [S -> {f[x] : x \in S}]
  PROVE  /\ IsFiniteSet({f[x] : x \in S})
         /\ Cardinality({f[x] : x \in S}) <= Cardinality(S)
         /\ Cardinality({f[x] : x \in S}) \in Nat
<1> DEFINE T == {f[x] : x \in S}
<1>1. f \in Surjection(S, T)
  BY DEF Surjection
<1> QED BY <1>1, FS_Surjection, FS_CardinalityType

\* The files counted are as many as the rounds they hold, or more.
LEMMA CountedRounds ==
  ASSUME TypeInv, NEW n \in Rounds, NEW s, IsFiniteSet(Live)
  PROVE  /\ IsFiniteSet(Counted(disk, n, s))
         /\ \A R : (\A r \in R : \E d \in LiveDirs :
                       <<d, r>> \in Counted(disk, n, s))
              => IsFiniteSet(R) /\ Cardinality(R) <= Cardinality(Counted(disk, n, s))
<1> DEFINE C == Counted(disk, n, s)
           f == [l \in C |-> l[2]]
<1>1. IsFiniteSet(LiveDirs)
  <2>1. LiveDirs = {"ready"} \cup {"inflight"}
    BY DEF LiveDirs
  <2> QED BY <2>1, FS_Singleton, FS_Union
<1>2. C \in SUBSET (LiveDirs \X Live)
  BY DEF Counted, Live, Names, LiveDirs
<1>3. IsFiniteSet(C)
  BY <1>1, <1>2, FS_Product, FS_Subset
<1>4. ASSUME NEW R,
             \A r \in R : \E d \in LiveDirs : <<d, r>> \in C
      PROVE  IsFiniteSet(R) /\ Cardinality(R) <= Cardinality(C)
  <2> DEFINE T == {f[l] : l \in C}
  <2>1. R \in SUBSET T
    <3>1. ASSUME NEW r \in R PROVE r \in T
      <4>1. PICK d \in LiveDirs : <<d, r>> \in C
        BY <1>4
      <4>2. f[<<d, r>>] = r
        BY <4>1
      <4> QED BY <4>1, <4>2
    <3> QED BY <3>1
  <2> HIDE DEF C
  <2>2. f \in [C -> T]
    OBVIOUS
  <2> HIDE DEF f
  <2>3. IsFiniteSet(T) /\ Cardinality(T) <= Cardinality(C) /\ Cardinality(T) \in Nat
    BY <1>3, <2>2, ValuesCount
  <2> QED BY <1>3, <2>1, <2>3, FS_Subset, FS_CardinalityType
<1> QED BY <1>3, <1>4

\* A write into a live queue that passes the limit test leaves no more rounds
\* there than max_files, if nothing else moves in between.
LEMMA FitsAlone ==
  ASSUME TypeInv, NEW p \in Procs, IsFiniteSet(Live), job[p].name \in Rounds,
         job[p].dst \in LiveDirs, job[p].src # job[p].dst, CheckFits(p)
  PROVE  /\ IsFiniteSet(Live \cup {job[p].name})
         /\ Cardinality(Live \cup {job[p].name}) <= MaxFiles
<1> DEFINE n == job[p].name
           d == job[p].dst
           C == Counted(disk, n, job[p].src)
<1>1. MaxFiles \in Nat
  BY SpoolConstants
<1>2. /\ IsFiniteSet(C)
      /\ \A R : (\A r \in R : \E e \in LiveDirs : <<e, r>> \in C)
           => IsFiniteSet(R) /\ Cardinality(R) <= Cardinality(C)
  BY CountedRounds
<1>3. Cardinality(C) \in Nat
  BY <1>2, FS_CardinalityType
<1>4. \A r \in Live \ {n} : \E e \in LiveDirs : <<e, r>> \in C
  BY DEF Live, Names, Counted, LiveDirs
<1>5. CASE disk[d][n] # NoFile
  <2>1. Cardinality(C) <= MaxFiles
    BY <1>1, <1>3, <1>5 DEF CheckFits, Fits
  <2>2. <<d, n>> \in C
    BY <1>5 DEF Counted
  <2>3. \A r \in Live \cup {n} : \E e \in LiveDirs : <<e, r>> \in C
    BY <1>4, <2>2
  <2>4. /\ IsFiniteSet(Live \cup {n})
        /\ Cardinality(Live \cup {n}) <= Cardinality(C)
    BY <1>2, <2>3
  <2> QED BY <1>1, <1>3, <2>1, <2>4, FS_CardinalityType
<1>6. CASE disk[d][n] = NoFile
  <2>1. Cardinality(C) + 1 <= MaxFiles
    BY <1>1, <1>3, <1>6 DEF CheckFits, Fits
  <2>2. /\ IsFiniteSet(Live \ {n})
        /\ Cardinality(Live \ {n}) <= Cardinality(C)
    BY <1>2, <1>4
  <2>3. Live \cup {n} = (Live \ {n}) \cup {n}
    OBVIOUS
  <2>4. /\ IsFiniteSet(Live \cup {n})
        /\ Cardinality(Live \cup {n}) = Cardinality(Live \ {n}) + 1
    BY <2>2, <2>3, FS_AddElement
  <2> QED BY <1>1, <1>3, <2>1, <2>2, <2>4, FS_CardinalityType
<1> QED BY <1>5, <1>6

\* A step that takes no further round keeps the limit.
LEMMA LimitFrame ==
  ASSUME NEW V, Limited(V), Taken(V)' \subseteq Taken(V), IsFiniteSet(V)
  PROVE  Limited(V)'
<1>1. Taken(V)' \in SUBSET Taken(V)
  OBVIOUS
<1>2. IsFiniteSet(Taken(V)') /\ Cardinality(Taken(V)') <= Cardinality(Taken(V))
  BY <1>1, FS_Subset DEF Limited
<1>3. /\ Cardinality(Taken(V)') \in Nat /\ Cardinality(Taken(V)) \in Nat
      /\ Cardinality(V) \in Nat /\ MaxFiles \in Nat
  BY <1>2, FS_CardinalityType, SpoolConstants DEF Limited
<1> QED BY <1>2, <1>3 DEF Limited

\* The step that takes a round: it has been tested against all that is in the
\* live queues, but not against what the other processes are about to write.
LEMMA LimitCheck ==
  ASSUME NEW V, V \subseteq Procs, IsFiniteSet(V), LimitInv(V),
         NEW p \in Procs, CheckPasses(p), p \in V, job[p].dst \in LiveDirs
  PROVE  Limited(V)'
<1> DEFINE n == job[p].name
           W == V \ {p}
           f == [q \in W |-> job[q].name]
           O == {f[q] : q \in W}
           A == Live \cup {n}
<1>1. /\ n \in Rounds /\ CheckFits(p)
      /\ disk' = disk /\ job' = job /\ pc' = [pc EXCEPT ![p] = "write"]
  BY DEF CheckPasses, Goto, LimitInv, TypeInv, JobNamed, Naming
<1>2. IsFiniteSet(Live)
  <2>1. Live \in SUBSET Taken(V)
    BY DEF Taken
  <2> QED BY <2>1, FS_Subset DEF LimitInv, Limited
<1>3. IsFiniteSet(A) /\ Cardinality(A) <= MaxFiles
  BY <1>1, <1>2, FitsAlone DEF LimitInv, JobApart
<1>4. /\ IsFiniteSet(W) /\ Cardinality(W) = Cardinality(V) - 1
      /\ Cardinality(V) \in Nat /\ Cardinality(W) \in Nat
  BY FS_RemoveElement, FS_CardinalityType
<1>5. IsFiniteSet(O) /\ Cardinality(O) <= Cardinality(W) /\ Cardinality(O) \in Nat
  <2>1. f \in [W -> O]
    OBVIOUS
  <2> HIDE DEF f, W
  <2> QED BY <1>4, <2>1, ValuesCount
<1>6. Taken(V)' \in SUBSET (A \cup O)
  <2>1. Live' = Live
    BY <1>1 DEF Live, Names
  <2>2. ASSUME NEW q \in V, Writing(q)'
        PROVE  job'[q].name \in A \cup O
    <3>1. CASE q = p
      BY <1>1, <3>1
    <3>2. CASE q # p
      BY <1>1, <3>2
    <3> QED BY <3>1, <3>2
  <2> QED BY <2>1, <2>2 DEF Taken
<1>7. /\ IsFiniteSet(A \cup O)
      /\ Cardinality(A \cup O) <= Cardinality(A) + Cardinality(O)
  <2>1. IsFiniteSet(A \cap O)
    <3>1. A \cap O \in SUBSET A
      OBVIOUS
    <3> QED BY <1>3, <3>1, FS_Subset
  <2> HIDE DEF A, O
  <2>2. /\ Cardinality(A \cap O) \in Nat /\ Cardinality(A) \in Nat
        /\ Cardinality(O) \in Nat
    BY <1>3, <1>5, <2>1, FS_CardinalityType
  <2>3. /\ IsFiniteSet(A \cup O)
        /\ Cardinality(A \cup O)
             = Cardinality(A) + Cardinality(O) - Cardinality(A \cap O)
    BY <1>3, <1>5, FS_Union
  <2> QED BY <2>2, <2>3
<1> DEFINE T == Taken(V)'
<1>8. IsFiniteSet(T) /\ Cardinality(T) <= Cardinality(A \cup O)
  BY <1>6, <1>7, FS_Subset
<1>9. /\ Cardinality(T) \in Nat /\ Cardinality(A) \in Nat
      /\ Cardinality(A \cup O) \in Nat /\ MaxFiles \in Nat
  BY <1>3, <1>7, <1>8, FS_CardinalityType, SpoolConstants
<1>10. Cardinality(T) <= MaxFiles + Cardinality(V) - 1
  BY <1>3, <1>4, <1>5, <1>7, <1>8, <1>9
<1> QED BY <1>8, <1>10 DEF Limited

LEMMA TakenShrinks ==
  ASSUME NEW V, Live' \subseteq Taken(V),
         \A q \in V : Writing(q)' => Writing(q) /\ job'[q].name = job[q].name
  PROVE  Taken(V)' \subseteq Taken(V)
BY DEF Taken

LEMMA LimitWriteStep ==
  ASSUME NEW V, V \subseteq Procs, IsFiniteSet(V), LimitInv(V), RestWithin(V),
         NEW p \in Procs, WriteStep(p)
  PROVE  Limited(V)'
<1> USE DEF LimitInv, TypeInv, TypeOK, Goto
<1>1. Live \subseteq Taken(V)
  BY DEF Taken
<1>2. CASE CheckPasses(p)
  <2>1. Live' = Live
    BY <1>2 DEF CheckPasses, Live, Names
  <2>2. CASE p \in V /\ job[p].dst \in LiveDirs
    BY <1>2, <2>2, LimitCheck
  <2>3. CASE ~(p \in V /\ job[p].dst \in LiveDirs)
    <3>1. \A q \in V : Writing(q)' => Writing(q) /\ job'[q].name = job[q].name
      BY <1>2, <2>3 DEF CheckPasses, Writing
    <3> QED BY <1>1, <2>1, <3>1, TakenShrinks, LimitFrame
  <2> QED BY <2>2, <2>3
<1>3. CASE CheckRaises(p)
  <2>1. Live' = Live
    BY <1>3 DEF CheckRaises, Live, Names
  <2>2. \A q \in V : Writing(q)' => Writing(q) /\ job'[q].name = job[q].name
    BY <1>3 DEF CheckRaises, Forgetful, Writing
  <2> QED BY <1>1, <2>1, <2>2, TakenShrinks, LimitFrame
<1>4. CASE Write(p)
  <2> DEFINE j == job[p]
  <2>1. /\ pc[p] = "write" /\ j.name \in Rounds /\ j.dst \in Dirs
        /\ j.ret \in Returns
        /\ disk' = [disk EXCEPT ![j.dst][j.name] = j.file]
    BY <1>4 DEF Write, JobNamed, Naming, Job
  <2>2. Live' \subseteq Taken(V)
    <3>1. CASE j.dst \notin LiveDirs
      <4>1. disk'["ready"] = disk["ready"] /\ disk'["inflight"] = disk["inflight"]
        BY <2>1, <3>1 DEF LiveDirs, Dirs
      <4> QED BY <1>1, <4>1 DEF Live, Names
    <3>2. CASE j.dst \in LiveDirs
      <4>1. j.name \in Taken(V)
        <5>1. CASE p \in V
          BY <2>1, <3>2, <5>1 DEF Taken, Writing
        <5>2. CASE p \notin V
          BY <1>1, <2>1, <3>2, <5>2 DEF RestWithin, Writing
        <5> QED BY <5>1, <5>2
      <4>2. \A d \in Dirs, r \in Rounds : r # j.name => disk'[d][r] = disk[d][r]
        BY <2>1
      <4>3. Live' \subseteq Live \cup {j.name}
        BY <4>2 DEF Live, Names, Dirs
      <4> QED BY <1>1, <4>1, <4>3
    <3> QED BY <3>1, <3>2
  <2>3. \A q \in V : Writing(q)' => Writing(q) /\ job'[q].name = job[q].name
    <3>1. pc'[p] # "write"
      BY <1>4, <2>1 DEF Write, Returns
    <3>2. \A q \in Procs \ {p} : pc'[q] = pc[q] /\ job'[q] = job[q]
      BY <1>4 DEF Write
    <3> QED BY <3>1, <3>2 DEF Writing
  <2> QED BY <2>2, <2>3, TakenShrinks, LimitFrame
<1>5. CASE Unlink(p)
  <2>1. \A d \in Dirs, r \in Rounds :
          disk'[d][r] = disk[d][r] \/ disk'[d][r] = NoFile
    BY <1>5 DEF Unlink
  <2>2. Live' \subseteq Live
    BY <2>1 DEF Live, Names, Dirs
  <2>3. pc'[p] # "write"
    <3>1. job[p].ret \in Returns
      BY DEF Job
    <3> QED BY <1>5, <3>1 DEF Unlink, Returns
  <2>4. \A q \in V : Writing(q)' => Writing(q) /\ job'[q].name = job[q].name
    BY <1>5, <2>3 DEF Unlink, Writing
  <2> QED BY <1>1, <2>2, <2>4, TakenShrinks, LimitFrame
<1> QED BY <1>2, <1>3, <1>4, <1>5 DEF WriteStep

\* What every other step of a process shares: it adds no round to the live
\* queues and does not pass a limit test.
Quiet(p) ==
  /\ Live' \subseteq Live
  /\ pc'[p] # "write"
  /\ \A q \in Procs \ {p} : pc'[q] = pc[q] /\ job'[q] = job[q]
  /\ job'[p].src # job'[p].dst

LEMMA QuietStep ==
  ASSUME NEW V, V \subseteq Procs, IsFiniteSet(V), LimitInv(V), TypeInv',
         NEW p \in Procs, Quiet(p)
  PROVE  LimitInv(V)'
<1>1. JobApart'
  BY DEF LimitInv, JobApart, Quiet
<1>2. Taken(V)' \subseteq Taken(V)
  <2>1. Live \subseteq Taken(V)
    BY DEF Taken
  <2>2. \A q \in V : Writing(q)' => Writing(q) /\ job'[q].name = job[q].name
    BY DEF Quiet, Writing
  <2> QED BY <2>1, <2>2, TakenShrinks DEF Quiet
<1> QED BY <1>1, <1>2, LimitFrame DEF LimitInv

\* The jobs that Hold and Begin leave a process with.
LEMMA HoldQuiet ==
  ASSUME TypeInv, NEW w \in Procs, NEW r \in Rounds, NEW ret \in Returns,
         NEW label, label # "write", Hold(w, r, ret, label), Live' \subseteq Live
  PROVE  Quiet(w)
<1> DEFINE j == [NoJob EXCEPT !.name = r, !.ret = ret]
<1>1. j.src = "none" /\ j.dst = "ready"
  BY DEF NoJob
<1> HIDE DEF j
<1>2. job' = [job EXCEPT ![w] = j] /\ pc' = [pc EXCEPT ![w] = label]
  BY DEF Hold, Goto, j
<1> QED BY <1>1, <1>2 DEF Quiet, TypeInv, TypeOK

LEMMA BeginQuiet ==
  ASSUME TypeInv, NEW w \in Procs, NEW j, j.src # j.dst, Begin(w, j),
         Live' \subseteq Live
  PROVE  Quiet(w)
BY DEF Begin, Goto, Quiet, TypeInv, TypeOK

LEMMA QuietEnqueue ==
  ASSUME TypeInv, NEW p \in Producers, Producer(p)
  PROVE  Quiet(p)
<1> PICK r \in Rounds : Enqueue(p, r)
  BY DEF Producer
<1>1. Live' \subseteq Live
  BY DEF Enqueue, Live, Names
<1> QED BY <1>1, ProcFacts, BeginQuiet DEF Enqueue

LEMMA QuietCrash ==
  ASSUME TypeInv, NEW p \in Procs, Crash(p)
  PROVE  Quiet(p)
<1>1. Live' = Live
  BY DEF Crash, Live, Names
<1> QED BY <1>1 DEF Crash, Forgetful, Goto, Quiet, NoJob, TypeInv, TypeOK

LEMMA QuietPop ==
  ASSUME TypeInv, JobApart, NEW w \in Workers, PopStep(w)
  PROVE  Quiet(w)
<1> USE ProcFacts
<1>1. ASSUME UNCHANGED disk PROVE Live' \subseteq Live
  BY <1>1 DEF Live, Names
<1>2. CASE StartCycle(w) \/ ListReady(w) \/ EndPop(w)
  BY <1>1, <1>2
     DEF StartCycle, ListReady, EndPop, Goto, histVars, Quiet, TypeInv, TypeOK,
         JobApart
<1>3. CASE ReadClaimed(w)
  <2> DEFINE r == job[w].name
             f == disk["inflight"][r]
  <2>1. r \in Rounds /\ Live' \subseteq Live
    BY <1>1, <1>3 DEF ReadClaimed, TypeInv, JobNamed, Naming
  <2>2. CASE Hold(w, r, "pop", "fail")
    BY <2>1, <2>2, HoldQuiet DEF Returns
  <2>3. CASE Begin(w, [name |-> r, file |-> f, dst |-> "ready",
                       src |-> "inflight", ret |-> "pop"])
    BY <2>1, <2>3, BeginQuiet
  <2>4. CASE Begin(w, [name |-> r, file |-> [f EXCEPT !.claim = "live"],
                       dst |-> "inflight", src |-> "none", ret |-> "pop"])
    BY <2>1, <2>4, BeginQuiet
  <2> QED BY <1>3, <2>2, <2>3, <2>4 DEF ReadClaimed
<1>4. ASSUME NEW r \in Rounds, Reclaim(w, r)
      PROVE  Quiet(w)
  <2> DEFINE f == disk["inflight"][r]
  <2>1. Live' \subseteq Live
    BY <1>1, <1>4 DEF Reclaim
  <2>2. CASE Hold(w, r, "reclaim", "fail")
    BY <2>1, <2>2, HoldQuiet DEF Returns
  <2>3. CASE Begin(w, [name |-> r,
                       file |-> [f EXCEPT !.claim = "none", !.due = TRUE],
                       dst |-> "ready", src |-> "inflight",
                       ret |-> "reclaim"])
    BY <2>1, <2>3, BeginQuiet
  <2>4. CASE pc[w] = "reclaim" /\ UNCHANGED <<pc, job>>
    BY <2>1, <2>4 DEF Quiet, JobApart
  <2> QED BY <1>4, <2>2, <2>3, <2>4 DEF Reclaim
<1>5. ASSUME NEW r \in Rounds, Claim(w, r)
      PROVE  Quiet(w)
  <2>1. Live' \subseteq Live
    <3>1. CASE UNCHANGED disk
      BY <1>1, <3>1
    <3>2. CASE /\ disk["ready"][r] # NoFile
               /\ disk' = [disk EXCEPT !["ready"][r] = NoFile,
                                       !["inflight"][r] = disk["ready"][r]]
      <4>1. \A d \in LiveDirs, n \in Rounds \ {r} : disk'[d][n] = disk[d][n]
        BY <3>2 DEF TypeInv, TypeOK, Dirs, LiveDirs
      <4>2. r \in Live
        BY <3>2 DEF Live, Names
      <4> QED BY <4>1, <4>2 DEF Live, Names, LiveDirs
    <3> QED BY <1>5, <3>1, <3>2 DEF Claim
  <2>2. Hold(w, r, "pop", "read") \/ Hold(w, r, "pop", "fail")
    BY <1>5 DEF Claim
  <2> QED BY <2>1, <2>2, HoldQuiet DEF Returns
<1> QED BY <1>2, <1>3, <1>4, <1>5 DEF PopStep

LEMMA QuietProcess ==
  ASSUME TypeInv, JobApart, NEW w \in Workers, ProcessStep(w)
  PROVE  Quiet(w)
<1> USE ProcFacts
<1>1. ASSUME UNCHANGED disk PROVE Live' \subseteq Live
  BY <1>1 DEF Live, Names
<1>2. ASSUME NEW r \in Rounds,
             GiveUp(w, r) \/ SubmitStored(w, r) \/ SubmitRefused(w, r)
      PROVE  Quiet(w)
  <2>1. Live' \subseteq Live
    BY <1>1, <1>2 DEF GiveUp, SubmitStored, SubmitRefused, Submits
  <2>2. Hold(w, r, "process", "fail") \/ Hold(w, r, "process", "complete")
    BY <1>2 DEF GiveUp, SubmitStored, SubmitRefused
  <2> QED BY <2>1, <2>2, HoldQuiet DEF Returns
<1>3. ASSUME NEW r \in Rounds, SubmitUnavailable(w, r)
      PROVE  Quiet(w)
  <2>1. Live' \subseteq Live
    BY <1>1, <1>3 DEF SubmitUnavailable, Submits
  <2> QED BY <1>3, <2>1, BeginQuiet DEF SubmitUnavailable
<1>4. CASE Complete(w)
  <2>1. \A d \in Dirs, r \in Rounds :
          disk'[d][r] = disk[d][r] \/ disk'[d][r] = NoFile
    BY <1>4 DEF Complete, TypeInv, TypeOK
  <2>2. Live' \subseteq Live
    BY <2>1 DEF Live, Names, Dirs
  <2> QED BY <1>4, <2>2 DEF Complete, Goto, Quiet, NoJob, TypeInv, TypeOK
<1>5. CASE ReadFailing(w)
  <2> DEFINE r == job[w].name
             src == IF disk["inflight"][r] # NoFile THEN "inflight"
                                                    ELSE "ready"
             f == disk[src][r]
             j == [name |-> r, file |-> IF f = NoFile THEN Husk ELSE f,
                   dst |-> "failed", src |-> src, ret |-> job[w].ret]
  <2>1. Live' \subseteq Live
    BY <1>1, <1>5 DEF ReadFailing
  <2>2. Begin(w, j) /\ j.src # j.dst
    BY <1>5 DEF ReadFailing
  <2> HIDE DEF j
  <2> QED BY <2>1, <2>2, BeginQuiet
<1>6. CASE EndCycle(w)
  BY <1>1, <1>6
     DEF EndCycle, Goto, histVars, Quiet, JobApart, TypeInv, TypeOK
<1> QED BY <1>2, <1>3, <1>4, <1>5, <1>6 DEF ProcessStep

LEMMA LimitInit ==
  ASSUME NEW V, V \subseteq Procs, IsFiniteSet(V), Init
  PROVE  LimitInv(V)
<1>1. Taken(V) = {}
  <2>1. Live = {}
    BY DEF Init, Live, Names, Empty, Dirs
  <2>2. \A p \in V : ~Writing(p)
    BY DEF Init, Writing
  <2> QED BY <2>1, <2>2 DEF Taken
<1>2. Cardinality(V) \in Nat /\ MaxFiles \in Nat \ {0}
  BY FS_CardinalityType, SpoolConstants
<1>3. Limited(V)
  BY <1>1, <1>2, FS_EmptySet DEF Limited
<1>4. JobApart
  BY DEF Init, JobApart, NoJob
<1> QED BY <1>3, <1>4, TypeInit DEF LimitInv

LEMMA LimitNext ==
  ASSUME NEW V, V \subseteq Procs, IsFiniteSet(V), LimitInv(V), RestWithin(V),
         [Next]_vars
  PROVE  LimitInv(V)'
<1> USE ProcFacts
<1>1. TypeInv /\ TypeInv' /\ JobApart
  BY TypeNext DEF LimitInv
<1>2. ASSUME NEW p \in Procs, WriteStep(p) PROVE LimitInv(V)'
  <2>1. JobApart'
    BY <1>1, <1>2
       DEF WriteStep, CheckPasses, CheckRaises, Write, Unlink, Forgetful,
           JobApart, NoJob, TypeInv, TypeOK
  <2> QED BY <1>1, <1>2, <2>1, LimitWriteStep DEF LimitInv
<1>3. ASSUME NEW p \in Producers, Producer(p) PROVE LimitInv(V)'
  BY <1>1, <1>3, QuietEnqueue, QuietStep
<1>4. ASSUME NEW w \in Workers, PopStep(w) \/ ProcessStep(w)
      PROVE  LimitInv(V)'
  BY <1>1, <1>4, QuietPop, QuietProcess, QuietStep
<1>5. ASSUME NEW p \in Procs, Crash(p) PROVE LimitInv(V)'
  BY <1>1, <1>5, QuietCrash, QuietStep
<1>6. CASE Time \/ UNCHANGED vars
  <2>1. /\ \A d \in Dirs, r \in Rounds :
             disk'[d][r] = NoFile <=> disk[d][r] = NoFile
        /\ \A p \in Procs : /\ job'[p].name = job[p].name
                            /\ job'[p].dst = job[p].dst
                            /\ job'[p].src = job[p].src
        /\ pc' = pc
    BY <1>1, <1>6, TimeMoves DEF vars
  <2>2. Live' \subseteq Taken(V)
    BY <2>1 DEF Live, Names, Dirs, Taken
  <2>3. JobApart'
    BY <1>1, <2>1 DEF JobApart
  <2>4. \A q \in V : Writing(q)' => Writing(q) /\ job'[q].name = job[q].name
    BY <2>1 DEF Writing
  <2> QED BY <1>1, <2>2, <2>3, <2>4, TakenShrinks, LimitFrame DEF LimitInv
<1> QED BY <1>2, <1>3, <1>4, <1>5, <1>6 DEF Next, WorkerStep

LEMMA LiveTaken ==
  ASSUME NEW V, IsFiniteSet(V), LimitInv(V)
  PROVE  Cardinality(Live) <= MaxFiles + Cardinality(V) - 1
<1>1. Live \in SUBSET Taken(V)
  BY DEF Taken
<1>2. IsFiniteSet(Live) /\ Cardinality(Live) <= Cardinality(Taken(V))
  BY <1>1, FS_Subset DEF LimitInv, Limited
<1>3. /\ Cardinality(Live) \in Nat /\ Cardinality(Taken(V)) \in Nat
      /\ Cardinality(V) \in Nat /\ MaxFiles \in Nat
  BY <1>2, FS_CardinalityType, SpoolConstants DEF LimitInv, Limited
<1> QED BY <1>2, <1>3 DEF LimitInv, Limited

\* Whatever shares the spool, the live queues hold at most max_files rounds
\* and one more for each process but one.
THEOREM SharedQueueIsLimited ==
  IsFiniteSet(Procs)
    => (Spec => [](Cardinality(Live) <= MaxFiles + Cardinality(Procs) - 1))
<1> SUFFICES ASSUME IsFiniteSet(Procs)
             PROVE  Spec => [](Cardinality(Live)
                                 <= MaxFiles + Cardinality(Procs) - 1)
  OBVIOUS
<1>1. Init => LimitInv(Procs)
  BY LimitInit
<1>2. LimitInv(Procs) /\ [Next]_vars => LimitInv(Procs)'
  BY LimitNext DEF RestWithin
<1>3. LimitInv(Procs)
        => Cardinality(Live) <= MaxFiles + Cardinality(Procs) - 1
  BY LiveTaken
<1> QED BY <1>1, <1>2, <1>3, PTL DEF Spec

\* With one worker the excess is the producers' alone: what the worker writes
\* into a live queue is already in `inflight'.
THEOREM QueueIsLimited ==
  SingleWorker /\ IsFiniteSet(Producers) => (Spec => []QueueWithinLimit)
<1> SUFFICES ASSUME SingleWorker, IsFiniteSet(Producers)
             PROVE  Spec => []QueueWithinLimit
  OBVIOUS
<1>1. Init => LimitInv(Producers)
  BY LimitInit, ProcFacts
<1>2. SingleInv => RestWithin(Producers)
  <2> SUFFICES ASSUME SingleInv, NEW w \in Workers, Writing(w)
               PROVE  job[w].name \in Live
    BY DEF RestWithin, Procs
  <2>1. InFlight(job[w].name) /\ job[w].name \in Rounds
    BY ProcFacts DEF SingleInv, JobNamed, AtHand, Writing, Naming
  <2> QED BY <2>1 DEF InFlight, Live, Names
<1>3. LimitInv(Producers) /\ SingleInv /\ [Next]_vars => LimitInv(Producers)'
  BY <1>2, ProcFacts, LimitNext
<1>4. LimitInv(Producers) => QueueWithinLimit
  BY LiveTaken DEF QueueWithinLimit, Live
<1>5. SingleInv /\ [Next]_vars => SingleInv'
  BY SafeNext
<1> QED BY <1>1, <1>3, <1>4, <1>5, SafeInit, PTL DEF Spec
-----------------------------------------------------------------------------
(* The attempts of a round. *)

\* The submissions that the file of a round in a live queue still allows.
Left(d, r) == IF disk[d][r] = NoFile THEN 0
                                     ELSE MaxAttempts - disk[d][r].attempts

\* The worker has claimed the round and not yet submitted it.
HandOf(w, r) == batch[w][r] # NoFile \/ (pc[w] = "read" /\ job[w].name = r)
Hand(r)      == \E w \in Workers : HandOf(w, r)

\* The worker is done with the round, submitted or given up, but its file is
\* still as it was claimed.
SentBy(w, r) == pc[w] \in Naming /\ job[w].name = r /\ job[w].ret = "process"
Sent(r)      == \E w \in Workers : SentBy(w, r)

\* The producers about to write an envelope of the round.
Pending(r) == {p \in Producers : pc[p] \in {"check", "write"} /\ job[p].name = r}

\* What the enqueues written so far, and the crashes, have bought and the
\* submissions have not used up.
Bought(r) == MaxAttempts * (enqueues[r] - Cardinality(Pending(r)))
               + crashes - submits[r]

Paid(r) ==
  /\ Left("ready", r) <= Bought(r)
  /\ Left("inflight", r) <= Bought(r) + (IF Sent(r) THEN 1 ELSE 0)
  /\ Hand(r) /\ Left("inflight", r) >= 1 => Left("ready", r) + 1 <= Bought(r)

\* The worker's copies record the attempts that the claimed file records, and
\* a retry one more.
SameAttempts(w) ==
  /\ \A r \in Rounds : batch[w][r] # NoFile
       => batch[w][r].attempts = disk["inflight"][r].attempts
  /\ pc[w] \in {"check", "write"} /\ job[w].dst # "failed"
       => job[w].file.attempts = disk["inflight"][job[w].name].attempts
                                   + (IF job[w].ret = "process" THEN 1 ELSE 0)

PaidInv ==
  /\ SingleInv
  /\ \A w \in Workers : SameAttempts(w)
  /\ \A r \in Rounds : Paid(r)

\* No limit test refuses the worker the disposal of a round it has submitted:
\* the exception would leave the attempt unrecorded.
DisposalFits == \A w \in Workers : ~(CheckRaises(w) /\ job[w].ret = "process")

LEMMA PaidTypes ==
  ASSUME TypeInv, IsFiniteSet(Producers), NEW r \in Rounds
  PROVE  /\ \A d \in Dirs : Left(d, r) \in 0 .. MaxAttempts
         /\ IsFiniteSet(Pending(r)) /\ Cardinality(Pending(r)) \in Nat
         /\ enqueues[r] \in Nat /\ submits[r] \in Nat /\ crashes \in Nat
         /\ MaxAttempts \in Nat \ {0}
         /\ MaxAttempts * (enqueues[r] - Cardinality(Pending(r))) \in Int
         /\ Bought(r) \in Int
<1>1. MaxAttempts \in Nat \ {0}
  BY SpoolConstants
<1>2. ASSUME NEW d \in Dirs PROVE Left(d, r) \in 0 .. MaxAttempts
  <2>1. disk[d][r] \in Entry
    BY DEF TypeInv, TypeOK
  <2>2. CASE disk[d][r] = NoFile
    BY <1>1, <2>2 DEF Left
  <2>3. CASE disk[d][r] # NoFile
    <3>1. disk[d][r].attempts \in 0 .. MaxAttempts
      BY <2>1, <2>3 DEF Entry, File
    <3> QED BY <1>1, <2>3, <3>1 DEF Left
  <2> QED BY <2>2, <2>3
<1>3. IsFiniteSet(Pending(r)) /\ Cardinality(Pending(r)) \in Nat
  <2>1. Pending(r) \in SUBSET Producers
    BY DEF Pending
  <2> QED BY <2>1, FS_Subset, FS_CardinalityType
<1>4. enqueues[r] \in Nat /\ submits[r] \in Nat /\ crashes \in Nat
  BY MaxSubmitsNat, DeliveryConstants DEF TypeInv, TypeOK
<1>5. MaxAttempts * (enqueues[r] - Cardinality(Pending(r))) \in Int
  <2>1. enqueues[r] - Cardinality(Pending(r)) \in Int
    BY <1>3, <1>4
  <2> QED BY <1>1, <2>1
<1>6. Bought(r) \in Int
  BY <1>4, <1>5 DEF Bought
<1> QED BY <1>1, <1>2, <1>3, <1>4, <1>5, <1>6

PaidTyped == \A r \in Rounds : /\ \A d \in Dirs : Left(d, r) \in 0 .. MaxAttempts
                               /\ Bought(r) \in Int

LEMMA PaidTypesNow == IsFiniteSet(Producers) /\ TypeInv => PaidTyped
BY PaidTypes DEF PaidTyped

LEMMA PaidTypesNext == IsFiniteSet(Producers) /\ TypeInv' => PaidTyped'
<1> SUFFICES ASSUME IsFiniteSet(Producers) PROVE TypeInv' => PaidTyped'
  OBVIOUS
<1>1. TypeInv => PaidTyped
  BY PaidTypesNow
<1> QED BY <1>1, PTL

\* What a round has in the spool may only shrink, and what was bought grow.
LEMMA PaidKeeps ==
  ASSUME PaidInv, TypeInv', IsFiniteSet(Producers), NEW r \in Rounds,
         Left("ready", r)' <= Left("ready", r),
         Left("inflight", r)' <= Left("inflight", r),
         Bought(r)' >= Bought(r),
         \/ ~Sent(r)
         \/ Sent(r)'
         \/ Bought(r)' >= Bought(r) + 1
         \/ Left("inflight", r)' = 0,
         Hand(r)' => Hand(r)
  PROVE  Paid(r)'
<1>1. /\ Left("ready", r) \in Nat /\ Left("inflight", r) \in Nat
      /\ Bought(r) \in Int
  BY PaidTypes DEF PaidInv, SingleInv, TypeInv, Dirs
<1>2. /\ Left("ready", r)' \in Nat /\ Left("inflight", r)' \in Nat
      /\ Bought(r)' \in Int
  BY PaidTypesNext DEF PaidTyped, Dirs
<1>3. Paid(r)
  BY DEF PaidInv
<1> DEFINE R1 == Left("ready", r)'
           I1 == Left("inflight", r)'
           B1 == Bought(r)'
           s1 == Sent(r)'
           h1 == Hand(r)'
<1>4. /\ R1 <= B1
      /\ I1 <= B1 + (IF s1 THEN 1 ELSE 0)
      /\ h1 /\ I1 >= 1 => R1 + 1 <= B1
  BY <1>1, <1>2, <1>3 DEF Paid
<1> QED BY <1>4 DEF Paid

\* With one worker, what the worker does is all that is claimed or sent.
LEMMA OneWorker ==
  ASSUME SingleWorker, NEW w \in Workers, NEW r
  PROVE  /\ Sent(r) <=> SentBy(w, r)
         /\ Hand(r) <=> HandOf(w, r)
         /\ Sent(r)' <=> SentBy(w, r)'
         /\ Hand(r)' <=> HandOf(w, r)'
BY DEF SingleWorker, Sent, Hand

\* A step of the worker leaves the enqueues under way alone.
LEMMA SamePending ==
  ASSUME NEW w \in Workers, NEW r,
         \A p \in Procs \ {w} : pc'[p] = pc[p] /\ job'[p] = job[p]
  PROVE  Pending(r)' = Pending(r)
BY ProcFacts DEF Pending

LEMMA SameBought ==
  ASSUME NEW w \in Workers, NEW r,
         \A p \in Procs \ {w} : pc'[p] = pc[p] /\ job'[p] = job[p],
         UNCHANGED <<enqueues, submits, crashes>>
  PROVE  Bought(r)' = Bought(r)
BY SamePending DEF Bought

\* A producer leaves the claimed files and what the worker knows alone.
LEMMA ProducerAside ==
  ASSUME PaidInv, NEW p \in Producers,
         Producer(p) \/ WriteStep(p) \/ Crash(p)
  PROVE  /\ \A w \in Workers : SameAttempts(w)'
         /\ \A r \in Rounds : /\ Sent(r)' <=> Sent(r)
                              /\ Hand(r)' <=> Hand(r)
                              /\ Left("inflight", r)' = Left("inflight", r)
         /\ submits' = submits
<1> USE ProcFacts
<1>1. SingleInv
  BY DEF PaidInv
<1>2. \A q \in Procs \ {p} : /\ pc'[q] = pc[q] /\ job'[q] = job[q]
                             /\ batch'[q] = batch[q]
  BY <1>1, ProducerMoves
<1>3. disk'["inflight"] = disk["inflight"]
  BY <1>1, ProducerMoves DEF SingleInv, TypeOK, Dirs
<1>4. ASSUME NEW w \in Workers PROVE SameAttempts(w)'
  <2>1. SameAttempts(w)
    BY DEF PaidInv
  <2>2. pc'[w] = pc[w] /\ job'[w] = job[w] /\ batch'[w] = batch[w]
    BY <1>2
  <2> QED BY <1>3, <2>1, <2>2 DEF SameAttempts
<1>5. \A w \in Workers, r \in Rounds : /\ SentBy(w, r)' <=> SentBy(w, r)
                                       /\ HandOf(w, r)' <=> HandOf(w, r)
  BY <1>2 DEF SentBy, HandOf
<1>6. \A r \in Rounds : Left("inflight", r)' = Left("inflight", r)
  BY <1>3 DEF Left
<1>7. submits' = submits
  BY DEF Producer, Enqueue, WriteStep, CheckPasses, CheckRaises, Write,
     Unlink, Crash, histVars
<1> QED BY <1>4, <1>5, <1>6, <1>7 DEF Sent, Hand

LEMMA PaidEnqueue ==
  ASSUME PaidInv, IsFiniteSet(Producers), TypeInv', NEW p \in Producers,
         Producer(p), NEW r \in Rounds
  PROVE  Paid(r)'
<1> USE ProcFacts
<1>1. TypeInv
  BY DEF PaidInv, SingleInv, TypeInv
<1>2. PICK n \in Rounds : Enqueue(p, n)
  BY DEF Producer
<1>3. disk' = disk /\ Left("ready", r)' = Left("ready", r)
  BY <1>2 DEF Enqueue, Left
<1>4. Bought(r)' = Bought(r)
  <2>1. /\ submits' = submits /\ crashes' = crashes
        /\ enqueues' = [enqueues EXCEPT ![n] = @ + 1]
        /\ pc[p] = "idle" /\ pc' = [pc EXCEPT ![p] = "check"]
        /\ job'[p].name = n
        /\ \A q \in Procs \ {p} : job'[q] = job[q]
    BY <1>1, <1>2 DEF Enqueue, Begin, Goto, TypeInv, TypeOK
  <2>2. p \notin Pending(r) /\ IsFiniteSet(Pending(r))
    BY <1>1, <2>1, PaidTypes DEF Pending
  <2>3. CASE r = n
    <3>1. Pending(r)' = Pending(r) \cup {p}
      BY <1>1, <2>1, <2>3 DEF Pending, TypeInv, TypeOK
    <3>2. Cardinality(Pending(r) \cup {p}) = Cardinality(Pending(r)) + 1
      BY <2>2, FS_AddElement
    <3>3. enqueues'[r] = enqueues[r] + 1
      BY <1>1, <2>1, <2>3 DEF TypeInv, TypeOK
    <3>4. enqueues'[r] - Cardinality(Pending(r)')
            = enqueues[r] - Cardinality(Pending(r))
      BY <1>1, <3>1, <3>2, <3>3, PaidTypes
    <3> QED BY <2>1, <3>4 DEF Bought
  <2>4. CASE r # n
    <3>1. Pending(r)' = Pending(r)
      BY <1>1, <2>1, <2>4 DEF Pending, TypeInv, TypeOK
    <3>2. enqueues'[r] = enqueues[r]
      BY <1>1, <2>1, <2>4 DEF TypeInv, TypeOK
    <3> QED BY <2>1, <3>1, <3>2 DEF Bought
  <2> QED BY <2>3, <2>4
<1>5. Left("inflight", r)' = Left("inflight", r) /\ (Sent(r)' <=> Sent(r))
      /\ (Hand(r)' <=> Hand(r))
  BY ProducerAside
<1>6. /\ Left("ready", r) \in Nat /\ Left("inflight", r) \in Nat
      /\ Bought(r) \in Int
  BY <1>1, PaidTypes DEF Dirs
<1> QED BY <1>3, <1>4, <1>5, <1>6, PaidKeeps

\* What the end of an enqueue, written or not, releases.
LEMMA PendingEnds ==
  ASSUME TypeInv, IsFiniteSet(Producers), NEW p \in Producers, NEW r \in Rounds,
         pc[p] \in {"check", "write"}, pc'[p] = "idle",
         \A q \in Procs \ {p} : pc'[q] = pc[q] /\ job'[q] = job[q],
         enqueues' = enqueues, submits' = submits,
         crashes' >= crashes, crashes' \in Nat
  PROVE  Bought(r)' >= Bought(r)
           + (IF r = job[p].name THEN MaxAttempts ELSE 0)
<1> USE ProcFacts
<1>1. Pending(r)' = IF r = job[p].name THEN Pending(r) \ {p} ELSE Pending(r)
  BY DEF Pending
<1>2. r = job[p].name => p \in Pending(r)
  BY DEF Pending
<1> DEFINE c == Cardinality(Pending(r))
           c1 == Cardinality(Pending(r)')
           k == IF r = job[p].name THEN 1 ELSE 0
<1>3. c1 = c - k
  <2>1. IsFiniteSet(Pending(r)) /\ c \in Nat
    BY PaidTypes
  <2>2. CASE r = job[p].name
    <3>1. Pending(r)' = Pending(r) \ {p}
      BY <1>1, <2>2
    <3>2. Cardinality(Pending(r) \ {p}) = Cardinality(Pending(r)) - 1
      BY <1>2, <2>1, <2>2, FS_RemoveElement
    <3>3. k = 1
      BY <2>2
    <3> QED BY <3>1, <3>2, <3>3
  <2>3. CASE r # job[p].name
    BY <1>1, <2>1, <2>3
  <2> QED BY <2>2, <2>3
<1>4. /\ MaxAttempts \in Nat /\ c \in Nat /\ enqueues[r] \in Nat
      /\ submits[r] \in Nat /\ crashes \in Nat
  BY PaidTypes
<1> DEFINE e == enqueues[r] - c
<1>5. e \in Int /\ k \in 0 .. 1 /\ enqueues[r] - c1 = e + k
  BY <1>3, <1>4
<1>6. MaxAttempts * (enqueues[r] - c1)
        = MaxAttempts * e + (IF r = job[p].name THEN MaxAttempts ELSE 0)
  <2>1. CASE r = job[p].name
    <3>1. enqueues[r] - c1 = e + 1
      BY <1>5, <2>1
    <3> HIDE DEF e
    <3>2. MaxAttempts * (e + 1) = MaxAttempts * e + MaxAttempts
      BY <1>4, <1>5
    <3> QED BY <2>1, <3>1, <3>2
  <2>2. CASE r # job[p].name
    BY <1>4, <1>5, <2>2
  <2> QED BY <2>1, <2>2
<1>7. MaxAttempts * e \in Int
  BY <1>4, <1>5
<1> HIDE DEF e, c, c1
<1>8. Bought(r) = MaxAttempts * e + crashes - submits[r]
  BY DEF Bought, e, c
<1>9. Bought(r)' = MaxAttempts * (enqueues[r] - c1) + crashes' - submits[r]
  BY DEF Bought, c1
<1> QED BY <1>4, <1>6, <1>7, <1>8, <1>9

LEMMA PaidProducer ==
  ASSUME PaidInv, IsFiniteSet(Producers), TypeInv', NEW p \in Producers,
         WriteStep(p) \/ Crash(p), NEW r \in Rounds
  PROVE  Paid(r)'
<1> USE ProcFacts
<1>1. TypeInv /\ SingleInv
  BY DEF PaidInv, SingleInv, TypeInv
<1>2. Left("inflight", r)' = Left("inflight", r) /\ (Sent(r)' <=> Sent(r))
      /\ (Hand(r)' <=> Hand(r)) /\ submits' = submits
  BY ProducerAside
<1>3. \A q \in Procs \ {p} : pc'[q] = pc[q] /\ job'[q] = job[q]
  BY <1>1, ProducerMoves
<1>4. /\ Left("ready", r) \in Nat /\ Left("inflight", r) \in Nat
      /\ Bought(r) \in Int /\ crashes \in Nat /\ MaxAttempts \in Nat
  BY <1>1, PaidTypes DEF Dirs
<1>5. /\ Left("ready", r)' \in 0 .. MaxAttempts /\ Left("inflight", r)' \in Nat
      /\ Bought(r)' \in Int
  BY PaidTypesNext DEF PaidTyped, Dirs
<1>6. CASE CheckPasses(p)
  <2>1. /\ disk' = disk /\ UNCHANGED <<enqueues, submits, crashes, job>>
        /\ pc[p] = "check" /\ pc'[p] = "write"
    BY <1>1, <1>6 DEF CheckPasses, Goto, histVars, TypeInv, TypeOK
  <2>2. Pending(r)' = Pending(r)
    BY <1>3, <2>1 DEF Pending
  <2>3. Bought(r)' = Bought(r) /\ Left("ready", r)' = Left("ready", r)
    BY <2>1, <2>2 DEF Bought, Left
  <2> QED BY <1>2, <1>4, <2>3, PaidKeeps
<1>7. CASE CheckRaises(p) \/ Crash(p)
  <2>1. /\ disk' = disk /\ UNCHANGED <<enqueues, submits>>
        /\ crashes' \in Nat /\ crashes' >= crashes
        /\ pc[p] # "idle" /\ pc'[p] = "idle"
    BY <1>1, <1>4, <1>7
       DEF CheckRaises, Crash, Forgetful, Goto, histVars, TypeInv, TypeOK
  <2>2. pc[p] \in {"check", "write"}
    BY <1>1, <2>1 DEF SingleInv, ProducerOK
  <2>3. Bought(r)' >= Bought(r)
    BY <1>1, <1>3, <1>4, <1>5, <2>1, <2>2, PendingEnds
  <2>4. Left("ready", r)' = Left("ready", r)
    BY <2>1 DEF Left
  <2> QED BY <1>2, <1>4, <2>3, <2>4, PaidKeeps
<1>8. CASE Write(p)
  <2> DEFINE n == job[p].name
  <2>1. /\ pc[p] = "write" /\ n \in Rounds /\ job[p].dst = "ready"
        /\ pc'[p] = "idle"
        /\ UNCHANGED <<enqueues, submits, crashes>>
        /\ disk' = [disk EXCEPT !["ready"][n] = job[p].file]
    <3>1. pc[p] = "write" /\ p \in Procs
      BY <1>8 DEF Write
    <3>2. n \in Rounds
      BY <1>1, <3>1 DEF TypeInv, JobNamed, Naming
    <3>3. /\ job[p].dst = "ready" /\ job[p].src = "none"
          /\ job[p].ret = "idle"
      BY <1>1, <3>1 DEF SingleInv, ProducerOK
    <3>4. pc' = [pc EXCEPT ![p] = "idle"]
      BY <1>8, <3>3 DEF Write, Goto
    <3>5. pc'[p] = "idle"
      BY <1>1, <3>1, <3>4 DEF TypeInv, TypeOK
    <3> QED BY <1>8, <3>1, <3>2, <3>3, <3>5 DEF Write
  <2>2. Bought(r)' >= Bought(r) + (IF r = n THEN MaxAttempts ELSE 0)
    BY <1>1, <1>3, <1>4, <2>1, PendingEnds
  <2>3. CASE r # n
    <3>1. Left("ready", r)' = Left("ready", r)
      BY <1>1, <2>1, <2>3 DEF Left, TypeInv, TypeOK, Dirs
    <3>2. Bought(r)' >= Bought(r)
      BY <1>4, <2>2, <2>3
    <3> QED BY <1>2, <1>4, <3>1, <3>2, PaidKeeps
  <2>4. CASE r = n
    <3>1. Paid(r)
      BY DEF PaidInv
    <3>2. Bought(r)' >= Bought(r) + MaxAttempts
      BY <2>2, <2>4
    <3> DEFINE R1 == Left("ready", r)'
               I1 == Left("inflight", r)'
               B1 == Bought(r)'
    <3>3. R1 \in 0 .. MaxAttempts /\ B1 \in Int /\ B1 >= Bought(r) + MaxAttempts
          /\ I1 = Left("inflight", r)
      BY <1>2, <1>5, <3>2
    <3> HIDE DEF R1, I1, B1
    <3>4. R1 <= B1
      BY <1>4, <3>1, <3>3 DEF Paid
    <3>5. I1 <= B1 + (IF Sent(r) THEN 1 ELSE 0)
      BY <1>4, <3>1, <3>3 DEF Paid
    <3>6. Hand(r) /\ I1 >= 1 => R1 + 1 <= B1
      BY <1>4, <3>1, <3>3 DEF Paid
    <3> QED BY <1>2, <3>4, <3>5, <3>6 DEF Paid, R1, I1, B1
  <2> QED BY <2>3, <2>4
<1>9. CASE Unlink(p)
  BY <1>1, <1>9 DEF Unlink, SingleInv, ProducerOK
<1> QED BY <1>6, <1>7, <1>8, <1>9 DEF WriteStep

\* A step of the worker that leaves the disk alone and submits nothing.
LEMMA PaidMemory ==
  ASSUME PaidInv, SingleWorker, IsFiniteSet(Producers), TypeInv',
         NEW w \in Workers,
         \A q \in Procs \ {w} : pc'[q] = pc[q] /\ job'[q] = job[q],
         UNCHANGED <<disk, enqueues, submits, crashes>>,
         \A r \in Rounds : SentBy(w, r) => SentBy(w, r)',
         \A r \in Rounds : HandOf(w, r)' => HandOf(w, r)
  PROVE  \A r \in Rounds : Paid(r)'
<1> TAKE r \in Rounds
<1>1. Bought(r)' = Bought(r)
  BY SameBought
<1>2. /\ Left("ready", r)' = Left("ready", r)
      /\ Left("inflight", r)' = Left("inflight", r)
  BY DEF Left
<1>3. (Sent(r) => Sent(r)') /\ (Hand(r)' => Hand(r))
  BY OneWorker
<1>4. /\ Left("ready", r) \in Nat /\ Left("inflight", r) \in Nat
      /\ Bought(r) \in Int
  BY PaidTypes DEF PaidInv, SingleInv, TypeInv, Dirs
<1> QED BY <1>1, <1>2, <1>3, <1>4, PaidKeeps

\* Between two items nothing is submitted, and while an item is claimed or
\* reclaimed neither.
LEMMA NotSent ==
  ASSUME SingleInv, NEW w \in Workers, NEW r,
         \/ pc[w] \in Returns
         \/ pc[w] = "read"
         \/ job[w].ret # "process"
  PROVE  ~SentBy(w, r)
BY DEF SingleInv, AtHand, SentBy, Naming, Returns

LEMMA PaidPop ==
  ASSUME PaidInv, SingleWorker, IsFiniteSet(Producers), TypeInv',
         NEW w \in Workers,
         \/ StartCycle(w) \/ ListReady(w) \/ EndPop(w) \/ EndCycle(w)
         \/ ReadClaimed(w) \/ \E r \in Rounds : Reclaim(w, r)
  PROVE  SameAttempts(w)' /\ \A r \in Rounds : Paid(r)'
<1> USE ProcFacts
<1>1. SingleInv /\ WorkerGoal(w) /\ SameAttempts(w)
  BY Ready DEF PaidInv
<1>2. /\ disk \in [Dirs -> [Rounds -> Entry]]
      /\ pc \in [Procs -> Returns \cup Naming]
      /\ batch \in [Procs -> [Rounds -> Entry]]
      /\ job \in [Procs -> Job]
  BY <1>1, Ready
<1>3. CASE StartCycle(w) \/ ListReady(w) \/ EndPop(w) \/ EndCycle(w)
  <2>1. /\ UNCHANGED <<disk, batch, job, enqueues, submits, crashes>>
        /\ pc[w] \in Returns /\ pc'[w] \in Returns
        /\ \A q \in Procs \ {w} : pc'[q] = pc[q]
    BY <1>2, <1>3
       DEF StartCycle, ListReady, EndPop, EndCycle, Goto, histVars, Returns
  <2>2. \A r \in Rounds : ~SentBy(w, r) /\ (HandOf(w, r)' => HandOf(w, r))
    BY <1>1, <2>1, NotSent DEF HandOf, Returns
  <2>3. SameAttempts(w)'
    BY <1>1, <2>1 DEF SameAttempts, Returns
  <2> QED BY <2>1, <2>2, <2>3, PaidMemory
<1>4. CASE ReadClaimed(w)
  <2> DEFINE n == job[w].name
             f == disk["inflight"][n]
             g == [f EXCEPT !.claim = "live"]
  <2>1. /\ pc[w] = "read" /\ n \in Rounds /\ f # NoFile
        /\ UNCHANGED <<disk, todo, enqueues, submits, crashes>>
        /\ f \in Entry
    <3>1. pc[w] = "read" /\ UNCHANGED <<disk, todo, histVars>>
      BY <1>4 DEF ReadClaimed
    <3>2. n \in Rounds
      BY <1>1, <3>1, Ready DEF Naming
    <3>3. f # NoFile
      BY <1>1, <3>1 DEF WorkerGoal, AtHand, InFlight, Naming
    <3> QED BY <1>2, <3>1, <3>2, <3>3 DEF Dirs, histVars
  <2>2. \/ /\ UNCHANGED batch
           /\ Begin(w, [name |-> n, file |-> f, dst |-> "ready",
                        src |-> "inflight", ret |-> "pop"])
        \/ /\ batch' = [batch EXCEPT ![w][n] = g]
           /\ Begin(w, [name |-> n, file |-> g, dst |-> "inflight",
                        src |-> "none", ret |-> "pop"])
    BY <1>4, <2>1 DEF ReadClaimed
  <2>3. g.attempts = f.attempts
    BY <2>1, FileBody DEF File
  <2> HIDE DEF g
  <2>4. /\ \A q \in Procs \ {w} : pc'[q] = pc[q] /\ job'[q] = job[q]
        /\ pc'[w] = "check" /\ job'[w].name = n /\ job'[w].ret = "pop"
        /\ job'[w].file.attempts = f.attempts
    BY <1>2, <2>2, <2>3 DEF Begin, Goto
  <2>5. /\ \A r \in Rounds : batch'[w][r] # NoFile
             => batch'[w][r].attempts = disk["inflight"][r].attempts
        /\ \A r \in Rounds \ {n} : batch'[w][r] = batch[w][r]
    BY <1>1, <1>2, <2>2, <2>3 DEF SameAttempts
  <2>6. f.attempts \in Nat
    <3>1. f \in File
      BY <2>1, FileBody
    <3> QED BY <3>1, SpoolConstants DEF File
  <2>7. SameAttempts(w)'
    BY <2>1, <2>4, <2>5, <2>6 DEF SameAttempts
  <2>8. \A r \in Rounds : ~SentBy(w, r) /\ (HandOf(w, r)' => HandOf(w, r))
    BY <1>1, <2>1, <2>4, <2>5, NotSent DEF HandOf
  <2> QED BY <2>1, <2>4, <2>7, <2>8, PaidMemory
<1>5. ASSUME NEW n \in Rounds, Reclaim(w, n)
      PROVE  SameAttempts(w)' /\ \A r \in Rounds : Paid(r)'
  <2> DEFINE f == disk["inflight"][n]
             g == [f EXCEPT !.claim = "none", !.due = TRUE]
  <2>1. /\ pc[w] = "reclaim" /\ f # NoFile
        /\ UNCHANGED <<disk, batch, enqueues, submits, crashes>>
        /\ f \in Entry
    BY <1>1, <1>2, <1>5
       DEF Reclaim, WorkerGoal, Listed, IsFirst, InFlight, Dirs, histVars
  <2>2. \/ UNCHANGED <<pc, job>>
        \/ Begin(w, [name |-> n, file |-> g, dst |-> "ready",
                     src |-> "inflight", ret |-> "reclaim"])
    BY <1>5, <2>1 DEF Reclaim
  <2>3. f \in File
    BY <2>1, FileBody
  <2>4. g.attempts = f.attempts /\ f.attempts \in Nat
    BY <2>3, SpoolConstants DEF File
  <2> HIDE DEF g
  <2>5. /\ \A q \in Procs \ {w} : pc'[q] = pc[q] /\ job'[q] = job[q]
        /\ pc'[w] # "read"
        /\ pc'[w] \in {"check", "write"}
             => /\ job'[w].name = n /\ job'[w].ret = "reclaim"
                /\ job'[w].file.attempts = f.attempts
    BY <1>2, <2>1, <2>2, <2>4 DEF Begin, Goto
  <2>6. SameAttempts(w)'
    BY <1>1, <2>1, <2>4, <2>5 DEF SameAttempts
  <2>7. \A r \in Rounds : ~SentBy(w, r) /\ (HandOf(w, r)' => HandOf(w, r))
    BY <1>1, <2>1, <2>5, NotSent DEF HandOf, Returns
  <2> QED BY <2>1, <2>5, <2>6, <2>7, PaidMemory
<1> QED BY <1>3, <1>4, <1>5

LEMMA PaidQuit ==
  ASSUME PaidInv, SingleWorker, IsFiniteSet(Producers), TypeInv',
         NEW w \in Workers, CheckPasses(w) \/ CheckRaises(w) \/ Crash(w),
         DisposalFits
  PROVE  SameAttempts(w)' /\ \A r \in Rounds : Paid(r)'
<1> USE ProcFacts
<1>1. SingleInv /\ SameAttempts(w) /\ TypeInv
  BY Ready DEF PaidInv
<1>2. /\ pc \in [Procs -> Returns \cup Naming]
      /\ batch \in [Procs -> [Rounds -> Entry]]
      /\ job \in [Procs -> Job]
  BY <1>1, Ready
<1>3. CASE CheckPasses(w)
  <2>1. /\ UNCHANGED <<disk, batch, job, enqueues, submits, crashes>>
        /\ pc[w] = "check" /\ pc'[w] = "write"
        /\ \A q \in Procs \ {w} : pc'[q] = pc[q]
    BY <1>2, <1>3 DEF CheckPasses, Goto, histVars
  <2>2. SameAttempts(w)'
    BY <1>1, <2>1 DEF SameAttempts
  <2>3. \A r \in Rounds : /\ SentBy(w, r) => SentBy(w, r)'
                          /\ HandOf(w, r)' => HandOf(w, r)
    BY <2>1 DEF SentBy, HandOf, Naming
  <2> QED BY <2>1, <2>2, <2>3, PaidMemory
<1>4. CASE CheckRaises(w) \/ Crash(w)
  <2>0. Forgetful(w) /\ UNCHANGED <<disk, enqueues, submits>>
    BY <1>4 DEF CheckRaises, Crash, histVars
  <2>1. /\ pc'[w] = "idle" /\ batch'[w] = Empty
        /\ \A q \in Procs \ {w} : pc'[q] = pc[q] /\ job'[q] = job[q]
    BY <1>2, <2>0 DEF Forgetful, Goto
  <2>2. \A r \in Rounds : ~HandOf(w, r)' /\ batch'[w][r] = NoFile
    BY <2>1 DEF HandOf, Empty
  <2>3. SameAttempts(w)'
    BY <2>1, <2>2 DEF SameAttempts
  <2>4. CASE CheckRaises(w)
    <3>1. \A r \in Rounds : ~SentBy(w, r)
      BY <1>1, <2>4, NotSent DEF DisposalFits
    <3>2. crashes' = crashes
      BY <2>4 DEF CheckRaises, histVars
    <3> QED BY <2>0, <2>1, <2>2, <2>3, <3>1, <3>2, PaidMemory
  <2>5. CASE Crash(w)
    <3> SUFFICES ASSUME NEW r \in Rounds PROVE Paid(r)'
      BY <2>3
    <3>1. crashes' = crashes + 1 /\ Pending(r)' = Pending(r)
      BY <2>1, <2>5, SamePending DEF Crash
    <3>2. /\ Left("ready", r) \in Nat /\ Left("inflight", r) \in Nat
          /\ Bought(r) \in Int /\ crashes \in Nat /\ submits[r] \in Nat
          /\ MaxAttempts * (enqueues[r] - Cardinality(Pending(r))) \in Int
      BY <1>1, PaidTypes DEF Dirs
    <3>3. Bought(r)' = Bought(r) + 1
      BY <2>0, <3>1, <3>2 DEF Bought
    <3>4. /\ Left("ready", r)' = Left("ready", r)
          /\ Left("inflight", r)' = Left("inflight", r)
      BY <2>0 DEF Left
    <3>5. ~Hand(r)'
      BY <2>2, OneWorker
    <3> QED BY <3>2, <3>3, <3>4, <3>5, PaidKeeps
  <2> QED BY <1>4, <2>4, <2>5
<1> QED BY <1>3, <1>4

\* The steps of the worker that keep its memory of the items in order and the
\* disk as it is: a claim given up, and the reading of what is filed as failed.
LEMMA PaidGivingUp ==
  ASSUME PaidInv, SingleWorker, IsFiniteSet(Producers), TypeInv',
         NEW w \in Workers,
         ReadFailing(w) \/ \E r \in Rounds : GiveUp(w, r)
  PROVE  SameAttempts(w)' /\ \A r \in Rounds : Paid(r)'
<1> USE ProcFacts
<1>1. SingleInv /\ SameAttempts(w) /\ TypeInv
  BY Ready DEF PaidInv
<1>2. /\ pc \in [Procs -> Returns \cup Naming]
      /\ batch \in [Procs -> [Rounds -> Entry]]
      /\ job \in [Procs -> Job]
  BY <1>1, Ready
<1>3. CASE ReadFailing(w)
  <2> DEFINE src == IF disk["inflight"][job[w].name] # NoFile THEN "inflight"
                                                              ELSE "ready"
             f == disk[src][job[w].name]
             j == [name |-> job[w].name, file |-> IF f = NoFile THEN Husk ELSE f,
                   dst |-> "failed", src |-> src, ret |-> job[w].ret]
  <2>1. /\ UNCHANGED <<disk, batch, enqueues, submits, crashes>>
        /\ pc[w] = "fail" /\ Begin(w, j)
        /\ j.name = job[w].name /\ j.ret = job[w].ret /\ j.dst = "failed"
    BY <1>3 DEF ReadFailing, histVars
  <2> HIDE DEF j
  <2>2. /\ pc'[w] = "check" /\ job'[w] = j
        /\ \A q \in Procs \ {w} : pc'[q] = pc[q] /\ job'[q] = job[q]
    BY <1>2, <2>1 DEF Begin, Goto
  <2>3. SameAttempts(w)'
    BY <1>1, <2>1, <2>2 DEF SameAttempts
  <2>4. \A r \in Rounds : /\ SentBy(w, r) => SentBy(w, r)'
                          /\ HandOf(w, r)' => HandOf(w, r)
    BY <2>1, <2>2 DEF SentBy, HandOf, Naming
  <2> QED BY <2>1, <2>2, <2>3, <2>4, PaidMemory
<1>4. ASSUME NEW n \in Rounds, GiveUp(w, n)
      PROVE  SameAttempts(w)' /\ \A r \in Rounds : Paid(r)'
  <2>1. /\ UNCHANGED <<disk, enqueues, submits, crashes>>
        /\ pc[w] = "process" /\ batch' = [batch EXCEPT ![w][n] = NoFile]
        /\ Hold(w, n, "process", "fail")
    BY <1>4 DEF GiveUp, Current, histVars
  <2>2. /\ pc'[w] = "fail"
        /\ \A q \in Procs \ {w} : pc'[q] = pc[q] /\ job'[q] = job[q]
    BY <1>2, <2>1 DEF Hold, Goto
  <2>3. \A r \in Rounds : batch'[w][r] = IF r = n THEN NoFile ELSE batch[w][r]
    BY <1>2, <2>1
  <2>4. SameAttempts(w)'
    BY <1>1, <2>1, <2>2, <2>3 DEF SameAttempts
  <2>5. \A r \in Rounds : ~SentBy(w, r) /\ (HandOf(w, r)' => HandOf(w, r))
    BY <1>1, <2>1, <2>2, <2>3, NotSent DEF HandOf, Returns
  <2> QED BY <2>1, <2>2, <2>4, <2>5, PaidMemory
<1> QED BY <1>3, <1>4

\* A submission uses up what the claimed file still allowed.
LEMMA PaidSubmit ==
  ASSUME PaidInv, SingleWorker, IsFiniteSet(Producers), TypeInv',
         NEW w \in Workers, NEW n \in Rounds,
         \/ SubmitStored(w, n) \/ SubmitUnavailable(w, n)
         \/ SubmitRefused(w, n)
  PROVE  SameAttempts(w)' /\ \A r \in Rounds : Paid(r)'
<1> USE ProcFacts
<1>1. SingleInv /\ SameAttempts(w) /\ TypeInv /\ WorkerGoal(w)
  BY Ready DEF PaidInv
<1>2. /\ pc \in [Procs -> Returns \cup Naming]
      /\ batch \in [Procs -> [Rounds -> Entry]]
      /\ job \in [Procs -> Job]
      /\ disk \in [Dirs -> [Rounds -> Entry]]
  BY <1>1, Ready
<1> DEFINE b == batch[w][n]
<1>3. /\ UNCHANGED <<disk, todo, enqueues, crashes>>
      /\ pc[w] = "process" /\ batch' = [batch EXCEPT ![w][n] = NoFile]
      /\ b # NoFile /\ ~Exhausted(b) /\ CountSubmit(n)
  BY DEF SubmitStored, SubmitUnavailable, SubmitRefused, Submits, Current,
     IsFirst, Claimed
<1>4. b \in File /\ b.attempts \in Nat /\ b.attempts + 1 <= MaxAttempts
  <2>1. b \in File
    BY <1>2, <1>3, FileBody
  <2> QED BY <1>3, <2>1, SpoolConstants DEF File, Exhausted
<1>5. \/ /\ Begin(w, [name |-> n, file |-> Recorded(b), dst |-> "ready",
                      src |-> "inflight", ret |-> "process"])
      \/ \E label \in {"complete", "fail"} : Hold(w, n, "process", label)
  BY DEF SubmitStored, SubmitUnavailable, SubmitRefused
<1>6. Recorded(b).attempts = b.attempts + 1
  BY <1>4 DEF Recorded, File
<1>7. /\ \A q \in Procs \ {w} : pc'[q] = pc[q] /\ job'[q] = job[q]
      /\ pc'[w] \in {"complete", "fail", "check"}
      /\ job'[w].name = n /\ job'[w].ret = "process"
      /\ pc'[w] = "check" => job'[w].file.attempts = b.attempts + 1
  <2>1. CASE Begin(w, [name |-> n, file |-> Recorded(b), dst |-> "ready",
                       src |-> "inflight", ret |-> "process"])
    BY <1>2, <1>6, <2>1 DEF Begin, Goto
  <2>2. CASE \E label \in {"complete", "fail"} : Hold(w, n, "process", label)
    <3> DEFINE j == [NoJob EXCEPT !.name = n, !.ret = "process"]
    <3>1. j.name = n /\ j.ret = "process"
      BY HoldFacts DEF Returns
    <3> HIDE DEF j
    <3>2. PICK label \in {"complete", "fail"} :
            job' = [job EXCEPT ![w] = j] /\ pc' = [pc EXCEPT ![w] = label]
      BY <2>2 DEF Hold, Goto, j
    <3> QED BY <1>2, <3>1, <3>2
  <2> QED BY <1>5, <2>1, <2>2
<1>8. \A r \in Rounds : batch'[w][r] = IF r = n THEN NoFile ELSE batch[w][r]
  BY <1>2, <1>3
<1>9. b.attempts = disk["inflight"][n].attempts /\ InFlight(n)
  BY <1>1, <1>3 DEF SameAttempts, WorkerGoal
<1>10. SameAttempts(w)'
  BY <1>1, <1>3, <1>7, <1>8, <1>9 DEF SameAttempts
<1>11. ASSUME NEW r \in Rounds PROVE Paid(r)'
  <2>1. /\ Left("ready", r) \in Nat /\ Left("inflight", r) \in Nat
        /\ Bought(r) \in Int /\ crashes \in Nat /\ submits[r] \in Nat
        /\ MaxAttempts * (enqueues[r] - Cardinality(Pending(r))) \in Int
    BY <1>1, PaidTypes DEF Dirs
  <2>2. /\ Left("ready", r)' = Left("ready", r)
        /\ Left("inflight", r)' = Left("inflight", r)
        /\ Pending(r)' = Pending(r)
    BY <1>3, <1>7, SamePending DEF Left
  <2>3. CASE r # n
    <3>1. submits'[r] = submits[r]
      BY <1>1, <1>3, <2>3 DEF CountSubmit, TypeInv, TypeOK
    <3>2. Bought(r)' = Bought(r)
      BY <1>3, <2>2, <3>1 DEF Bought
    <3>3. ~Sent(r) /\ (Hand(r)' => Hand(r))
      <4>1. ~SentBy(w, r)
        BY <1>1, <1>3, NotSent DEF Returns
      <4>2. HandOf(w, r)' => HandOf(w, r)
        BY <1>7, <1>8 DEF HandOf
      <4> QED BY <4>1, <4>2, OneWorker
    <3> QED BY <2>1, <2>2, <3>2, <3>3, PaidKeeps
  <2>4. CASE r = n
    <3>1. submits'[r] \in {submits[r], submits[r] + 1}
      BY <1>1, <1>3, <2>4 DEF CountSubmit, TypeInv, TypeOK
    <3>2. Bought(r)' \in {Bought(r), Bought(r) - 1}
      BY <1>3, <2>1, <2>2, <3>1 DEF Bought
    <3>3. Left("inflight", r) >= 1
      BY <1>4, <1>9, <2>4, SpoolConstants DEF Left, InFlight
    <3>4. Hand(r) /\ Sent(r)' /\ ~Hand(r)' /\ ~Sent(r)
      <4>1. HandOf(w, r) /\ SentBy(w, r)' /\ ~HandOf(w, r)' /\ ~SentBy(w, r)
        BY <1>1, <1>3, <1>7, <1>8, <2>4, NotSent
           DEF HandOf, SentBy, Naming, Returns
      <4> QED BY <4>1, OneWorker
    <3>5. Paid(r)
      BY DEF PaidInv
    <3>6. /\ Left("ready", r) <= Bought(r) - 1
          /\ Left("inflight", r) <= Bought(r)
      BY <2>1, <3>3, <3>4, <3>5 DEF Paid
    <3> DEFINE B1 == Bought(r)'
    <3>7. /\ Left("ready", r) <= B1
          /\ Left("inflight", r) <= B1 + 1
      BY <2>1, <3>2, <3>6
    <3> HIDE DEF B1
    <3> QED BY <2>2, <3>4, <3>7 DEF Paid, B1
  <2> QED BY <2>3, <2>4
<1> QED BY <1>10, <1>11

\* A claim moves the attempts with the file.
LEMMA PaidClaim ==
  ASSUME PaidInv, SingleWorker, IsFiniteSet(Producers), TypeInv',
         NEW w \in Workers, NEW n \in Rounds, Claim(w, n)
  PROVE  SameAttempts(w)' /\ \A r \in Rounds : Paid(r)'
<1> USE ProcFacts
<1>1. SingleInv /\ SameAttempts(w) /\ TypeInv /\ WorkerGoal(w)
  BY Ready DEF PaidInv
<1>2. /\ pc \in [Procs -> Returns \cup Naming]
      /\ batch \in [Procs -> [Rounds -> Entry]]
      /\ job \in [Procs -> Job]
      /\ disk \in [Dirs -> [Rounds -> Entry]]
  BY <1>1, Ready
<1>3. /\ pc[w] = "pop" /\ UNCHANGED <<batch, histVars>>
      /\ disk["ready"][n] # NoFile /\ n \notin Claimed(w)
  BY <1>1 DEF Claim, WorkerGoal, Listed, IsFirst
<1>4. /\ disk' = [disk EXCEPT !["ready"][n] = NoFile,
                              !["inflight"][n] = disk["ready"][n]]
      /\ Hold(w, n, "pop", "read")
  BY <1>3 DEF Claim
<1>5. /\ \A q \in Procs \ {w} : pc'[q] = pc[q] /\ job'[q] = job[q]
      /\ pc'[w] = "read" /\ job'[w].name = n /\ job'[w].ret = "pop"
  <2> DEFINE j == [NoJob EXCEPT !.name = n, !.ret = "pop"]
  <2>1. j.name = n /\ j.ret = "pop"
    BY HoldFacts DEF Returns
  <2> HIDE DEF j
  <2>2. job' = [job EXCEPT ![w] = j] /\ pc' = [pc EXCEPT ![w] = "read"]
    BY <1>4 DEF Hold, Goto, j
  <2> QED BY <1>2, <2>1, <2>2
<1>6. /\ disk'["ready"][n] = NoFile /\ disk'["inflight"][n] = disk["ready"][n]
      /\ \A d \in Dirs, r \in Rounds \ {n} : disk'[d][r] = disk[d][r]
  BY <1>2, <1>4 DEF Dirs
<1>7. SameAttempts(w)'
  BY <1>1, <1>3, <1>5, <1>6 DEF SameAttempts, Claimed, Dirs
<1>8. ASSUME NEW r \in Rounds PROVE Paid(r)'
  <2>1. /\ Left("ready", r) \in Nat /\ Left("inflight", r) \in Nat
        /\ Bought(r) \in Int
    BY <1>1, PaidTypes DEF Dirs
  <2>2. Bought(r)' = Bought(r)
    BY <1>3, <1>5, SameBought DEF histVars
  <2>3. ~Sent(r) /\ ~Sent(r)'
    <3>1. ~SentBy(w, r) /\ ~SentBy(w, r)'
      BY <1>1, <1>3, <1>5, NotSent DEF SentBy, Returns
    <3> QED BY <3>1, OneWorker
  <2>4. CASE r # n
    <3>1. /\ Left("ready", r)' = Left("ready", r)
          /\ Left("inflight", r)' = Left("inflight", r)
      BY <1>6, <2>4 DEF Left, Dirs
    <3>2. HandOf(w, r)' => HandOf(w, r)
      BY <1>3, <1>5, <2>4 DEF HandOf
    <3>3. Hand(r)' => Hand(r)
      BY <3>2, OneWorker
    <3> QED BY <2>1, <2>2, <2>3, <3>1, <3>3, PaidKeeps
  <2>5. CASE r = n
    <3>1. /\ Left("ready", r)' = 0
          /\ Left("inflight", r)' = Left("ready", r)
      BY <1>6, <2>5 DEF Left
    <3>2. Left("ready", r) <= Bought(r)
      BY DEF PaidInv, Paid
    <3> QED BY <2>1, <2>2, <2>3, <3>1, <3>2 DEF Paid
  <2> QED BY <2>4, <2>5
<1> QED BY <1>7, <1>8

\* A write of the worker puts back what the claimed file still allows, or one
\* attempt less.
LEMMA PaidWrite ==
  ASSUME PaidInv, SingleWorker, IsFiniteSet(Producers), TypeInv',
         NEW w \in Workers, Write(w)
  PROVE  SameAttempts(w)' /\ \A r \in Rounds : Paid(r)'
<1> USE ProcFacts
<1>1. SingleInv /\ SameAttempts(w) /\ TypeInv /\ WorkerGoal(w)
  BY Ready DEF PaidInv
<1>2. /\ pc \in [Procs -> Returns \cup Naming]
      /\ batch \in [Procs -> [Rounds -> Entry]]
      /\ job \in [Procs -> Job]
      /\ disk \in [Dirs -> [Rounds -> Entry]]
  BY <1>1, Ready
<1> DEFINE j == job[w]
           n == job[w].name
<1>3. /\ pc[w] = "write" /\ n \in Rounds /\ j.file # NoFile /\ j.dst \in Dirs
      /\ disk' = [disk EXCEPT ![j.dst][n] = j.file]
      /\ UNCHANGED <<todo, batch, enqueues, submits, crashes>>
      /\ \A q \in Procs \ {w} : pc'[q] = pc[q] /\ job'[q] = job[q]
  <2>1. pc[w] = "write" /\ n \in Rounds /\ j \in Job
    BY <1>1, <1>2, Ready DEF Write, Naming
  <2>2. Whole(j.file)
    BY <1>1, <2>1 DEF WorkerGoal
  <2>3. j.file # NoFile /\ j.dst \in Dirs
    BY <2>1, <2>2, FileFacts DEF Job
  <2>4. \A q \in Procs \ {w} : pc'[q] = pc[q] /\ job'[q] = job[q]
    BY <1>2 DEF Write, Goto
  <2>5. /\ disk' = [disk EXCEPT ![j.dst][n] = j.file]
        /\ UNCHANGED <<todo, batch, enqueues, submits, crashes>>
    BY DEF Write
  <2> QED BY <2>1, <2>3, <2>4, <2>5
<1>4. InFlight(n)
  BY <1>1, <1>3 DEF WorkerGoal, AtHand, Naming
<1>5. \/ /\ j.src = "none" /\ j.dst = "inflight" /\ j.ret = "pop"
         /\ pc'[w] = "pop"
      \/ /\ j.src # "none" /\ j.dst \in {"ready", "failed"}
         /\ pc'[w] = "unlink" /\ job' = job /\ batch[w][n] = NoFile
  BY <1>1, <1>2, <1>3 DEF Write, Goto, WorkerGoal, AtHand, Naming
<1>6. disk["inflight"][n].attempts \in 0 .. MaxAttempts
  <2>1. disk["inflight"][n] \in Entry /\ disk["inflight"][n] # NoFile
    BY <1>2, <1>3, <1>4 DEF Dirs, InFlight
  <2> QED BY <2>1 DEF Entry, File
<1>7. j.dst # "failed" => j.file.attempts = disk["inflight"][n].attempts
                            + (IF j.ret = "process" THEN 1 ELSE 0)
  BY <1>1, <1>3 DEF SameAttempts
<1>8. \A d \in Dirs, r \in Rounds :
        disk'[d][r] = IF d = j.dst /\ r = n THEN j.file ELSE disk[d][r]
  BY <1>2, <1>3 DEF Dirs
<1>9. SameAttempts(w)'
  BY <1>1, <1>3, <1>5, <1>6, <1>7, <1>8 DEF SameAttempts, Dirs
<1>10. ASSUME NEW r \in Rounds PROVE Paid(r)'
  <2>1. /\ Left("ready", r) \in Nat /\ Left("inflight", r) \in Nat
        /\ Bought(r) \in Int
    BY <1>1, PaidTypes DEF Dirs
  <2>2. Bought(r)' = Bought(r)
    BY <1>3, SameBought
  <2>3. /\ Sent(r) => Sent(r)'
        /\ Hand(r)' => Hand(r)
    <3>1. SentBy(w, r) => SentBy(w, r)'
      BY <1>3, <1>5 DEF SentBy, Naming
    <3>2. HandOf(w, r)' => HandOf(w, r)
      BY <1>3, <1>5 DEF HandOf
    <3> QED BY <3>1, <3>2, OneWorker
  <2>4. Left("inflight", r)' = Left("inflight", r)
    <3>1. CASE j.dst = "inflight" /\ r = n
      <4>1. j.file.attempts = disk["inflight"][n].attempts
        BY <1>5, <1>6, <1>7, <3>1
      <4> QED BY <1>3, <1>4, <1>8, <3>1, <4>1 DEF Left, InFlight, Dirs
    <3>2. CASE ~(j.dst = "inflight" /\ r = n)
      BY <1>8, <3>2 DEF Left, Dirs
    <3> QED BY <3>1, <3>2
  <2>5. CASE ~(j.dst = "ready" /\ r = n)
    <3>1. Left("ready", r)' = Left("ready", r)
      BY <1>8, <2>5 DEF Left, Dirs
    <3> QED BY <2>1, <2>2, <2>3, <2>4, <3>1, PaidKeeps
  <2>6. CASE j.dst = "ready" /\ r = n
    <3>1. Left("inflight", r) = MaxAttempts - disk["inflight"][n].attempts
      BY <1>4, <2>6 DEF Left, InFlight
    <3>2. Left("ready", r)' = MaxAttempts - j.file.attempts
      BY <1>3, <1>8, <2>6 DEF Left, Dirs
    <3>3. Left("ready", r)' = Left("inflight", r)
                                - (IF j.ret = "process" THEN 1 ELSE 0)
      BY <1>6, <1>7, <2>6, <3>1, <3>2, SpoolConstants
    <3>4. Sent(r) <=> j.ret = "process"
      <4>1. SentBy(w, r) <=> j.ret = "process"
        BY <1>3, <2>6 DEF SentBy, Naming
      <4> QED BY <4>1, OneWorker
    <3>5. Sent(r)' <=> Sent(r)
      <4>1. SentBy(w, r)' <=> SentBy(w, r)
        BY <1>3, <1>5, <2>6 DEF SentBy, Naming
      <4> QED BY <4>1, OneWorker
    <3>6. ~Hand(r)'
      <4>1. ~HandOf(w, r)'
        BY <1>3, <1>5, <2>6 DEF HandOf
      <4> QED BY <4>1, OneWorker
    <3>7. Left("inflight", r) <= Bought(r) + (IF Sent(r) THEN 1 ELSE 0)
      BY DEF PaidInv, Paid
    <3> DEFINE R1 == Left("ready", r)'
    <3>8. R1 <= Bought(r)
      BY <2>1, <3>3, <3>4, <3>7
    <3> HIDE DEF R1
    <3>9. R1 = Left("ready", r)'
      BY DEF R1
    <3> QED BY <2>2, <2>4, <3>5, <3>6, <3>7, <3>8, <3>9 DEF Paid
  <2> QED BY <2>5, <2>6
<1> QED BY <1>9, <1>10

\* The removal of a claimed file.
LEMMA PaidRemove ==
  ASSUME PaidInv, SingleWorker, IsFiniteSet(Producers), TypeInv',
         NEW w \in Workers, Unlink(w) \/ Complete(w)
  PROVE  SameAttempts(w)' /\ \A r \in Rounds : Paid(r)'
<1> USE ProcFacts
<1>1. SingleInv /\ SameAttempts(w) /\ TypeInv /\ WorkerGoal(w)
  BY Ready DEF PaidInv
<1>2. /\ pc \in [Procs -> Returns \cup Naming]
      /\ batch \in [Procs -> [Rounds -> Entry]]
      /\ job \in [Procs -> Job]
      /\ disk \in [Dirs -> [Rounds -> Entry]]
  BY <1>1, Ready
<1> DEFINE n == job[w].name
<1>3. /\ pc[w] \in {"unlink", "complete"} /\ n \in Rounds
      /\ UNCHANGED <<todo, batch, enqueues, submits, crashes>>
      /\ \A q \in Procs \ {w} : pc'[q] = pc[q] /\ job'[q] = job[q]
  BY <1>1, <1>2, Ready DEF Unlink, Complete, Goto, Naming, histVars
<1>4. batch[w][n] = NoFile /\ (pc[w] = "unlink" => job[w].src = "inflight")
  BY <1>1, <1>3 DEF WorkerGoal, AtHand, Naming
<1>5. /\ disk' = [disk EXCEPT !["inflight"][n] = NoFile]
      /\ pc'[w] \in Returns
  <2>1. job[w].ret \in Returns
    BY <1>2 DEF Job
  <2> QED BY <1>2, <1>4, <2>1 DEF Unlink, Complete, Goto, Returns
<1>6. /\ disk'["inflight"][n] = NoFile /\ disk'["ready"] = disk["ready"]
      /\ \A r \in Rounds \ {n} : disk'["inflight"][r] = disk["inflight"][r]
  BY <1>2, <1>3, <1>5 DEF Dirs
<1>7. SameAttempts(w)'
  BY <1>1, <1>3, <1>4, <1>5, <1>6 DEF SameAttempts, Returns
<1>8. ASSUME NEW r \in Rounds PROVE Paid(r)'
  <2>1. /\ Left("ready", r) \in Nat /\ Left("inflight", r) \in Nat
        /\ Bought(r) \in Int
    BY <1>1, PaidTypes DEF Dirs
  <2>2. Bought(r)' = Bought(r) /\ Left("ready", r)' = Left("ready", r)
    BY <1>3, <1>6, SameBought DEF Left
  <2>3. Hand(r)' => Hand(r)
    <3>1. HandOf(w, r)' => HandOf(w, r)
      BY <1>3, <1>5 DEF HandOf, Returns
    <3> QED BY <3>1, OneWorker
  <2>4. CASE r = n
    <3>1. Left("inflight", r)' = 0
      BY <1>6, <2>4 DEF Left
    <3> QED BY <2>1, <2>2, <2>3, <3>1, PaidKeeps
  <2>5. CASE r # n
    <3>1. Left("inflight", r)' = Left("inflight", r)
      BY <1>6, <2>5 DEF Left
    <3>2. ~Sent(r)
      BY <2>5, OneWorker DEF SentBy
    <3> QED BY <2>1, <2>2, <2>3, <3>1, <3>2, PaidKeeps
  <2> QED BY <2>4, <2>5
<1> QED BY <1>7, <1>8

LEMMA LaterAttempts ==
  ASSUME NEW f \in Entry
  PROVE  Elapsed(f).attempts = f.attempts /\ Aged(f).attempts = f.attempts
<1>1. CASE f = NoFile
  BY <1>1 DEF Elapsed, Aged, NoFile
<1>2. CASE f # NoFile
  <2>1. f \in File
    BY <1>2, FileBody
  <2> QED BY <1>2, <2>1 DEF Elapsed, Aged, File
<1> QED BY <1>1, <1>2

LEMMA TimeAttempts ==
  ASSUME TypeInv, Time
  PROVE  /\ \A d \in Dirs, r \in Rounds :
              disk'[d][r].attempts = disk[d][r].attempts
         /\ \A p \in Procs, r \in Rounds :
              batch'[p][r].attempts = batch[p][r].attempts
         /\ \A p \in Procs : job'[p].file.attempts = job[p].file.attempts
<1> USE DEF TypeInv, TypeOK
<1>1. PICK r \in Rounds : BackoffElapses(r) \/ ClaimExpires(r)
  BY DEF Time
<1>2. \A p \in Procs : job[p] \in Job /\ job[p].file \in Entry
  BY DEF Job
<1>3. CASE BackoffElapses(r)
  <2>1. \A f \in Entry : Elapsed(f).attempts = f.attempts
    BY LaterAttempts
  <2>2. ASSUME NEW d \in Dirs, NEW n \in Rounds
        PROVE  disk'[d][n].attempts = disk[d][n].attempts
    BY <1>3, <2>1 DEF BackoffElapses, Passes
  <2>3. ASSUME NEW p \in Procs, NEW n \in Rounds
        PROVE  batch'[p][n].attempts = batch[p][n].attempts
    BY <1>3, <2>1 DEF BackoffElapses, Passes
  <2>4. ASSUME NEW p \in Procs
        PROVE  job'[p].file.attempts = job[p].file.attempts
    BY <1>2, <1>3, <2>1 DEF BackoffElapses, Passes, Job
  <2> QED BY <2>2, <2>3, <2>4
<1>4. CASE ClaimExpires(r)
  <2>1. \A f \in Entry : Aged(f).attempts = f.attempts
    BY LaterAttempts
  <2>2. ASSUME NEW d \in Dirs, NEW n \in Rounds
        PROVE  disk'[d][n].attempts = disk[d][n].attempts
    BY <1>4, <2>1 DEF ClaimExpires, Passes
  <2>3. ASSUME NEW p \in Procs, NEW n \in Rounds
        PROVE  batch'[p][n].attempts = batch[p][n].attempts
    BY <1>4, <2>1 DEF ClaimExpires, Passes
  <2>4. ASSUME NEW p \in Procs
        PROVE  job'[p].file.attempts = job[p].file.attempts
    BY <1>2, <1>4, <2>1 DEF ClaimExpires, Passes, Job
  <2> QED BY <2>2, <2>3, <2>4
<1> QED BY <1>1, <1>3, <1>4

LEMMA PaidTime ==
  ASSUME PaidInv, IsFiniteSet(Producers), TypeInv', Time \/ UNCHANGED vars
  PROVE  /\ \A w \in Workers : SameAttempts(w)'
         /\ \A r \in Rounds : Paid(r)'
<1> USE ProcFacts
<1>1. TypeInv /\ JobNamed
  BY DEF PaidInv, SingleInv, TypeInv
<1>2. /\ \A d \in Dirs, r \in Rounds :
           /\ disk'[d][r] = NoFile <=> disk[d][r] = NoFile
           /\ disk'[d][r].attempts = disk[d][r].attempts
      /\ \A p \in Procs, r \in Rounds :
           /\ batch'[p][r] = NoFile <=> batch[p][r] = NoFile
           /\ batch'[p][r].attempts = batch[p][r].attempts
      /\ \A p \in Procs :
           /\ job'[p].file.attempts = job[p].file.attempts
           /\ job'[p].name = job[p].name /\ job'[p].dst = job[p].dst
           /\ job'[p].ret = job[p].ret
      /\ UNCHANGED <<pc, enqueues, submits, crashes>>
  <2>1. CASE Time
    BY <1>1, <2>1, TimeMoves, TimeAttempts DEF histVars
  <2>2. CASE UNCHANGED vars
    BY <2>2 DEF vars
  <2> QED BY <2>1, <2>2
<1>3. ASSUME NEW w \in Workers PROVE SameAttempts(w)'
  <2>1. SameAttempts(w) /\ (pc[w] \in {"check", "write"} => job[w].name \in Rounds)
    BY <1>1 DEF PaidInv, JobNamed, Naming
  <2> QED BY <1>2, <2>1 DEF SameAttempts, Dirs
<1>4. ASSUME NEW r \in Rounds PROVE Paid(r)'
  <2>1. Pending(r)' = Pending(r)
    BY <1>2 DEF Pending
  <2>2. Bought(r)' = Bought(r)
    BY <1>2, <2>1 DEF Bought
  <2>3. /\ Left("ready", r)' = Left("ready", r)
        /\ Left("inflight", r)' = Left("inflight", r)
    BY <1>2 DEF Left, Dirs
  <2>4. (Sent(r)' <=> Sent(r)) /\ (Hand(r)' <=> Hand(r))
    BY <1>2 DEF Sent, SentBy, Hand, HandOf
  <2>5. /\ Left("ready", r) \in Nat /\ Left("inflight", r) \in Nat
        /\ Bought(r) \in Int
    BY <1>1, PaidTypes DEF Dirs
  <2> QED BY <2>2, <2>3, <2>4, <2>5, PaidKeeps
<1> QED BY <1>3, <1>4

LEMMA PaidInit ==
  ASSUME IsFiniteSet(Producers), Init
  PROVE  PaidInv
<1>1. SingleInv /\ TypeInv
  BY SafeInit, TypeInit
<1>2. /\ \A p \in Procs : pc[p] = "idle"
      /\ \A p \in Procs, r \in Rounds : batch[p][r] = NoFile
      /\ \A d \in Dirs, r \in Rounds : disk[d][r] = NoFile
      /\ \A r \in Rounds : enqueues[r] = 0 /\ submits[r] = 0
      /\ crashes = 0
  BY DEF Init, Empty
<1>3. \A w \in Workers : SameAttempts(w)
  BY <1>2, ProcFacts DEF SameAttempts
<1>4. ASSUME NEW r \in Rounds PROVE Paid(r)
  <2>1. Pending(r) = {} /\ ~Sent(r) /\ ~Hand(r)
    BY <1>2, ProcFacts DEF Pending, Sent, SentBy, Hand, HandOf, Naming
  <2>2. Cardinality(Pending(r)) = 0
    BY <2>1, FS_EmptySet
  <2>3. Bought(r) = 0
    BY <1>2, <2>2, SpoolConstants DEF Bought
  <2>4. Left("ready", r) = 0 /\ Left("inflight", r) = 0
    BY <1>2 DEF Left, Dirs
  <2> QED BY <2>1, <2>3, <2>4 DEF Paid
<1> QED BY <1>1, <1>3, <1>4 DEF PaidInv

LEMMA PaidNext ==
  ASSUME PaidInv, SingleWorker, IsFiniteSet(Producers), [Next]_vars,
         DisposalFits
  PROVE  PaidInv'
<1> USE ProcFacts
<1>1. SingleInv /\ SingleInv' /\ TypeInv'
  <2>1. SingleInv /\ SingleInv'
    BY SafeNext DEF PaidInv
  <2> QED BY <2>1 DEF SingleInv, TypeInv
<1> SUFFICES /\ \A w \in Workers : SameAttempts(w)'
             /\ \A r \in Rounds : Paid(r)'
  BY <1>1 DEF PaidInv
<1> DEFINE Goal == /\ \A w \in Workers : SameAttempts(w)'
                   /\ \A r \in Rounds : Paid(r)'
<1>2. CASE Time \/ UNCHANGED vars
  BY <1>1, <1>2, PaidTime
<1>3. ASSUME NEW p \in Producers, Producer(p) \/ WriteStep(p) \/ Crash(p)
      PROVE  Goal
  BY <1>1, <1>3, ProducerAside, PaidEnqueue, PaidProducer
<1>4. ASSUME NEW w \in Workers, WorkerStep(w) \/ Crash(w)
      PROVE  Goal
  <2>1. SameAttempts(w)' /\ \A r \in Rounds : Paid(r)'
    <3>1. CASE WriteStep(w) \/ Crash(w)
      BY <1>1, <3>1, PaidQuit, PaidWrite, PaidRemove DEF WriteStep
    <3>2. CASE PopStep(w)
      <4>1. CASE \E r \in Rounds : Claim(w, r)
        BY <1>1, <4>1, PaidClaim
      <4> QED BY <1>1, <3>2, <4>1, PaidPop DEF PopStep
    <3>3. CASE ProcessStep(w)
      <4>1. CASE \E r \in Rounds : \/ SubmitStored(w, r)
                                   \/ SubmitUnavailable(w, r)
                                   \/ SubmitRefused(w, r)
        BY <1>1, <4>1, PaidSubmit
      <4>2. CASE Complete(w)
        BY <1>1, <4>2, PaidRemove
      <4>3. CASE EndCycle(w)
        BY <1>1, <4>3, PaidPop
      <4>4. CASE ReadFailing(w) \/ \E r \in Rounds : GiveUp(w, r)
        BY <1>1, <4>4, PaidGivingUp
      <4> QED BY <3>3, <4>1, <4>2, <4>3, <4>4 DEF ProcessStep
    <3> QED BY <1>4, <3>1, <3>2, <3>3 DEF WorkerStep
  <2>2. \A v \in Workers : v = w
    BY DEF SingleWorker
  <2> QED BY <2>1, <2>2
<1> QED BY <1>2, <1>3, <1>4 DEF Next, Procs

\* With one worker, and as long as the limits never refuse it the disposal of
\* a round it has submitted, each enqueue_ready buys at most max_attempts
\* submissions and each crash one: whatever else it is interrupted by, an
\* attempt made is found recorded, in the file or in the move under way.
THEOREM SubmissionsAreBounded ==
  SingleWorker /\ IsFiniteSet(Producers)
    => (Spec /\ [][DisposalFits]_vars => []SubmissionsBounded)
<1> SUFFICES ASSUME SingleWorker, IsFiniteSet(Producers)
             PROVE  Spec /\ [][DisposalFits]_vars => []SubmissionsBounded
  OBVIOUS
<1>1. Init => PaidInv
  BY PaidInit
<1>2. PaidInv /\ [Next]_vars /\ [DisposalFits]_vars => PaidInv'
  <2>1. CASE UNCHANGED vars
    <3> SUFFICES ASSUME PaidInv, [Next]_vars PROVE PaidInv'
      OBVIOUS
    <3>1. SingleInv' /\ TypeInv'
      BY SafeNext DEF PaidInv, SingleInv, TypeInv
    <3> QED BY <2>1, <3>1, PaidTime DEF PaidInv
  <2>2. CASE DisposalFits
    BY <2>2, PaidNext
  <2> QED BY <2>1, <2>2
<1>3. PaidInv => SubmissionsBounded
  <2> SUFFICES ASSUME PaidInv, NEW r \in Rounds
               PROVE  submits[r] <= MaxAttempts * enqueues[r] + crashes
    BY DEF SubmissionsBounded
  <2> DEFINE c == Cardinality(Pending(r))
  <2>1. /\ Left("ready", r) \in Nat /\ Bought(r) \in Int
        /\ submits[r] \in Nat /\ crashes \in Nat /\ enqueues[r] \in Nat
        /\ MaxAttempts \in Nat /\ c \in Nat
    BY PaidTypes DEF PaidInv, SingleInv, TypeInv, Dirs
  <2>2. Left("ready", r) <= Bought(r)
    BY DEF PaidInv, Paid
  <2>3. MaxAttempts * (enqueues[r] - c) <= MaxAttempts * enqueues[r]
    <3> HIDE DEF c
    <3>1. MaxAttempts * (enqueues[r] - c)
            = MaxAttempts * enqueues[r] - MaxAttempts * c
      BY <2>1
    <3>2. MaxAttempts * c \in Nat /\ MaxAttempts * enqueues[r] \in Nat
      BY <2>1
    <3> QED BY <3>1, <3>2
  <2>4. /\ MaxAttempts * (enqueues[r] - c) \in Int
        /\ MaxAttempts * enqueues[r] \in Int
    BY <2>1
  <2> DEFINE x == MaxAttempts * (enqueues[r] - c)
             y == MaxAttempts * enqueues[r]
  <2>5. Bought(r) = x + crashes - submits[r]
    BY DEF Bought
  <2> HIDE DEF x, y, c
  <2>6. x <= y /\ x \in Int /\ y \in Int
    BY <2>3, <2>4 DEF x, y
  <2>7. submits[r] <= y + crashes
    BY <2>1, <2>2, <2>5, <2>6
  <2> QED BY <2>7 DEF y
<1> QED BY <1>1, <1>2, <1>3, PTL DEF Spec
=============================================================================
