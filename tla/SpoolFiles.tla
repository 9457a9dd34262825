----------------------------- MODULE SpoolFiles -----------------------------
(***************************************************************************)
(* What a FileSpool keeps on disk and the limit test every write of it     *)
(* passes (runtime/spool.py).  A queue directory maps the name of an item  *)
(* to the file of that name or to NoFile.  Of a file the model keeps what  *)
(* the code decides by: whether it still holds the round (`body'), how     *)
(* many attempts it records, whether its next_attempt_at has passed, and   *)
(* the claim stamp.  worker_id is written but never read, so a claim is    *)
(* only absent, younger than the TTL ("live") or older ("expired").        *)
(***************************************************************************)
EXTENDS Integers, FiniteSets, FiniteSetsExt

CONSTANTS
  Rounds,        \* item names, ordered as their file names sort
  MaxAttempts,   \* DeliveryWorker.max_attempts
  MaxFiles,      \* FileSpool.max_files, less the files in pending-capture
  MaxBytes,      \* FileSpool.max_bytes, likewise
  RoundBytes,    \* the size of an envelope holding a round, before any stamp
  StampBytes     \* what worker_id and claimed_at, or a failure reason, add

ASSUME SpoolConstants ==
  /\ Rounds \subseteq Nat
  /\ MaxAttempts \in Nat \ {0}
  /\ MaxFiles \in Nat \ {0}
  /\ MaxBytes \in Nat \ {0}
  /\ RoundBytes \in Nat
  /\ StampBytes \in Nat

Dirs     == {"ready", "inflight", "failed"}
LiveDirs == {"ready", "inflight"}

File == [body     : {"round", "husk"},
         attempts : 0 .. MaxAttempts,
         due      : BOOLEAN,
         claim    : {"none", "live", "expired"}]

NoFile == [body |-> "none", attempts |-> 0, due |-> FALSE, claim |-> "none"]

\* What a directory has under a name.
Entry == File \cup {NoFile}

\* The envelope of a round just accepted: enqueue_ready.
Fresh == [body |-> "round", attempts |-> 0, due |-> TRUE, claim |-> "none"]

\* What fail_inflight files for an item it cannot read: {"delivery": {}}.
Husk == [body |-> "husk", attempts |-> 0, due |-> TRUE, claim |-> "none"]

Whole(f) == f.body = "round"

\* The names of the files in one directory (glob("*.json")).
Names(dir) == {n \in Rounds : dir[n] # NoFile}

\* The first of a set of names in file-name order, and the first k of them.
IsFirst(n, S) == n \in S /\ \A m \in S : n <= m
First(S, k)   == {n \in S : Cardinality({m \in S : m < n}) < k}

Bytes(f) == (IF Whole(f) THEN RoundBytes ELSE 0)
            + (IF Whole(f) /\ f.claim = "none" THEN 0 ELSE StampBytes)

\* The files a write counts against the limits: those of both live queues,
\* except the one the caller is about to remove (`src' names its directory).
Counted(disk, name, src) ==
  {l \in LiveDirs \X Rounds : disk[l[1]][l[2]] # NoFile} \ {<<src, name>>}

\* Defect: the new file itself is not counted.
FitsWithoutNew(disk, dst, name, file, src) ==
  Cardinality(Counted(disk, name, src)) <= MaxFiles

(***************************************************************************)
(* _check_limits for writing `file' over `name' in directory `dst'.  A     *)
(* destination that exists is discounted even in `failed', which is not    *)
(* one of the directories counted.                                         *)
(***************************************************************************)
Fits(disk, dst, name, file, src) ==
  LET counted  == Counted(disk, name, src)
      present  == disk[dst][name] # NoFile
      replaced == IF present THEN 1 ELSE 0
      freed    == IF present THEN Bytes(disk[dst][name]) ELSE 0
      bytes    == MapThenSumSet(LAMBDA l : Bytes(disk[l[1]][l[2]]), counted)
  IN  /\ Cardinality(counted) - replaced + 1 <= MaxFiles
      /\ bytes - freed + Bytes(file) <= MaxBytes
=============================================================================
