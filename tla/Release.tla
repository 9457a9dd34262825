------------------------------- MODULE Release -------------------------------
(***************************************************************************)
(* The release script (scripts/release-integrations.py): build makes the   *)
(* artifacts of a commit, copies them to an output directory and writes a  *)
(* manifest of them; verify accepts a manifest for the checked-out commit. *)
(* Meanwhile the checkout is edited and moved, builds are killed, artifacts*)
(* are damaged, and the operator removes what a failed build left.         *)
(*                                                                         *)
(* All builds have the same output directory, and one runs at a time.  An  *)
(* artifact is the commit it was made of, and whether all of it is there;  *)
(* its SHA-256 and size are the artifact itself.                           *)
(***************************************************************************)
EXTENDS Integers

CONSTANTS
  Commits,      \* commits of one and the same version
  Artifacts,    \* bound: artifacts of a release, numbered as they are copied
  MaxBuilds,    \* bound: builds begun
  MaxMoves,     \* bound: checkouts of another commit
  MaxDamages    \* bound: artifacts damaged

ASSUME ReleaseConstants ==
  /\ Artifacts \in Nat \ {0}
  /\ {MaxBuilds, MaxMoves, MaxDamages} \subseteq Nat

VARIABLES
  head, clean,  \* the checkout: its commit, and whether git status is empty
  out,          \* the output directory: number -> artifact
  manifest,     \* the manifest in it
  build,        \* the running build: where it is, and what it knows
  check,        \* the running verify
  accepted,     \* what verify has accepted: the commit, the release, what it saw
  count         \* history: builds, moves, damages; whether HEAD moved in a build

vars == <<head, clean, out, manifest, build, check, accepted, count>>

Absent   == [of |-> "nothing", whole |-> FALSE]
Damaged  == [of |-> "damage", whole |-> FALSE]
Files    == 1 .. Artifacts
Empty    == [f \in Files |-> Absent]
None     == [commit |-> "none", source |-> "none", digests |-> Empty, moved |-> FALSE]
NoBuild  == [at |-> "idle", commit |-> "none", source |-> "none", copied |-> 0,
             digests |-> Empty]
NoCheck  == [at |-> "idle", commit |-> "none", manifest |-> None, seen |-> Empty,
             read |-> 0]

Init ==
  /\ head \in Commits /\ clean \in BOOLEAN
  /\ out = Empty /\ manifest = None
  /\ build = NoBuild /\ check = NoCheck /\ accepted = {}
  /\ count = [builds |-> 0, moves |-> 0, damages |-> 0, moved |-> FALSE]

-----------------------------------------------------------------------------
(* build. *)

At(step)   == build.at = step
Goes(step) == build' = [build EXCEPT !.at = step]
Raises     == build' = NoBuild
Checkout   == UNCHANGED <<head, clean>>
Verify     == UNCHANGED <<check, accepted>>

\* _git_state: the commit of a clean checkout.
Begins ==
  /\ At("idle") /\ clean /\ count.builds < MaxBuilds
  /\ build' = [NoBuild EXCEPT !.at = "clean", !.commit = head]
  /\ count' = [count EXCEPT !.builds = @ + 1, !.moved = FALSE]
  /\ Checkout /\ UNCHANGED <<out, manifest>> /\ Verify

\* Generated files are removed; a clean checkout is asked for again, of
\* whatever commit.
Cleans ==
  /\ At("clean")
  /\ IF clean THEN Goes("output") ELSE Raises
  /\ Checkout /\ UNCHANGED <<out, manifest, count>> /\ Verify

ChecksOutput ==
  /\ At("output")
  /\ IF out = Empty /\ manifest = None THEN Goes("archive") ELSE Raises
  /\ Checkout /\ UNCHANGED <<out, manifest, count>> /\ Verify

\* git archive HEAD.
Archives ==
  /\ At("archive")
  /\ build' = [build EXCEPT !.at = "make", !.source = head]
  /\ Checkout /\ UNCHANGED <<out, manifest, count>> /\ Verify

\* Both distributions are built, and their contents checked; any of it may fail.
Makes ==
  /\ At("make")
  /\ Goes("try") \/ Raises
  /\ Checkout /\ UNCHANGED <<out, manifest, count>> /\ Verify

\* Installed in a fresh environment, they are imported and run.
Tries ==
  /\ At("try")
  /\ Goes("copy") \/ Raises
  /\ Checkout /\ UNCHANGED <<out, manifest, count>> /\ Verify

\* _copy_new opens the next artifact's file, which must not be there.
Copies ==
  /\ At("copy")
  /\ LET next == build.copied + 1
     IN  IF out[next] = Absent
           THEN /\ out' = [out EXCEPT ![next] = [of |-> build.source, whole |-> FALSE]]
                /\ Goes("copying")
           ELSE Raises /\ UNCHANGED out
  /\ Checkout /\ UNCHANGED <<manifest, count>> /\ Verify

Advances ==
  build' = [build EXCEPT !.copied = @ + 1,
                         !.at = IF build.copied + 1 = Artifacts THEN "record" ELSE "copy"]

Copied ==
  /\ At("copying")
  /\ out' = [out EXCEPT ![build.copied + 1] = [of |-> build.source, whole |-> TRUE]]
  /\ Advances
  /\ Checkout /\ UNCHANGED <<manifest, count>> /\ Verify

\* Defect: the next artifact is copied all the same.
CopyFailsOn ==
  /\ At("copying")
  /\ Advances
  /\ Checkout /\ UNCHANGED <<out, manifest, count>> /\ Verify

\* The disk is full: what was written stays.
CopyFails ==
  /\ At("copying")
  /\ Raises
  /\ Checkout /\ UNCHANGED <<out, manifest, count>> /\ Verify

\* _artifact_records reads back what is in the output directory.
Records ==
  /\ At("record")
  /\ IF \E f \in Files : out[f] = Absent THEN Raises
       ELSE build' = [build EXCEPT !.at = "publish", !.digests = out]
  /\ Checkout /\ UNCHANGED <<out, manifest, count>> /\ Verify

\* The manifest replaces nothing, and is there at once.
Publishes ==
  /\ At("publish")
  /\ manifest' = [commit |-> build.commit, source |-> build.source,
                  digests |-> build.digests, moved |-> count.moved]
  /\ Goes("finish")
  /\ Checkout /\ UNCHANGED <<out, count>> /\ Verify

\* The last look at the checkout decides what is reported, no more.
Finishes ==
  /\ At("finish")
  /\ Raises
  /\ Checkout /\ UNCHANGED <<out, manifest, count>> /\ Verify

Killed ==
  /\ ~At("idle")
  /\ Raises
  /\ Checkout /\ UNCHANGED <<out, manifest, count>> /\ Verify

-----------------------------------------------------------------------------
(* verify. *)

Built    == UNCHANGED <<head, clean, out, manifest, build, count>>
Refuses  == check' = NoCheck /\ UNCHANGED accepted

VerifyBegins ==
  /\ check.at = "idle" /\ clean
  /\ check' = [NoCheck EXCEPT !.at = "load", !.commit = head]
  /\ UNCHANGED accepted /\ Built

\* Defect: the manifest is not compared with the checkout.
LoadsAny ==
  /\ check.at = "load"
  /\ IF manifest = None THEN Refuses
       ELSE /\ check' = [check EXCEPT !.at = "read", !.manifest = manifest]
            /\ UNCHANGED accepted
  /\ Built

\* The manifest must name the commit; its archive is not looked at.
Loads ==
  /\ check.at = "load"
  /\ IF manifest = None \/ manifest.commit # check.commit THEN Refuses
       ELSE /\ check' = [check EXCEPT !.at = "read", !.manifest = manifest]
            /\ UNCHANGED accepted
  /\ Built

See(f) == [check EXCEPT !.read = f, !.seen[f] = out[f],
                        !.at = IF f = Artifacts THEN "end" ELSE "read"]

\* Defect: an artifact only has to be there.
ReadsNames ==
  /\ check.at = "read"
  /\ LET f == check.read + 1
     IN  IF out[f] = Absent THEN Refuses ELSE check' = See(f) /\ UNCHANGED accepted
  /\ Built

\* An artifact must be there, with the digest and the size of its record.
ReadsArtifact ==
  /\ check.at = "read"
  /\ LET f == check.read + 1
     IN  IF out[f] = Absent \/ out[f] # check.manifest.digests[f] THEN Refuses
           ELSE check' = See(f) /\ UNCHANGED accepted
  /\ Built

VerifyEnds ==
  /\ check.at = "end"
  /\ check' = NoCheck
  /\ accepted' = IF clean
       THEN accepted \cup {[commit |-> check.commit, seen |-> check.seen,
                            moved |-> check.manifest.moved]}
       ELSE accepted
  /\ Built

-----------------------------------------------------------------------------
(* The people around it. *)

\* Another commit is checked out.
Moves ==
  /\ count.moves < MaxMoves
  /\ head' \in Commits \ {head}
  /\ count' = [count EXCEPT !.moves = @ + 1, !.moved = @ \/ ~At("idle")]
  /\ UNCHANGED <<clean, out, manifest, build>> /\ Verify

Edits ==
  /\ clean' = ~clean
  /\ UNCHANGED <<head, out, manifest, build, count>> /\ Verify

\* A published artifact is damaged (one that is damaged before its digest is
\* read back is recorded as it is).
Damages(f) ==
  /\ count.damages < MaxDamages /\ manifest # None
  /\ out[f].whole
  /\ out' = [out EXCEPT ![f] = Damaged]
  /\ count' = [count EXCEPT !.damages = @ + 1]
  /\ Checkout /\ UNCHANGED <<manifest, build>> /\ Verify

\* The output directory is removed for another try.
Discards ==
  /\ At("idle") /\ out # Empty
  /\ out' = Empty /\ manifest' = None
  /\ Checkout /\ UNCHANGED <<build, count>> /\ Verify

Next ==
  \/ Begins \/ Cleans \/ ChecksOutput \/ Archives \/ Makes \/ Tries \/ Copies
  \/ Copied \/ CopyFails \/ Records \/ Publishes \/ Finishes \/ Killed
  \/ VerifyBegins \/ Loads \/ ReadsArtifact \/ VerifyEnds
  \/ Moves \/ Edits \/ Discards
  \/ \E f \in Files : Damages(f)

Spec == Init /\ [][Next]_vars

-----------------------------------------------------------------------------
(* Properties. *)

\* A manifest is only there with a whole release of one commit around it:
\* whatever a build was killed or stopped by before, what it left has none.
ManifestWhole ==
  manifest # None =>
    \A f \in Files :
      \/ out[f] = [of |-> manifest.source, whole |-> TRUE]
      \/ out[f] = Damaged

\* What verify accepts was whole, and made of one commit, when it was read.
AcceptedIntact ==
  \A a \in accepted : \E c \in Commits :
    \A f \in Files : a.seen[f] = [of |-> c, whole |-> TRUE]

\* That commit is the one verify was asked about, unless HEAD moved while the
\* release was built: the manifest names the commit read first, the archive is
\* of the one checked out later.
AcceptedCurrent ==
  \A a \in accepted : a.moved \/ \A f \in Files : a.seen[f].of = a.commit
=============================================================================
