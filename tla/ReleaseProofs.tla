---------------------------- MODULE ReleaseProofs ----------------------------
(***************************************************************************)
(* Theorems about Release for any commits, any number of artifacts, builds,*)
(* moves of the checkout and damages: what a manifest says of the output   *)
(* directory, and what verify accepts by it.                               *)
(***************************************************************************)
EXTENDS Release, TLAPS

Artifact == [of : Commits \cup {"nothing", "damage", "none"}, whole : BOOLEAN]
Source   == Commits \cup {"none"}
Manifest == [commit : Source, source : Source, digests : [Files -> Artifact],
             moved : BOOLEAN]
BuildSteps == {"idle", "clean", "output", "archive", "make", "try", "copy",
               "copying", "record", "publish", "finish"}

BuildType == [at : BuildSteps, commit : Source, source : Source,
              copied : 0 .. Artifacts, digests : [Files -> Artifact]]
CheckType == [at : {"idle", "load", "read", "end"}, commit : Source,
              manifest : Manifest, seen : [Files -> Artifact], read : 0 .. Artifacts]
Verdicts  == [commit : Source, seen : [Files -> Artifact], moved : BOOLEAN]
CountType == [builds : Nat, moves : Nat, damages : Nat, moved : BOOLEAN]

Typed ==
  /\ head \in Commits /\ clean \in BOOLEAN
  /\ out \in [Files -> Artifact]
  /\ manifest \in Manifest
  /\ build \in BuildType
  /\ check \in CheckType
  /\ accepted \subseteq Verdicts
  /\ count \in CountType

WholeOf(c) == [of |-> c, whole |-> TRUE]
AllOf(files, c) == \A f \in Files : files[f] = WholeOf(c)

\* From the test of the output directory to the manifest, nobody else writes
\* there: what a build has copied is whole and made of its archive, and the
\* rest is not there yet.
Copying ==
  /\ build.at \in {"archive", "make", "try", "copy", "copying", "record", "publish"}
       => manifest = None
  /\ build.at \in {"clean", "output", "archive", "make", "try"} => build.copied = 0
  /\ build.at \in {"archive", "make", "try"} => out = Empty
  /\ build.at \in {"make", "try", "copy", "copying", "record", "publish"}
       => build.source \in Commits
  /\ build.at \in {"copy", "copying"} =>
       /\ build.copied < Artifacts
       /\ \A f \in 1 .. build.copied : out[f] = WholeOf(build.source)
  /\ build.at = "copying" =>
       out[build.copied + 1] = [of |-> build.source, whole |-> FALSE]
  /\ build.at \in {"record", "publish"} => AllOf(out, build.source)
  /\ build.at = "publish" => AllOf(build.digests, build.source)

\* The digests of a manifest are of whole artifacts of one commit.
Recorded(m) == m.source \in Commits /\ AllOf(m.digests, m.source)
ManifestRecorded == manifest # None => Recorded(manifest)

\* A verify in progress has seen what its manifest records.
Checking ==
  /\ check.at = "load" => check.read = 0
  /\ check.at \in {"read", "end"} =>
       /\ Recorded(check.manifest)
       /\ \A f \in 1 .. check.read : check.seen[f] = check.manifest.digests[f]
       /\ check.at = "read" => check.read < Artifacts
       /\ check.at = "end" => check.read = Artifacts

\* The archive is of the commit read first as long as HEAD has not moved.
CurrentBuild ==
  /\ build.at # "idle" => count.moved \/ build.commit = head
  /\ build.at \in {"make", "try", "copy", "copying", "record", "publish"}
       => count.moved \/ build.source = build.commit
  /\ manifest # None => manifest.moved \/ manifest.source = manifest.commit

CurrentCheck ==
  check.at \in {"read", "end"} =>
    /\ check.manifest.commit = check.commit
    /\ check.manifest.moved \/ check.manifest.source = check.commit

BuildInv  == Copying /\ ManifestRecorded /\ ManifestWhole /\ CurrentBuild
VerifyInv == Checking /\ AcceptedIntact /\ CurrentCheck /\ AcceptedCurrent
IInv      == Typed /\ BuildInv /\ VerifyInv

-----------------------------------------------------------------------------
(* The first state, and what each side leaves to the other. *)

LEMMA NumberedFiles == Artifacts \in Nat /\ Artifacts >= 1 /\ 1 \in Files
  BY ReleaseConstants DEF ReleaseConstants, Files

LEMMA ArtifactTypes ==
  /\ \A c \in Commits, b \in BOOLEAN : [of |-> c, whole |-> b] \in Artifact
  /\ Absent \in Artifact /\ Damaged \in Artifact
  BY DEF Artifact, Absent, Damaged

LEMMA FirstTypes ==
  /\ Empty \in [Files -> Artifact]
  /\ None \in Manifest
  /\ NoBuild \in BuildType
  /\ NoCheck \in CheckType
  <1>1. Empty \in [Files -> Artifact]
    BY ArtifactTypes DEF Empty
  <1>2. None \in Manifest
    BY <1>1 DEF None, Manifest, Source
  <1>3. NoBuild \in BuildType
    BY <1>1, NumberedFiles DEF NoBuild, BuildType, BuildSteps, Source
  <1>4. NoCheck \in CheckType
    BY <1>1, <1>2, NumberedFiles DEF NoCheck, CheckType, Source
  <1> QED BY <1>1, <1>2, <1>3, <1>4

LEMMA CountsUp ==
  ASSUME NEW c \in CountType, NEW b \in BOOLEAN
  PROVE  /\ [c EXCEPT !.builds = @ + 1, !.moved = b] \in CountType
         /\ [c EXCEPT !.moves = @ + 1, !.moved = b] \in CountType
  <1>1. /\ c.builds + 1 \in Nat /\ c.moves + 1 \in Nat /\ c.moved \in BOOLEAN
        /\ c = [builds |-> c.builds, moves |-> c.moves, damages |-> c.damages,
                moved |-> c.moved]
    BY DEF CountType
  <1> QED BY <1>1 DEF CountType

LEMMA InitInv == Init => IInv
  <1> SUFFICES ASSUME Init PROVE IInv
    OBVIOUS
  <1>1. Typed
    BY FirstTypes DEF Init, Typed, CountType
  <1>2. BuildInv
    BY DEF Init, NoBuild, BuildInv, Copying, ManifestRecorded, ManifestWhole,
           CurrentBuild
  <1>3. VerifyInv
    BY DEF Init, NoCheck, VerifyInv, Checking, AcceptedIntact, CurrentCheck,
           AcceptedCurrent
  <1> QED BY <1>1, <1>2, <1>3 DEF IInv

LEMMA VerifyKept == IInv /\ Verify => VerifyInv'
  BY DEF IInv, VerifyInv, Verify, Checking, AcceptedIntact, CurrentCheck,
         AcceptedCurrent, Recorded

LEMMA BuildKept == IInv /\ Built => BuildInv'
  BY DEF IInv, BuildInv, Built, Copying, ManifestRecorded, ManifestWhole,
         CurrentBuild, Recorded, AllOf

-----------------------------------------------------------------------------
(* The steps of a build. *)

LEMMA BeginsStep == IInv /\ Begins => IInv'
  <1> SUFFICES ASSUME IInv, Begins PROVE IInv'
    OBVIOUS
  <1> USE NumberedFiles DEF IInv, BuildInv, Begins, At, Goes, Raises, Checkout
  <1>1. Typed'
    <2>1. build' \in BuildType
      BY FirstTypes DEF Typed, BuildType, BuildSteps, Source
    <2>2. count' \in CountType
      BY CountsUp DEF Typed
    <2> QED BY <2>1, <2>2 DEF Typed, Verify
  <1>2. Copying'
    BY DEF Copying, Typed, BuildType, NoBuild, AllOf
  <1>3. ManifestRecorded' /\ ManifestWhole'
    BY DEF Copying, ManifestRecorded, Recorded, ManifestWhole, AllOf, WholeOf
  <1>4. CurrentBuild'
    BY DEF CurrentBuild, Typed, BuildType, CountType, NoBuild
  <1>5. VerifyInv'
    BY VerifyKept
  <1> QED BY <1>1, <1>2, <1>3, <1>4, <1>5

LEMMA CleansStep == IInv /\ Cleans => IInv'
  <1> SUFFICES ASSUME IInv, Cleans PROVE IInv'
    OBVIOUS
  <1> USE NumberedFiles DEF IInv, BuildInv, Cleans, At, Goes, Raises, Checkout
  <1>1. Typed'
    BY FirstTypes DEF Typed, BuildType, BuildSteps, Verify
  <1>2. Copying'
    BY DEF Copying, Typed, BuildType, NoBuild, AllOf
  <1>3. ManifestRecorded' /\ ManifestWhole'
    BY DEF Copying, ManifestRecorded, Recorded, ManifestWhole, AllOf, WholeOf
  <1>4. CurrentBuild'
    BY DEF CurrentBuild, Typed, BuildType, NoBuild
  <1>5. VerifyInv'
    BY VerifyKept
  <1> QED BY <1>1, <1>2, <1>3, <1>4, <1>5

LEMMA ChecksOutputStep == IInv /\ ChecksOutput => IInv'
  <1> SUFFICES ASSUME IInv, ChecksOutput PROVE IInv'
    OBVIOUS
  <1> USE NumberedFiles DEF IInv, BuildInv, ChecksOutput, At, Goes, Raises, Checkout
  <1>1. Typed'
    BY FirstTypes DEF Typed, BuildType, BuildSteps, Verify
  <1>2. Copying'
    <2>1. CASE out = Empty /\ manifest = None
      <3>1. build'.at = "archive" /\ build'.copied = build.copied
        BY <2>1 DEF Typed, BuildType
      <3> QED BY <2>1, <3>1 DEF Copying
    <2>2. CASE ~(out = Empty /\ manifest = None)
      BY <2>2 DEF Copying, NoBuild
    <2> QED BY <2>1, <2>2
  <1>3. ManifestRecorded' /\ ManifestWhole'
    BY DEF Copying, ManifestRecorded, Recorded, ManifestWhole, AllOf, WholeOf
  <1>4. CurrentBuild'
    BY DEF CurrentBuild, Typed, BuildType, NoBuild
  <1>5. VerifyInv'
    BY VerifyKept
  <1> QED BY <1>1, <1>2, <1>3, <1>4, <1>5

LEMMA ArchivesStep == IInv /\ Archives => IInv'
  <1> SUFFICES ASSUME IInv, Archives PROVE IInv'
    OBVIOUS
  <1> USE NumberedFiles DEF IInv, BuildInv, Archives, At, Goes, Raises, Checkout
  <1>1. Typed'
    BY FirstTypes DEF Typed, BuildType, BuildSteps, Source, Verify
  <1>2. Copying'
    BY DEF Copying, Typed, BuildType, NoBuild, AllOf
  <1>3. ManifestRecorded' /\ ManifestWhole'
    BY DEF Copying, ManifestRecorded, Recorded, ManifestWhole, AllOf, WholeOf
  <1>4. CurrentBuild'
    BY DEF CurrentBuild, Typed, BuildType, NoBuild
  <1>5. VerifyInv'
    BY VerifyKept
  <1> QED BY <1>1, <1>2, <1>3, <1>4, <1>5

LEMMA MakesStep == IInv /\ Makes => IInv'
  <1> SUFFICES ASSUME IInv, Makes PROVE IInv'
    OBVIOUS
  <1> USE NumberedFiles DEF IInv, BuildInv, Makes, At, Goes, Raises, Checkout
  <1>1. Typed'
    BY FirstTypes DEF Typed, BuildType, BuildSteps, Verify
  <1>2. Copying'
    BY DEF Copying, Typed, BuildType, NoBuild, AllOf
  <1>3. ManifestRecorded' /\ ManifestWhole'
    BY DEF Copying, ManifestRecorded, Recorded, ManifestWhole, AllOf, WholeOf
  <1>4. CurrentBuild'
    BY DEF CurrentBuild, Typed, BuildType, NoBuild
  <1>5. VerifyInv'
    BY VerifyKept
  <1> QED BY <1>1, <1>2, <1>3, <1>4, <1>5

LEMMA TriesStep == IInv /\ Tries => IInv'
  <1> SUFFICES ASSUME IInv, Tries PROVE IInv'
    OBVIOUS
  <1> USE NumberedFiles DEF IInv, BuildInv, Tries, At, Goes, Raises, Checkout
  <1>1. Typed'
    BY FirstTypes DEF Typed, BuildType, BuildSteps, Verify
  <1>2. Copying'
    BY DEF Copying, Typed, BuildType, NoBuild, AllOf
  <1>3. ManifestRecorded' /\ ManifestWhole'
    BY DEF Copying, ManifestRecorded, Recorded, ManifestWhole, AllOf, WholeOf
  <1>4. CurrentBuild'
    BY DEF CurrentBuild, Typed, BuildType, NoBuild
  <1>5. VerifyInv'
    BY VerifyKept
  <1> QED BY <1>1, <1>2, <1>3, <1>4, <1>5

LEMMA CopiesStep == IInv /\ Copies => IInv'
  <1> SUFFICES ASSUME IInv, Copies PROVE IInv'
    OBVIOUS
  <1> USE NumberedFiles DEF IInv, BuildInv, Copies, At, Goes, Raises, Checkout
  <1>1. Typed'
    <2>1. out' \in [Files -> Artifact]
      BY ArtifactTypes DEF Typed, Copying
    <2> QED BY <2>1, FirstTypes DEF Typed, BuildType, BuildSteps, Verify
  <1>2. Copying'
    <2> DEFINE next == build.copied + 1
    <2>1. CASE out[next] = Absent
      <3>1. next \in Files /\ out \in [Files -> Artifact]
        BY DEF Copying, Typed, BuildType, Files
      <3>2. build' = [build EXCEPT !.at = "copying"]
            /\ out' = [out EXCEPT ![next] = [of |-> build.source, whole |-> FALSE]]
        BY <2>1
      <3>3. /\ build'.at = "copying" /\ build'.copied = build.copied
            /\ build'.source = build.source
        BY <3>2 DEF Typed, BuildType
      <3>4. \A f \in 1 .. build.copied : out'[f] = WholeOf(build.source)
        BY <3>1, <3>2 DEF Copying, Typed, BuildType, Files
      <3> QED BY <3>1, <3>2, <3>3, <3>4 DEF Copying
    <2>2. CASE out[next] # Absent
      BY <2>2 DEF Copying, NoBuild
    <2> QED BY <2>1, <2>2
  <1>3. ManifestRecorded' /\ ManifestWhole'
    BY DEF Copying, ManifestRecorded, Recorded, ManifestWhole, AllOf, WholeOf
  <1>4. CurrentBuild'
    BY DEF CurrentBuild, Typed, BuildType, NoBuild
  <1>5. VerifyInv'
    BY VerifyKept
  <1> QED BY <1>1, <1>2, <1>3, <1>4, <1>5

LEMMA CopiedStep == IInv /\ Copied => IInv'
  <1> SUFFICES ASSUME IInv, Copied PROVE IInv'
    OBVIOUS
  <1> USE NumberedFiles DEF IInv, BuildInv, At, Checkout
  <1> DEFINE last == build.copied + 1
             done == WholeOf(build.source)
  <1>1. /\ build.at = "copying" /\ build.copied \in 0 .. Artifacts
        /\ last \in Files /\ last <= Artifacts /\ build.source \in Commits
    BY DEF Copied, Typed, Copying, BuildType, Files
  <1>2. out' = [out EXCEPT ![last] = done]
    BY DEF Copied, WholeOf
  <1>3. build' = [build EXCEPT !.copied = last,
                               !.at = IF last = Artifacts THEN "record" ELSE "copy"]
    BY DEF Copied, Advances
  <1>4. /\ build'.copied = last /\ build'.source = build.source
        /\ build'.commit = build.commit
        /\ build'.at = IF last = Artifacts THEN "record" ELSE "copy"
    BY <1>3 DEF Typed, BuildType
  <1>5. /\ UNCHANGED <<head, clean, manifest, count>> /\ Verify
    BY DEF Copied
  <1>6. Typed'
    <2>1. out' \in [Files -> Artifact]
      BY <1>1, <1>2, ArtifactTypes DEF Typed, WholeOf
    <2>2. build' \in BuildType
      <3>1. /\ last \in 0 .. Artifacts
            /\ (IF last = Artifacts THEN "record" ELSE "copy") \in BuildSteps
        BY <1>1 DEF BuildSteps
      <3> HIDE DEF last
      <3> QED BY <1>3, <3>1 DEF Typed, BuildType
    <2> QED BY <1>5, <2>1, <2>2 DEF Typed, Verify
  <1>7. Copying'
    <2>1. \A f \in 1 .. last : out'[f] = done
      BY <1>1, <1>2 DEF Copying, Typed, Files
    <2> QED BY <1>1, <1>4, <1>5, <2>1 DEF Copying, AllOf, Files
  <1>8. ManifestRecorded' /\ ManifestWhole'
    BY <1>1, <1>5 DEF Copying, ManifestRecorded, ManifestWhole
  <1>9. CurrentBuild'
    BY <1>1, <1>4, <1>5 DEF CurrentBuild
  <1>10. VerifyInv'
    BY <1>5, VerifyKept
  <1> QED BY <1>6, <1>7, <1>8, <1>9, <1>10

LEMMA CopyFailsStep == IInv /\ CopyFails => IInv'
  <1> SUFFICES ASSUME IInv, CopyFails PROVE IInv'
    OBVIOUS
  <1> USE NumberedFiles DEF IInv, BuildInv, CopyFails, At, Goes, Raises, Checkout
  <1>1. Typed'
    BY FirstTypes DEF Typed, BuildType, BuildSteps, Verify
  <1>2. Copying'
    BY DEF Copying, Typed, BuildType, NoBuild, AllOf
  <1>3. ManifestRecorded' /\ ManifestWhole'
    BY DEF Copying, ManifestRecorded, Recorded, ManifestWhole, AllOf, WholeOf
  <1>4. CurrentBuild'
    BY DEF CurrentBuild, Typed, BuildType, NoBuild
  <1>5. VerifyInv'
    BY VerifyKept
  <1> QED BY <1>1, <1>2, <1>3, <1>4, <1>5

LEMMA RecordsStep == IInv /\ Records => IInv'
  <1> SUFFICES ASSUME IInv, Records PROVE IInv'
    OBVIOUS
  <1> USE NumberedFiles DEF IInv, BuildInv, Records, At, Goes, Raises, Checkout
  <1>1. Typed'
    BY FirstTypes DEF Typed, BuildType, BuildSteps, Verify
  <1>2. Copying'
    <2>1. CASE \E f \in Files : out[f] = Absent
      BY <2>1 DEF Copying, NoBuild
    <2>2. CASE ~\E f \in Files : out[f] = Absent
      <3>1. /\ build'.at = "publish" /\ build'.source = build.source
            /\ build'.digests = out
        BY <2>2 DEF Typed, BuildType
      <3> QED BY <3>1 DEF Copying, AllOf
    <2> QED BY <2>1, <2>2
  <1>3. ManifestRecorded' /\ ManifestWhole'
    BY DEF Copying, ManifestRecorded, Recorded, ManifestWhole, AllOf, WholeOf
  <1>4. CurrentBuild'
    <2>1. \/ build' = NoBuild
          \/ build'.commit = build.commit /\ build'.source = build.source
      BY DEF Typed, BuildType
    <2> QED BY <2>1 DEF CurrentBuild, NoBuild
  <1>5. VerifyInv'
    BY VerifyKept
  <1> QED BY <1>1, <1>2, <1>3, <1>4, <1>5

LEMMA PublishesStep == IInv /\ Publishes => IInv'
  <1> SUFFICES ASSUME IInv, Publishes PROVE IInv'
    OBVIOUS
  <1> USE NumberedFiles DEF IInv, BuildInv, Publishes, At, Goes, Raises, Checkout
  <1>1. Typed'
    BY FirstTypes DEF Typed, BuildType, BuildSteps, Manifest, CountType, Verify
  <1>2. Copying'
    BY DEF Copying, Typed, BuildType, NoBuild, AllOf
  <1>3. ManifestRecorded' /\ ManifestWhole'
    BY DEF Copying, ManifestRecorded, Recorded, ManifestWhole, AllOf, WholeOf
  <1>4. CurrentBuild'
    BY DEF CurrentBuild, Typed, BuildType, CountType, NoBuild
  <1>5. VerifyInv'
    BY VerifyKept
  <1> QED BY <1>1, <1>2, <1>3, <1>4, <1>5

LEMMA FinishesStep == IInv /\ Finishes => IInv'
  <1> SUFFICES ASSUME IInv, Finishes PROVE IInv'
    OBVIOUS
  <1> USE NumberedFiles DEF IInv, BuildInv, Finishes, At, Goes, Raises, Checkout
  <1>1. Typed'
    BY FirstTypes DEF Typed, BuildType, BuildSteps, Verify
  <1>2. Copying'
    BY DEF Copying, Typed, BuildType, NoBuild, AllOf
  <1>3. ManifestRecorded' /\ ManifestWhole'
    BY DEF Copying, ManifestRecorded, Recorded, ManifestWhole, AllOf, WholeOf
  <1>4. CurrentBuild'
    BY DEF CurrentBuild, Typed, BuildType, NoBuild
  <1>5. VerifyInv'
    BY VerifyKept
  <1> QED BY <1>1, <1>2, <1>3, <1>4, <1>5

LEMMA KilledStep == IInv /\ Killed => IInv'
  <1> SUFFICES ASSUME IInv, Killed PROVE IInv'
    OBVIOUS
  <1> USE NumberedFiles DEF IInv, BuildInv, Killed, At, Goes, Raises, Checkout
  <1>1. Typed'
    BY FirstTypes DEF Typed, BuildType, BuildSteps, Verify
  <1>2. Copying'
    BY DEF Copying, Typed, BuildType, NoBuild, AllOf
  <1>3. ManifestRecorded' /\ ManifestWhole'
    BY DEF Copying, ManifestRecorded, Recorded, ManifestWhole, AllOf, WholeOf
  <1>4. CurrentBuild'
    BY DEF CurrentBuild, Typed, BuildType, NoBuild
  <1>5. VerifyInv'
    BY VerifyKept
  <1> QED BY <1>1, <1>2, <1>3, <1>4, <1>5

LEMMA MovesStep == IInv /\ Moves => IInv'
  <1> SUFFICES ASSUME IInv, Moves PROVE IInv'
    OBVIOUS
  <1> USE NumberedFiles DEF IInv, BuildInv, Moves, At, Goes, Raises, Checkout
  <1>1. Typed'
    <2>1. (count.moved \/ ~At("idle")) \in BOOLEAN
      OBVIOUS
    <2>2. count' \in CountType
      BY <2>1, CountsUp DEF Typed
    <2> QED BY <2>2 DEF Typed, Verify
  <1>2. Copying'
    BY DEF Copying, Typed, BuildType, NoBuild, AllOf
  <1>3. ManifestRecorded' /\ ManifestWhole'
    BY DEF Copying, ManifestRecorded, Recorded, ManifestWhole, AllOf, WholeOf
  <1>4. CurrentBuild'
    BY DEF CurrentBuild, Typed, BuildType, CountType, NoBuild
  <1>5. VerifyInv'
    BY VerifyKept
  <1> QED BY <1>1, <1>2, <1>3, <1>4, <1>5

LEMMA EditsStep == IInv /\ Edits => IInv'
  <1> SUFFICES ASSUME IInv, Edits PROVE IInv'
    OBVIOUS
  <1> USE NumberedFiles DEF IInv, BuildInv, Edits, At, Goes, Raises, Checkout
  <1>1. Typed'
    BY FirstTypes DEF Typed, BuildType, BuildSteps, Verify
  <1>2. Copying'
    BY DEF Copying, Typed, BuildType, NoBuild, AllOf
  <1>3. ManifestRecorded' /\ ManifestWhole'
    BY DEF Copying, ManifestRecorded, Recorded, ManifestWhole, AllOf, WholeOf
  <1>4. CurrentBuild'
    BY DEF CurrentBuild, Typed, BuildType, NoBuild
  <1>5. VerifyInv'
    BY VerifyKept
  <1> QED BY <1>1, <1>2, <1>3, <1>4, <1>5

LEMMA DiscardsStep == IInv /\ Discards => IInv'
  <1> SUFFICES ASSUME IInv, Discards PROVE IInv'
    OBVIOUS
  <1> USE NumberedFiles DEF IInv, BuildInv, Discards, At, Goes, Raises, Checkout
  <1>1. Typed'
    BY FirstTypes DEF Typed, BuildType, BuildSteps, Verify
  <1>2. Copying'
    BY DEF Copying, Typed, BuildType, NoBuild, AllOf
  <1>3. ManifestRecorded' /\ ManifestWhole'
    BY DEF Copying, ManifestRecorded, Recorded, ManifestWhole, AllOf, WholeOf
  <1>4. CurrentBuild'
    BY DEF CurrentBuild, Typed, BuildType, NoBuild
  <1>5. VerifyInv'
    BY VerifyKept
  <1> QED BY <1>1, <1>2, <1>3, <1>4, <1>5

LEMMA DamagesStep == IInv /\ (\E f \in Files : Damages(f)) => IInv'
  <1> SUFFICES ASSUME IInv, NEW g \in Files, Damages(g) PROVE IInv'
    OBVIOUS
  <1> USE NumberedFiles DEF IInv, BuildInv, Damages, At, Goes, Raises, Checkout
  <1>1. Typed'
    BY ArtifactTypes DEF Typed, CountType, Verify
  <1>2. Copying'
    BY DEF Copying, Typed, BuildType, NoBuild, AllOf
  <1>3. ManifestRecorded' /\ ManifestWhole'
    BY DEF Typed, Copying, ManifestRecorded, Recorded, ManifestWhole, AllOf, WholeOf
  <1>4. CurrentBuild'
    BY DEF CurrentBuild, Typed, BuildType, CountType, NoBuild
  <1>5. VerifyInv'
    BY VerifyKept
  <1> QED BY <1>1, <1>2, <1>3, <1>4, <1>5

-----------------------------------------------------------------------------
(* The steps of a verify. *)

LEMMA VerifyBeginsStep == IInv /\ VerifyBegins => IInv'
  <1> SUFFICES ASSUME IInv, VerifyBegins PROVE IInv'
    OBVIOUS
  <1> USE DEF IInv, VerifyInv, VerifyBegins
  <1>1. Typed'
    BY FirstTypes DEF Typed, Built, CheckType, Source
  <1>2. check'.at = "load" /\ check'.read = 0 /\ accepted' = accepted
    BY DEF NoCheck
  <1>3. VerifyInv'
    BY <1>2 DEF Checking, AcceptedIntact, CurrentCheck, AcceptedCurrent
  <1> QED BY <1>1, <1>3, BuildKept

LEMMA LoadsStep == IInv /\ Loads => IInv'
  <1> SUFFICES ASSUME IInv, Loads PROVE IInv'
    OBVIOUS
  <1> USE DEF IInv, VerifyInv, Loads
  <1>1. CASE manifest = None \/ manifest.commit # check.commit
    <2>1. check' = NoCheck /\ accepted' = accepted
      BY <1>1 DEF Refuses
    <2>2. Typed'
      BY <2>1, FirstTypes DEF Typed, Built
    <2> QED BY <2>1, <2>2, BuildKept
            DEF NoCheck, Checking, AcceptedIntact, CurrentCheck, AcceptedCurrent
  <1>2. CASE ~(manifest = None \/ manifest.commit # check.commit)
    <2>1. /\ check' = [check EXCEPT !.at = "read", !.manifest = manifest]
          /\ accepted' = accepted
      BY <1>2
    <2>2. Typed'
      BY <2>1 DEF Typed, Built, CheckType
    <2>3. /\ check'.at = "read" /\ check'.manifest = manifest
          /\ check'.read = check.read /\ check'.commit = check.commit
      BY <2>1 DEF Typed, CheckType
    <2>4. check.read = 0
      BY DEF Checking
    <2>5. Checking'
      BY <1>2, <2>3, <2>4, NumberedFiles DEF Checking, BuildInv, ManifestRecorded
    <2>6. CurrentCheck'
      BY <1>2, <2>3 DEF CurrentCheck, BuildInv, CurrentBuild
    <2>7. AcceptedIntact' /\ AcceptedCurrent'
      BY <2>1 DEF AcceptedIntact, AcceptedCurrent
    <2> QED BY <2>2, <2>5, <2>6, <2>7, BuildKept
  <1> QED BY <1>1, <1>2

LEMMA ReadsArtifactStep == IInv /\ ReadsArtifact => IInv'
  <1> SUFFICES ASSUME IInv, ReadsArtifact PROVE IInv'
    OBVIOUS
  <1> USE DEF IInv, VerifyInv, ReadsArtifact
  <1> DEFINE f == check.read + 1
             refused == out[f] = Absent \/ out[f] # check.manifest.digests[f]
  <1>1. CASE refused
    <2>1. check' = NoCheck /\ accepted' = accepted
      BY <1>1 DEF Refuses
    <2>2. Typed'
      BY <2>1, FirstTypes DEF Typed, Built
    <2> QED BY <2>1, <2>2, BuildKept
            DEF NoCheck, Checking, AcceptedIntact, CurrentCheck, AcceptedCurrent
  <1>2. CASE ~refused
    <2>1. check' = See(f) /\ accepted' = accepted
      BY <1>2
    <2>2. check.read \in 0 .. Artifacts /\ f \in Files
      BY NumberedFiles DEF Typed, CheckType, Checking, Files
    <2>3. /\ check'.at = IF f = Artifacts THEN "end" ELSE "read"
          /\ check'.manifest = check.manifest
          /\ check'.read = f /\ check'.commit = check.commit
          /\ check'.seen = [check.seen EXCEPT ![f] = out[f]]
      BY <2>1 DEF See, Typed, CheckType
    <2>4. check.seen \in [Files -> Artifact] /\ out[f] \in Artifact
      BY <2>2 DEF Typed, CheckType
    <2>5. check' \in CheckType
      <3>1. [check.seen EXCEPT ![f] = out[f]] \in [Files -> Artifact]
        BY <2>2, <2>4
      <3>2. f \in 0 .. Artifacts
        BY <2>2 DEF Files
      <3>3. check' = [[[check EXCEPT !.read = f]
                        EXCEPT !.seen = [check.seen EXCEPT ![f] = out[f]]]
                        EXCEPT !.at = IF f = Artifacts THEN "end" ELSE "read"]
        BY <2>1 DEF See, Typed, CheckType
      <3> QED BY <3>1, <3>2, <3>3 DEF Typed, CheckType
    <2>6. Typed'
      BY <2>1, <2>5 DEF Typed, Built
    <2>7. \A g \in 1 .. f : check'.seen[g] = check.manifest.digests[g]
      <3>1. check.at = "read"
        OBVIOUS
      <3>2. \A g \in 1 .. check.read : check.seen[g] = check.manifest.digests[g]
        BY <3>1 DEF Checking
      <3>3. out[f] = check.manifest.digests[f]
        BY <1>2
      <3>4. \A g \in 1 .. f : g \in Files /\ (g = f \/ g \in 1 .. check.read)
        BY <2>2, NumberedFiles DEF Files
      <3> HIDE DEF f
      <3> QED BY <2>2, <2>3, <2>4, <3>2, <3>3, <3>4
    <2>8. Checking'
      <3>1. Recorded(check.manifest)
        BY DEF Checking
      <3>2. (Recorded(check.manifest))'
        BY <2>3, <3>1 DEF Recorded, AllOf
      <3> HIDE DEF f
      <3> QED BY <2>2, <2>3, <2>7, <3>2, NumberedFiles DEF Checking, Files
    <2>9. CurrentCheck'
      BY <2>3 DEF CurrentCheck
    <2>10. AcceptedIntact' /\ AcceptedCurrent'
      BY <2>1 DEF AcceptedIntact, AcceptedCurrent
    <2> QED BY <2>6, <2>8, <2>9, <2>10, BuildKept
  <1> QED BY <1>1, <1>2

LEMMA VerifyEndsStep == IInv /\ VerifyEnds => IInv'
  <1> SUFFICES ASSUME IInv, VerifyEnds PROVE IInv'
    OBVIOUS
  <1> USE DEF IInv, VerifyInv, VerifyEnds
  <1> DEFINE verdict == [commit |-> check.commit, seen |-> check.seen,
                         moved |-> check.manifest.moved]
  <1>1. accepted' \subseteq accepted \cup {verdict}
    OBVIOUS
  <1>2. verdict \in Verdicts
    BY DEF Typed, CheckType, Verdicts, Manifest
  <1>3. Typed'
    BY <1>1, <1>2, FirstTypes DEF Typed, Built
  <1>4. Checking' /\ CurrentCheck'
    BY DEF NoCheck, Checking, CurrentCheck
  <1>5. Recorded(check.manifest) /\ AllOf(check.seen, check.manifest.source)
    BY NumberedFiles DEF Checking, Recorded, AllOf, Files
  <1>6. AcceptedIntact'
    <2>1. \A f \in Files :
            verdict.seen[f] = [of |-> check.manifest.source, whole |-> TRUE]
      BY <1>5 DEF AllOf, WholeOf
    <2> QED BY <1>1, <1>5, <2>1 DEF AcceptedIntact, Recorded
  <1>7. AcceptedCurrent'
    <2>1. verdict.moved \/ \A f \in Files : verdict.seen[f].of = verdict.commit
      BY <1>5 DEF CurrentCheck, AllOf, WholeOf
    <2> QED BY <1>1, <2>1 DEF AcceptedCurrent
  <1> QED BY <1>3, <1>4, <1>6, <1>7, BuildKept

-----------------------------------------------------------------------------
(* The theorems. *)

LEMMA StepInv == IInv /\ [Next]_vars => IInv'
  <1>1. IInv /\ Next => IInv'
    BY BeginsStep, CleansStep, ChecksOutputStep, ArchivesStep,
       MakesStep, TriesStep, CopiesStep, CopiedStep,
       CopyFailsStep, RecordsStep, PublishesStep, FinishesStep,
       KilledStep, VerifyBeginsStep, LoadsStep, ReadsArtifactStep,
       VerifyEndsStep, MovesStep, EditsStep, DiscardsStep,
       DamagesStep
       DEF Next
  <1>2. IInv /\ UNCHANGED vars => IInv'
    BY DEF vars, IInv, Typed, BuildInv, VerifyInv, Copying, ManifestRecorded,
           ManifestWhole, CurrentBuild, Checking, AcceptedIntact, CurrentCheck,
           AcceptedCurrent, Recorded, AllOf
  <1> QED BY <1>1, <1>2

LEMMA Invariance == Spec => []IInv
  BY InitInv, StepInv, PTL DEF Spec

\* scripts/release-integrations.py, build: whatever a build is killed or
\* stopped by, a manifest is only ever beside a whole release of one commit, or
\* one that was damaged after its publication.
THEOREM ManifestsAreWhole == Spec => []ManifestWhole
  <1>1. IInv => ManifestWhole
    BY DEF IInv, BuildInv
  <1> QED BY <1>1, Invariance, PTL

\* verify: what it accepts was whole and of one commit when it was read, also
\* when it was damaged, discarded or built anew while verify read it.
THEOREM AcceptedIsIntact == Spec => []AcceptedIntact
  <1>1. IInv => AcceptedIntact
    BY DEF IInv, VerifyInv
  <1> QED BY <1>1, Invariance, PTL

\* verify: and that commit is the one it was asked about, unless HEAD moved
\* while the release was built.
THEOREM AcceptedIsCurrent == Spec => []AcceptedCurrent
  <1>1. IInv => AcceptedCurrent
    BY DEF IInv, VerifyInv
  <1> QED BY <1>1, Invariance, PTL

=============================================================================
