------------------------------ MODULE Ingestion ------------------------------
(***************************************************************************)
(* Runs of `evidenceops-ingest' (src/evidenceops/cli/ingest.py): processes   *)
(* that share the directory of processed artifacts and that of manifests    *)
(* while a user edits the sources.  A run takes one source after the other,  *)
(* goes on after a source that fails, and ends with its manifest.            *)
(*                                                                         *)
(* Both stores write a temporary file, synchronise it and rename it.  The   *)
(* readers of the directories look for *.json only, so a temporary file is  *)
(* visible to nobody and the rename is the step that writes.                *)
(***************************************************************************)
EXTENDS Integers, FiniteSets, Sequences

CONSTANTS
  Sources,      \* the files below the source root, in the order of their paths
  Texts,        \* normalized contents that make a document
  Runs,         \* invocations of the command
  RunId,        \* the --run-id of each
  Overwriting,  \* the runs given --overwrite-artifacts
  Overlapping,  \* whether a run may start while another is at work
  MaxEdits,     \* bound on the times at which the user saves a file
  Absent        \* a file that is not there

Unreadable == "unreadable"   \* not UTF-8, too large, empty, without a chunk, or gone

SourceSet == {Sources[i] : i \in DOMAIN Sources}
Document == [source : SourceSet, text : Texts, mtime : Nat]
RunIds == {RunId[r] : r \in Runs}
\* document_id hashes the source URI and the normalized text, and nothing else.
DocumentIds == SourceSet \X Texts

ManifestType == [run : Runs, status : {"completed", "failed"}, sources : SUBSET DocumentIds]

ASSUME IngestionAssumption ==
  /\ Sources \in Seq(SourceSet) /\ Sources # <<>>
  /\ \A i, j \in DOMAIN Sources : Sources[i] = Sources[j] => i = j
  /\ Unreadable \notin Texts
  /\ Absent \notin Document \cup ManifestType
  /\ Overwriting \subseteq Runs
  /\ Overlapping \in BOOLEAN
  /\ MaxEdits \in Nat

NoDocument == [source |-> Absent, text |-> Absent, mtime |-> 0]

VARIABLES
  file,        \* of each source: its text and the time it was last modified
  artifacts,   \* data/processed: of each document identifier, what was stored
  manifests,   \* data/manifests: of each run identifier, what was stored
  pc, at,      \* where a run is, and at which source
  document,    \* the record the loader is making, or has made
  listed,      \* identifiers listed as sources of the manifest
  failures     \* sources that failed, with the cause

disk == <<artifacts, manifests>>
vars == <<file, disk, pc, at, document, listed, failures>>

Id(d) == <<d.source, d.text>>

AtSource == {"stat", "read", "check", "replace"}
AtManifest == {"check_manifest", "recheck", "write_manifest"}
AtWork == AtSource \cup AtManifest
Exited == {"completed", "failed", "refused", "crashed"}

-----------------------------------------------------------------------------
Init ==
  /\ file \in [SourceSet -> [text : Texts \cup {Unreadable}, mtime : {0}]]
  /\ artifacts = [d \in DocumentIds |-> Absent]
  /\ manifests = [i \in RunIds |-> Absent]
  /\ pc = [r \in Runs |-> "unborn"]
  /\ at = [r \in Runs |-> 1]
  /\ document = [r \in Runs |-> NoDocument]
  /\ listed = [r \in Runs |-> {}]
  /\ failures = [r \in Runs |-> {}]

\* The user saves a file with another text, or with the same, later than any before.
Edit(s) ==
  /\ \E text \in Texts \cup {Unreadable}, now \in 1..MaxEdits :
       /\ \A other \in SourceSet : file[other].mtime < now
       /\ file' = [file EXCEPT ![s] = [text |-> text, mtime |-> now]]
  /\ UNCHANGED <<disk, pc, at, document, listed, failures>>

Goto(r, step) == pc' = [pc EXCEPT ![r] = step]

Start(r) ==
  /\ pc[r] = "unborn"
  /\ Overlapping \/ \A other \in Runs : pc[other] \notin AtWork
  /\ Goto(r, "stat")
  /\ UNCHANGED <<file, disk, at, document, listed, failures>>

\* Mutated: a run goes back to the source it has just taken.
AdvanceForgets(r) ==
  /\ UNCHANGED at
  /\ Goto(r, IF at[r] < Len(Sources) THEN "stat" ELSE "check_manifest")

\* The next source, or the manifest after the last.
Advance(r) ==
  /\ at' = [at EXCEPT ![r] = @ + 1]
  /\ Goto(r, IF at[r] < Len(Sources) THEN "stat" ELSE "check_manifest")

\* Mutated: a source that fails is passed over.
SourceFailsUnrecorded(r, cause) == Advance(r) /\ UNCHANGED <<artifacts, listed, failures>>

\* An IngestionError costs the run this source only.
SourceFails(r, cause) ==
  /\ failures' = [failures EXCEPT ![r] = @ \cup {<<Sources[at[r]], cause>>}]
  /\ Advance(r)
  /\ UNCHANGED <<artifacts, listed>>

\* The loader takes the time of modification first and the bytes afterwards.
Stat(r) ==
  /\ pc[r] = "stat"
  /\ document' = [document EXCEPT ![r] =
       [source |-> Sources[at[r]], text |-> Absent, mtime |-> file[Sources[at[r]]].mtime]]
  /\ Goto(r, "read")
  /\ UNCHANGED <<file, disk, at, listed, failures>>

\* A source that is gone, no regular file or too large is not read at all.
StatFails(r) ==
  /\ pc[r] = "stat" /\ file[Sources[at[r]]].text = Unreadable
  /\ SourceFails(r, Unreadable)
  /\ UNCHANGED <<file, manifests, document>>

\* Mutated: what cannot be read becomes a document.
ReadUnchecked(r) ==
  /\ pc[r] = "read"
  /\ document' = [document EXCEPT ![r].text = file[Sources[at[r]]].text]
  /\ Goto(r, "check")
  /\ UNCHANGED <<file, disk, at, listed, failures>>

\* What is not a text fails when it is read.
Read(r) ==
  /\ pc[r] = "read"
  /\ LET text == file[Sources[at[r]]].text
     IN  IF text = Unreadable
         THEN SourceFails(r, Unreadable) /\ UNCHANGED document
         ELSE /\ document' = [document EXCEPT ![r] =
                   [source |-> Sources[at[r]], text |-> text, mtime |-> @.mtime]]
              /\ Goto(r, "check")
              /\ UNCHANGED <<artifacts, at, listed, failures>>
  /\ UNCHANGED <<file, manifests>>

Lists(r) == listed' = [listed EXCEPT ![r] = @ \cup {Id(document[r])}]

\* Mutated: every artifact found counts as another one.
SameArtifactNever(r) == FALSE

SameArtifact(r) == artifacts[Id(document[r])] = document[r]

\* Mutated: a differing artifact is replaced whatever was asked for.
CheckArtifactReplaces(r) ==
  /\ pc[r] = "check"
  /\ IF SameArtifact(r) THEN Lists(r) /\ Advance(r)
     ELSE Goto(r, "replace") /\ UNCHANGED <<at, listed>>
  /\ UNCHANGED <<file, disk, document, failures>>

CheckArtifact(r) ==
  /\ pc[r] = "check"
  /\ LET id == Id(document[r])
     IN  IF id \in listed[r] THEN SourceFails(r, "duplicate")
         ELSE IF SameArtifact(r) THEN Lists(r) /\ Advance(r) /\ UNCHANGED failures
         ELSE IF artifacts[id] # Absent /\ r \notin Overwriting
              THEN SourceFails(r, "conflict")
         ELSE Goto(r, "replace") /\ UNCHANGED <<at, listed, failures>>
  /\ UNCHANGED <<file, disk, document>>

ReplaceArtifact(r) ==
  /\ pc[r] = "replace"
  /\ artifacts' = [artifacts EXCEPT ![Id(document[r])] = document[r]]
  /\ Lists(r)
  /\ Advance(r)
  /\ UNCHANGED <<file, manifests, document, failures>>

\* Mutated: the manifest is completed as soon as one source was ingested.
ManifestStatusIfAny(r) == IF listed[r] = {} THEN "failed" ELSE "completed"

ManifestStatus(r) == IF failures[r] = {} THEN "completed" ELSE "failed"

Manifest(r) ==
  [run |-> r, status |-> ManifestStatus(r), sources |-> listed[r]]

\* Mutated: an earlier manifest does not stop a run.
LookForManifestIgnored(r, step, next) ==
  /\ pc[r] = step /\ Goto(r, next)
  /\ UNCHANGED <<file, disk, at, document, listed, failures>>

\* The manifest of an earlier run is looked for twice, and then replaced.
LookForManifest(r, step, next) ==
  /\ pc[r] = step
  /\ Goto(r, IF manifests[RunId[r]] # Absent THEN "refused" ELSE next)
  /\ UNCHANGED <<file, disk, at, document, listed, failures>>

CheckManifest(r)   == LookForManifest(r, "check_manifest", "recheck")
RecheckManifest(r) == LookForManifest(r, "recheck", "write_manifest")

WriteManifest(r) ==
  /\ pc[r] = "write_manifest"
  /\ manifests' = [manifests EXCEPT ![RunId[r]] = Manifest(r)]
  /\ Goto(r, ManifestStatus(r))
  /\ UNCHANGED <<file, artifacts, at, document, listed, failures>>

\* The process dies, or the file system raises what the pipeline does not catch.
Crash(r) ==
  /\ pc[r] \in AtWork
  /\ Goto(r, "crashed")
  /\ UNCHANGED <<file, disk, at, document, listed, failures>>

Step(r) ==
  \/ Stat(r) \/ StatFails(r) \/ Read(r) \/ CheckArtifact(r) \/ ReplaceArtifact(r)
  \/ CheckManifest(r) \/ RecheckManifest(r) \/ WriteManifest(r)

AllExited == (\A r \in Runs : pc[r] \in Exited) /\ UNCHANGED vars

Next ==
  \/ \E s \in SourceSet : Edit(s)
  \/ \E r \in Runs : Start(r) \/ Step(r) \/ Crash(r)
  \/ AllExited

Spec == Init /\ [][Next]_vars

\* A process that was started runs on.
FairSpec == Spec /\ \A r \in Runs : WF_vars(Step(r))

-----------------------------------------------------------------------------
(* Properties.                                                              *)

TypeOK ==
  /\ file \in [SourceSet -> [text : Texts \cup {Unreadable}, mtime : Nat]]
  /\ artifacts \in [DocumentIds -> Document \cup {Absent}]
  /\ manifests \in [RunIds -> ManifestType \cup {Absent}]
  /\ pc \in [Runs -> {"unborn"} \cup AtWork \cup Exited]
  /\ at \in [Runs -> 1..(Len(Sources) + 1)]
  /\ document \in [Runs -> [source : SourceSet \cup {Absent},
                            text : Texts \cup {Absent}, mtime : Nat]]
  /\ listed \in [Runs -> SUBSET DocumentIds]
  /\ failures \in [Runs -> SUBSET (SourceSet \X {Unreadable, "duplicate", "conflict"})]

Listed(s, ids) == \E id \in ids : id[1] = s
HaveArtifacts(ids) == \A id \in ids : artifacts[id] # Absent

\* A manifest on disk describes what is on disk, whichever runs crashed, failed
\* or overwrote since: each source it lists has its artifact, and a completed one
\* lists a document of every source.
ManifestsDescribeDisk ==
  \A i \in RunIds : manifests[i] # Absent =>
    /\ HaveArtifacts(manifests[i].sources)
    /\ manifests[i].status = "completed" =>
         \A s \in SourceSet : Listed(s, manifests[i].sources)

\* What a run at work relies on: it has accounted for every source behind it, and
\* what it has listed is on disk.
AccountsForSources(r) ==
  /\ pc[r] \in AtSource \cup {"unborn"} => at[r] <= Len(Sources)
  /\ pc[r] \in AtManifest => at[r] = Len(Sources) + 1
  /\ pc[r] \in {"read", "check", "replace"} => document[r].source = Sources[at[r]]
  /\ pc[r] \in {"check", "replace"} => document[r] \in Document
  /\ HaveArtifacts(listed[r])
  /\ \A k \in 1..(at[r] - 1) :
       Listed(Sources[k], listed[r]) \/ (\E f \in failures[r] : f[1] = Sources[k])

\* The inductive invariant behind ManifestsDescribeDisk: a run accounts for all it
\* has passed, so that a manifest without failures lists every source.
IngestionInvariant ==
  TypeOK /\ (\A r \in Runs : AccountsForSources(r)) /\ ManifestsDescribeDisk

\* A crash leaves nothing behind that makes a later run fail: a conflict is always
\* with an artifact of an older or newer version of the file.
ConflictsComeFromEdits ==
  \A r \in Runs, s \in SourceSet :
    <<s, "conflict">> \in failures[r] => file[s].mtime > 0

\* Without --overwrite-artifacts, and one run at a time, the stores keep their
\* promise (ADR-009, ADR-010).
Artifacts == INSTANCE WriteOnceFiles WITH Names <- DocumentIds, files <- artifacts
Manifests == INSTANCE WriteOnceFiles WITH Names <- RunIds, files <- manifests
ArtifactsAreImmutable == Artifacts!Spec
ManifestsAreImmutable == Manifests!Spec

\* An exit code that reports a manifest means there is one, and that it is the
\* run's own.
ExitMeansManifest ==
  \A r \in Runs : pc[r] \in {"completed", "failed"} =>
    /\ manifests[RunId[r]] = Manifest(r)
    /\ manifests[RunId[r]].status = pc[r]

\* Every run that is started exits.
RunsEnd == \A r \in Runs : pc[r] \in AtWork ~> pc[r] \in Exited

\* SSOT 4.3: "Ingestion must be idempotent."  A text that has been stored for its
\* source is then no reason for a later run to fail.
IngestionIsIdempotent ==
  \A r \in Runs, s \in SourceSet : <<s, "conflict">> \notin failures[r]
=============================================================================
