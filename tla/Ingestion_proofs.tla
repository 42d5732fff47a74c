--------------------------- MODULE Ingestion_proofs ---------------------------
(***************************************************************************)
(* Whatever the number of runs, of sources and of edits, and however the    *)
(* runs overlap, overwrite and crash: a manifest on disk describes what is  *)
(* on disk.                                                                 *)
(***************************************************************************)
EXTENDS Ingestion, TLAPS

\* The request names at least one source, and position i names a source.
LEMMA SourcesArePositions ==
  /\ Len(Sources) \in Nat /\ Len(Sources) >= 1
  /\ \A k \in 1..Len(Sources) : Sources[k] \in SourceSet
  /\ \A s \in SourceSet : \E k \in 1..Len(Sources) : s = Sources[k]
<1>1. Sources \in Seq(SourceSet) /\ Sources # <<>>
  BY IngestionAssumption DEF IngestionAssumption
<1>2. DOMAIN Sources = 1..Len(Sources) /\ Len(Sources) \in Nat
  BY <1>1
<1>3. Len(Sources) >= 1
  BY <1>1
<1> QED
  BY <1>2, <1>3 DEF SourceSet

\* Only documents are stored, under their own identifier.
LEMMA DocumentsAreThere ==
  ASSUME NEW d \in Document
  PROVE  d # Absent /\ Id(d) \in DocumentIds /\ Id(d)[1] = d.source
BY IngestionAssumption DEF IngestionAssumption, Document, Id, DocumentIds

\* A manifest is of its run.
LEMMA ManifestsAreTyped ==
  ASSUME TypeOK, NEW r \in Runs
  PROVE  Manifest(r) \in ManifestType /\ Manifest(r) # Absent
<1>1. Manifest(r) \in ManifestType
  BY DEF TypeOK, Manifest, ManifestStatus, ManifestType
<1> QED
  BY <1>1, IngestionAssumption DEF IngestionAssumption

\* Nothing is removed from data/processed.
LEMMA ArtifactsStay ==
  ASSUME TypeOK, \A r \in Runs : AccountsForSources(r), [Next]_vars, NEW id \in DocumentIds,
         artifacts[id] # Absent
  PROVE  artifacts'[id] # Absent
<1>1. CASE UNCHANGED artifacts
  BY <1>1
<1>2. ASSUME NEW r \in Runs, ReplaceArtifact(r)
      PROVE  artifacts'[id] # Absent
  <2>1. document[r] \in Document
    BY <1>2 DEF ReplaceArtifact, AccountsForSources
  <2>2. artifacts \in [DocumentIds -> Document \cup {Absent}]
    BY DEF TypeOK
  <2> QED
    BY <1>2, <2>1, <2>2, DocumentsAreThere DEF ReplaceArtifact
<1> QED
  BY <1>1, <1>2 DEF Next, vars, disk, Edit, Start, Step, Crash, AllExited, Stat, StatFails, Read,
     CheckArtifact, CheckManifest, RecheckManifest, LookForManifest, WriteManifest, SourceFails

-----------------------------------------------------------------------------
(* Type correctness: one lemma per action that changes more than pc.        *)

LEMMA InitTyped == Init => TypeOK
<1> SUFFICES ASSUME Init PROVE TypeOK
  OBVIOUS
<1>1. file \in [SourceSet -> [text : Texts \cup {Unreadable}, mtime : Nat]]
  BY DEF Init
<1>2. /\ artifacts \in [DocumentIds -> Document \cup {Absent}]
      /\ manifests \in [RunIds -> ManifestType \cup {Absent}]
  BY DEF Init
<1>3. at \in [Runs -> 1..(Len(Sources) + 1)]
  BY SourcesArePositions DEF Init
<1>4. /\ pc \in [Runs -> {"unborn"} \cup AtWork \cup Exited]
      /\ document \in [Runs -> [source : SourceSet \cup {Absent},
                               text : Texts \cup {Absent}, mtime : Nat]]
      /\ listed \in [Runs -> SUBSET DocumentIds]
      /\ failures \in [Runs -> SUBSET (SourceSet \X {Unreadable, "duplicate", "conflict"})]
  BY DEF Init, NoDocument
<1> QED
  BY <1>1, <1>2, <1>3, <1>4 DEF TypeOK

\* Every goto of a run leads to one of its steps.
LEMMA PcTyped ==
  ASSUME TypeOK, NEW r \in Runs, NEW step \in {"unborn"} \cup AtWork \cup Exited,
         Goto(r, step)
  PROVE  pc' \in [Runs -> {"unborn"} \cup AtWork \cup Exited]
BY DEF TypeOK, Goto

\* A run at a source goes to the next one, or on to its manifest.
LEMMA AdvanceTyped ==
  ASSUME TypeOK, NEW r \in Runs, at[r] <= Len(Sources), Advance(r)
  PROVE  /\ at' \in [Runs -> 1..(Len(Sources) + 1)]
         /\ pc' \in [Runs -> {"unborn"} \cup AtWork \cup Exited]
<1>1. at \in [Runs -> 1..(Len(Sources) + 1)] /\ at[r] \in 1..Len(Sources)
  BY SourcesArePositions DEF TypeOK
<1>2. at' \in [Runs -> 1..(Len(Sources) + 1)]
  BY <1>1, SourcesArePositions DEF Advance
<1>3. /\ pc \in [Runs -> {"unborn"} \cup AtWork \cup Exited]
      /\ pc' = [pc EXCEPT ![r] = IF at[r] < Len(Sources) THEN "stat" ELSE "check_manifest"]
  BY DEF TypeOK, Advance, Goto
<1>4. pc' \in [Runs -> {"unborn"} \cup AtWork \cup Exited]
  BY <1>3 DEF AtWork, AtSource, AtManifest
<1> QED
  BY <1>2, <1>4

\* What a run records of a source is a failure of it.
LEMMA FailuresTyped ==
  ASSUME TypeOK, NEW r \in Runs, at[r] <= Len(Sources),
         NEW cause \in {Unreadable, "duplicate", "conflict"}, SourceFails(r, cause)
  PROVE  failures' \in [Runs -> SUBSET (SourceSet \X {Unreadable, "duplicate", "conflict"})]
<1>1. at[r] \in 1..Len(Sources)
  BY SourcesArePositions DEF TypeOK
<1>2. <<Sources[at[r]], cause>> \in SourceSet \X {Unreadable, "duplicate", "conflict"}
  BY <1>1, SourcesArePositions
<1> QED
  BY <1>2 DEF TypeOK, SourceFails

-----------------------------------------------------------------------------
LEMMA NextTyped ==
  ASSUME IngestionInvariant, [Next]_vars
  PROVE  TypeOK'
<1> USE DEF IngestionInvariant
<1>1. ASSUME NEW s \in SourceSet, Edit(s) PROVE TypeOK'
  <2>1. file' \in [SourceSet -> [text : Texts \cup {Unreadable}, mtime : Nat]]
    BY <1>1, IngestionAssumption DEF Edit, TypeOK, IngestionAssumption
  <2> QED
    BY <1>1, <2>1 DEF Edit, disk, TypeOK
<1>2. ASSUME NEW r \in Runs, Start(r) PROVE TypeOK'
  BY <1>2, PcTyped DEF Start, disk, TypeOK, AtWork, AtSource
<1>3. ASSUME NEW r \in Runs, Stat(r) PROVE TypeOK'
  <2>1. Sources[at[r]] \in SourceSet
    BY <1>3, SourcesArePositions DEF Stat, TypeOK, AccountsForSources, AtSource
  <2>2. document' \in [Runs -> [source : SourceSet \cup {Absent},
                               text : Texts \cup {Absent}, mtime : Nat]]
    BY <1>3, <2>1 DEF Stat, TypeOK
  <2> QED
    BY <1>3, <2>2, PcTyped DEF Stat, disk, TypeOK, AtWork, AtSource
<1>3b. ASSUME NEW r \in Runs, StatFails(r) PROVE TypeOK'
  <2>1. Sources[at[r]] \in SourceSet /\ at[r] <= Len(Sources)
    BY <1>3b, SourcesArePositions DEF StatFails, TypeOK, AccountsForSources, AtSource
  <2> QED
    BY <1>3b, <2>1, AdvanceTyped, FailuresTyped DEF StatFails, SourceFails, TypeOK
<1>4. ASSUME NEW r \in Runs, Read(r) PROVE TypeOK'
  <2>1. Sources[at[r]] \in SourceSet /\ at[r] <= Len(Sources)
    BY <1>4, SourcesArePositions DEF Read, TypeOK, AccountsForSources, AtSource
  <2>2. CASE file[Sources[at[r]]].text = Unreadable
    BY <1>4, <2>1, <2>2, AdvanceTyped, FailuresTyped DEF Read, SourceFails, TypeOK
  <2>3. CASE file[Sources[at[r]]].text # Unreadable
    <3>1. file[Sources[at[r]]].text \in Texts
      BY <2>1, <2>3 DEF TypeOK
    <3>2. document' \in [Runs -> [source : SourceSet \cup {Absent},
                                 text : Texts \cup {Absent}, mtime : Nat]]
      <4> DEFINE loaded == [source |-> Sources[at[r]], text |-> file[Sources[at[r]]].text,
                            mtime  |-> document[r].mtime]
      <4>1. document' = [document EXCEPT ![r] = loaded]
        BY <1>4, <2>3 DEF Read
      <4>2. loaded \in [source : SourceSet \cup {Absent}, text : Texts \cup {Absent}, mtime : Nat]
        BY <2>1, <3>1 DEF TypeOK
      <4> HIDE DEF loaded
      <4> QED
        BY <4>1, <4>2 DEF TypeOK
    <3> QED
      BY <1>4, <2>3, <3>2, PcTyped DEF Read, TypeOK, AtWork, AtSource
  <2> QED
    BY <2>2, <2>3
<1>5. ASSUME NEW r \in Runs, CheckArtifact(r) PROVE TypeOK'
  <2>1. at[r] <= Len(Sources) /\ Id(document[r]) \in DocumentIds
    BY <1>5, DocumentsAreThere DEF CheckArtifact, AccountsForSources, AtSource
  <2>2. CASE SourceFails(r, "duplicate") \/ SourceFails(r, "conflict")
    BY <1>5, <2>1, <2>2, AdvanceTyped, FailuresTyped
    DEF CheckArtifact, SourceFails, disk, TypeOK
  <2>3. CASE Lists(r) /\ Advance(r) /\ UNCHANGED failures
    BY <1>5, <2>1, <2>3, AdvanceTyped DEF CheckArtifact, Lists, disk, TypeOK
  <2>4. CASE Goto(r, "replace") /\ UNCHANGED <<at, listed, failures>>
    BY <1>5, <2>4, PcTyped DEF CheckArtifact, disk, TypeOK, AtWork, AtSource
  <2> QED
    BY <1>5, <2>2, <2>3, <2>4 DEF CheckArtifact
<1>6. ASSUME NEW r \in Runs, ReplaceArtifact(r) PROVE TypeOK'
  <2>1. /\ at[r] <= Len(Sources)
        /\ document[r] \in Document /\ Id(document[r]) \in DocumentIds
    BY <1>6, DocumentsAreThere DEF ReplaceArtifact, AccountsForSources, AtSource
  <2>2. artifacts' \in [DocumentIds -> Document \cup {Absent}]
    BY <1>6, <2>1 DEF ReplaceArtifact, TypeOK
  <2> QED
    BY <1>6, <2>1, <2>2, AdvanceTyped DEF ReplaceArtifact, Lists, TypeOK
<1>7. ASSUME NEW r \in Runs, CheckManifest(r) \/ RecheckManifest(r) PROVE TypeOK'
  BY <1>7, PcTyped
  DEF CheckManifest, RecheckManifest, LookForManifest, disk, TypeOK, AtWork, AtManifest, Exited
<1>8. ASSUME NEW r \in Runs, WriteManifest(r) PROVE TypeOK'
  <2>1. manifests' \in [RunIds -> ManifestType \cup {Absent}]
    BY <1>8, ManifestsAreTyped DEF WriteManifest, RunIds, TypeOK
  <2>2. ManifestStatus(r) \in Exited
    BY DEF ManifestStatus, Exited
  <2> QED
    BY <1>8, <2>1, <2>2, PcTyped DEF WriteManifest, TypeOK
<1>9. ASSUME NEW r \in Runs, Crash(r) PROVE TypeOK'
  BY <1>9, PcTyped DEF Crash, disk, TypeOK, Exited
<1>10. CASE UNCHANGED vars
  BY <1>10 DEF vars, disk, TypeOK
<1> QED
  BY <1>1, <1>2, <1>3, <1>3b, <1>4, <1>5, <1>6, <1>7, <1>8, <1>9, <1>10 DEF Next, Step, AllExited

-----------------------------------------------------------------------------
(* Every run accounts for the sources behind it.                            *)

\* What a run has listed stays on disk.
LEMMA ListedStays ==
  ASSUME IngestionInvariant, [Next]_vars, NEW ids \in SUBSET DocumentIds, HaveArtifacts(ids)
  PROVE  \A id \in ids : artifacts'[id] # Absent
BY ArtifactsStay DEF IngestionInvariant, HaveArtifacts

\* A step of a run leaves what the others account for.
LEMMA OthersAccount ==
  ASSUME IngestionInvariant, [Next]_vars, NEW r \in Runs,
         pc'[r] = pc[r], at'[r] = at[r], document'[r] = document[r],
         listed'[r] = listed[r], failures'[r] = failures[r]
  PROVE  AccountsForSources(r)'
<1>1. AccountsForSources(r) /\ listed[r] \in SUBSET DocumentIds
  BY DEF IngestionInvariant, TypeOK
<1>2. HaveArtifacts(listed[r])'
  BY <1>1, ListedStays DEF AccountsForSources, HaveArtifacts
<1> QED
  BY <1>1, <1>2 DEF AccountsForSources, Listed

\* A step on which a run keeps its place needs nothing but that the place be right.
LEMMA InPlaceAccounts ==
  ASSUME IngestionInvariant, [Next]_vars, NEW r \in Runs,
         at'[r] = at[r], listed'[r] = listed[r], failures'[r] = failures[r],
         pc'[r] \in AtSource \cup {"unborn"} => at[r] <= Len(Sources),
         pc'[r] \in AtManifest => at[r] = Len(Sources) + 1,
         pc'[r] \in {"read", "check", "replace"} => document'[r].source = Sources[at[r]],
         pc'[r] \in {"check", "replace"} => document'[r] \in Document
  PROVE  AccountsForSources(r)'
<1>1. AccountsForSources(r) /\ listed[r] \in SUBSET DocumentIds
  BY DEF IngestionInvariant, TypeOK
<1>2. HaveArtifacts(listed[r])'
  BY <1>1, ListedStays DEF AccountsForSources, HaveArtifacts
<1> QED
  BY <1>1, <1>2 DEF AccountsForSources, Listed

\* A run that goes on has listed its source, or recorded its failure.
LEMMA AdvanceAccounts ==
  ASSUME IngestionInvariant, [Next]_vars, NEW r \in Runs, pc[r] \in AtSource, Advance(r),
         listed[r] \subseteq listed'[r], failures[r] \subseteq failures'[r],
         \A id \in listed'[r] : artifacts'[id] # Absent,
         \/ Listed(Sources[at[r]], listed'[r])
         \/ \E f \in failures'[r] : f[1] = Sources[at[r]]
  PROVE  AccountsForSources(r)'
<1>1. AccountsForSources(r) /\ at[r] \in 1..Len(Sources) /\ Len(Sources) \in Nat
  <2>1. AccountsForSources(r) /\ at[r] \in 1..(Len(Sources) + 1)
    BY DEF IngestionInvariant, TypeOK
  <2>2. at[r] <= Len(Sources)
    BY <2>1 DEF AccountsForSources
  <2> QED
    BY <2>1, <2>2, SourcesArePositions
<1>2. at'[r] = at[r] + 1 /\ pc'[r] = IF at[r] < Len(Sources) THEN "stat" ELSE "check_manifest"
  BY DEF Advance, Goto, IngestionInvariant, TypeOK
<1>3. ASSUME NEW k \in 1..(at'[r] - 1)
      PROVE  Listed(Sources[k], listed'[r]) \/ (\E f \in failures'[r] : f[1] = Sources[k])
  <2>1. CASE k = at[r]
    BY <2>1
  <2>2. CASE k # at[r]
    <3>1. k \in 1..(at[r] - 1)
      BY <1>1, <1>2, <2>2
    <3> QED
      BY <1>1, <3>1 DEF AccountsForSources, Listed
  <2> QED
    BY <2>1, <2>2
<1>4. HaveArtifacts(listed[r])'
  BY DEF HaveArtifacts
<1>5. /\ pc'[r] \in AtSource \cup {"unborn"} => at'[r] <= Len(Sources)
      /\ pc'[r] \in AtManifest => at'[r] = Len(Sources) + 1
      /\ pc'[r] \notin {"read", "check", "replace"}
  BY <1>1, <1>2 DEF AtSource, AtManifest
<1> QED
  BY <1>3, <1>4, <1>5 DEF AccountsForSources, Listed

\* A source that fails is accounted for by its failure.
LEMMA FailureAccounts ==
  ASSUME IngestionInvariant, [Next]_vars, NEW r \in Runs, pc[r] \in AtSource,
         NEW cause, SourceFails(r, cause)
  PROVE  AccountsForSources(r)'
<1>1. failures'[r] = failures[r] \cup {<<Sources[at[r]], cause>>} /\ listed' = listed
  BY DEF SourceFails, IngestionInvariant, TypeOK
<1>2. \E f \in failures'[r] : f[1] = Sources[at[r]]
  <2>1. <<Sources[at[r]], cause>>[1] = Sources[at[r]]
    OBVIOUS
  <2>2. <<Sources[at[r]], cause>> \in failures'[r]
    BY <1>1
  <2> QED
    BY <2>1, <2>2, Zenon
<1>3. \A id \in listed'[r] : artifacts'[id] # Absent
  BY <1>1, ListedStays DEF IngestionInvariant, AccountsForSources, TypeOK
<1> QED
  BY <1>1, <1>2, <1>3, AdvanceAccounts DEF SourceFails

\* A source that is listed is accounted for by its artifact.
LEMMA ListingAccounts ==
  ASSUME IngestionInvariant, [Next]_vars, NEW r \in Runs, pc[r] \in {"check", "replace"},
         Lists(r), Advance(r), UNCHANGED failures, artifacts'[Id(document[r])] # Absent
  PROVE  AccountsForSources(r)'
<1>1. document[r] \in Document /\ document[r].source = Sources[at[r]]
  BY DEF IngestionInvariant, AccountsForSources
<1>2. listed'[r] = listed[r] \cup {Id(document[r])}
  BY DEF Lists, IngestionInvariant, TypeOK
<1>3. Listed(Sources[at[r]], listed'[r])
  BY <1>1, <1>2, DocumentsAreThere DEF Listed
<1>4. \A id \in listed[r] : artifacts'[id] # Absent
  BY ListedStays DEF IngestionInvariant, AccountsForSources, TypeOK
<1>5. \A id \in listed'[r] : artifacts'[id] # Absent
  BY <1>2, <1>4
<1>6. failures[r] \subseteq failures'[r] /\ listed[r] \subseteq listed'[r] /\ pc[r] \in AtSource
  BY <1>2 DEF AtSource
<1> QED
  BY <1>3, <1>5, <1>6, AdvanceAccounts

LEMMA NextAccounts ==
  ASSUME IngestionInvariant, [Next]_vars, NEW q \in Runs
  PROVE  AccountsForSources(q)'
<1> DEFINE Same == /\ pc'[q] = pc[q] /\ at'[q] = at[q] /\ document'[q] = document[q]
                   /\ listed'[q] = listed[q] /\ failures'[q] = failures[q]
<1> USE DEF IngestionInvariant
<1>1. Same => AccountsForSources(q)'
  BY OthersAccount
<1>2. ASSUME NEW r \in Runs, r # q, Start(r) \/ Step(r) \/ Crash(r) PROVE Same
  <2>1. Advance(r) => pc'[q] = pc[q] /\ at'[q] = at[q]
    BY <1>2 DEF Advance, Goto, TypeOK
  <2>2. ASSUME NEW cause, SourceFails(r, cause)
        PROVE  failures'[q] = failures[q] /\ listed'[q] = listed[q]
    BY <1>2, <2>2 DEF SourceFails, TypeOK
  <2>3. CASE Read(r) \/ StatFails(r)
    BY <1>2, <2>1, <2>2, <2>3 DEF Read, StatFails, SourceFails, Goto, TypeOK
  <2>4. CASE CheckArtifact(r)
    BY <1>2, <2>1, <2>2, <2>4 DEF CheckArtifact, SourceFails, Lists, Goto, TypeOK
  <2>5. CASE ReplaceArtifact(r)
    BY <1>2, <2>1, <2>5 DEF ReplaceArtifact, Lists, TypeOK
  <2>6. CASE Start(r) \/ Crash(r) \/ Stat(r) \/ CheckManifest(r) \/ RecheckManifest(r)
             \/ WriteManifest(r)
    BY <1>2, <2>6 DEF Start, Crash, Stat, CheckManifest, RecheckManifest, LookForManifest,
       WriteManifest, Goto, TypeOK
  <2> QED
    BY <1>2, <2>3, <2>4, <2>5, <2>6 DEF Step
<1>3. CASE Start(q)
  <2>1. at[q] <= Len(Sources) /\ pc'[q] = "stat"
    BY <1>3 DEF Start, Goto, TypeOK, AccountsForSources
  <2> QED
    BY <1>3, <2>1, InPlaceAccounts DEF Start, AtManifest
<1>4. CASE Stat(q)
  <2>1. pc[q] \in AtSource
    BY <1>4 DEF Stat, AtSource
  <2> QED
    BY <1>4, <2>1, InPlaceAccounts DEF Stat, Goto, TypeOK, AtManifest, AccountsForSources
<1>4b. CASE StatFails(q)
  <2>1. pc[q] \in AtSource /\ at[q] <= Len(Sources) /\ Sources[at[q]] \in SourceSet
    BY <1>4b, SourcesArePositions DEF StatFails, AtSource, AccountsForSources, TypeOK
  <2> QED
    BY <1>4b, <2>1, FailureAccounts DEF StatFails
<1>5. CASE Read(q)
  <2>1. pc[q] \in AtSource /\ at[q] <= Len(Sources) /\ Sources[at[q]] \in SourceSet
    BY <1>5, SourcesArePositions DEF Read, AtSource, AccountsForSources, TypeOK
  <2>2. CASE SourceFails(q, Unreadable)
    BY <2>1, <2>2, FailureAccounts
  <2>3. CASE file[Sources[at[q]]].text # Unreadable
    <3> DEFINE loaded == [source |-> Sources[at[q]], text |-> file[Sources[at[q]]].text,
                          mtime  |-> document[q].mtime]
    <3>1. document' = [document EXCEPT ![q] = loaded] /\ Goto(q, "check")
          /\ UNCHANGED <<at, listed, failures>>
      BY <1>5, <2>3 DEF Read
    <3>2. loaded \in Document /\ loaded.source = Sources[at[q]]
      BY <2>1, <2>3 DEF TypeOK, Document
    <3> HIDE DEF loaded
    <3>3. document'[q] = loaded /\ pc'[q] = "check"
      BY <3>1 DEF Goto, TypeOK
    <3> QED
      BY <2>1, <3>1, <3>2, <3>3, InPlaceAccounts DEF AtManifest
  <2> QED
    BY <1>5, <2>2, <2>3 DEF Read
<1>6. CASE CheckArtifact(q)
  <2>1. pc[q] \in AtSource /\ pc[q] \in {"check", "replace"}
    BY <1>6 DEF CheckArtifact, AtSource
  <2>2. document[q] \in Document /\ at[q] <= Len(Sources)
    BY <2>1 DEF AccountsForSources
  <2>3. CASE SourceFails(q, "duplicate") \/ SourceFails(q, "conflict")
    BY <2>1, <2>3, FailureAccounts
  <2>4. CASE SameArtifact(q) /\ Lists(q) /\ Advance(q) /\ UNCHANGED failures
    <3>1. artifacts'[Id(document[q])] # Absent
      BY <1>6, <2>2, <2>4, DocumentsAreThere DEF CheckArtifact, SameArtifact, disk
    <3> QED
      BY <2>1, <2>4, <3>1, ListingAccounts
  <2>5. CASE Goto(q, "replace") /\ UNCHANGED <<at, listed, failures>>
    <3>1. pc'[q] = "replace" /\ document' = document
      BY <1>6, <2>5 DEF Goto, CheckArtifact, TypeOK
    <3> QED
      BY <2>1, <2>2, <2>5, <3>1, InPlaceAccounts DEF AtManifest, AccountsForSources
  <2> QED
    BY <1>6, <2>3, <2>4, <2>5 DEF CheckArtifact
<1>7. CASE ReplaceArtifact(q)
  <2>1. document[q] \in Document
    BY <1>7 DEF ReplaceArtifact, AccountsForSources
  <2>2. artifacts'[Id(document[q])] # Absent
    BY <1>7, <2>1, DocumentsAreThere DEF ReplaceArtifact, TypeOK
  <2> QED
    BY <1>7, <2>2, ListingAccounts DEF ReplaceArtifact
<1>8. CASE CheckManifest(q) \/ RecheckManifest(q)
  <2>1. pc[q] \in AtManifest /\ at[q] = Len(Sources) + 1
    BY <1>8 DEF CheckManifest, RecheckManifest, LookForManifest, AtManifest, AccountsForSources
  <2>2. pc'[q] \in {"refused", "recheck", "write_manifest"}
    BY <1>8 DEF CheckManifest, RecheckManifest, LookForManifest, Goto, TypeOK
  <2> QED
    BY <1>8, <2>1, <2>2, InPlaceAccounts
    DEF CheckManifest, RecheckManifest, LookForManifest, AtSource
<1>9. CASE WriteManifest(q) \/ Crash(q)
  <2>1. pc'[q] \notin AtWork \cup {"unborn", "read", "check", "replace"}
    BY <1>9 DEF WriteManifest, ManifestStatus, Crash, Goto, TypeOK, AtWork, AtSource, AtManifest
  <2> QED
    BY <1>9, <2>1, InPlaceAccounts DEF WriteManifest, Crash, AtWork
<1>10. CASE UNCHANGED vars \/ (\E s \in SourceSet : Edit(s))
  BY <1>1, <1>10 DEF vars, disk, Edit
<1> QED
  BY <1>1, <1>2, <1>3, <1>4, <1>4b, <1>5, <1>6, <1>7, <1>8, <1>9, <1>10 DEF Next, Step, AllExited

-----------------------------------------------------------------------------
LEMMA NextDescribes ==
  ASSUME IngestionInvariant, [Next]_vars
  PROVE  ManifestsDescribeDisk'
<1> USE DEF IngestionInvariant
<1>1. ASSUME NEW i \in RunIds, manifests'[i] # Absent, manifests'[i] = manifests[i]
      PROVE  /\ \A id \in manifests'[i].sources : artifacts'[id] # Absent
             /\ manifests'[i].status = "completed" =>
                  \A s \in SourceSet : Listed(s, manifests'[i].sources)
  <2>1. manifests[i].sources \in SUBSET DocumentIds
    BY <1>1 DEF TypeOK, ManifestType
  <2> QED
    BY <1>1, <2>1, ListedStays DEF ManifestsDescribeDisk
<1>2. CASE UNCHANGED manifests
  BY <1>1, <1>2 DEF ManifestsDescribeDisk, HaveArtifacts, Listed
<1>3. ASSUME NEW r \in Runs, WriteManifest(r), NEW i \in RunIds, i = RunId[r]
      PROVE  /\ \A id \in manifests'[i].sources : artifacts'[id] # Absent
             /\ manifests'[i].status = "completed" =>
                  \A s \in SourceSet : Listed(s, manifests'[i].sources)
  <2>1. manifests'[i] = Manifest(r)
    BY <1>3 DEF WriteManifest, TypeOK
  <2>2. manifests'[i].sources = listed[r] /\ manifests'[i].status = ManifestStatus(r)
    BY <2>1 DEF Manifest
  <2>3. \A id \in listed[r] : artifacts'[id] # Absent
    BY ListedStays DEF AccountsForSources, TypeOK
  <2>4. ASSUME ManifestStatus(r) = "completed", NEW s \in SourceSet
        PROVE  Listed(s, listed[r])
    <3>1. failures[r] = {} /\ at[r] = Len(Sources) + 1
      BY <1>3, <2>4 DEF ManifestStatus, WriteManifest, AccountsForSources, AtManifest
    <3>2. PICK k \in 1..Len(Sources) : s = Sources[k]
      BY SourcesArePositions
    <3>3. k \in 1..(at[r] - 1)
      BY <3>1, SourcesArePositions
    <3> QED
      BY <3>1, <3>2, <3>3 DEF AccountsForSources
  <2> QED
    BY <2>2, <2>3, <2>4
<1>4. ASSUME NEW r \in Runs, WriteManifest(r) PROVE ManifestsDescribeDisk'
  <2>1. \A i \in RunIds : i # RunId[r] => manifests'[i] = manifests[i]
    BY <1>4 DEF WriteManifest, TypeOK
  <2> QED
    BY <1>1, <1>3, <1>4, <2>1 DEF ManifestsDescribeDisk, HaveArtifacts, Listed
<1> QED
  BY <1>2, <1>4 DEF Next, vars, disk, Edit, Start, Step, Crash, AllExited, Stat, StatFails, Read,
     CheckArtifact, ReplaceArtifact, CheckManifest, RecheckManifest, LookForManifest, SourceFails

\* The inductive invariant of ingestion (cli/ingest.py, pipeline.py): types, and what
\* each run accounts for.
THEOREM InvariantOfIngestion == Spec => []IngestionInvariant
<1>1. Init => IngestionInvariant
  <2> SUFFICES ASSUME Init PROVE IngestionInvariant
    OBVIOUS
  <2>1. \A r \in Runs : AccountsForSources(r)
    BY SourcesArePositions DEF Init, AccountsForSources, HaveArtifacts, AtSource, AtManifest
  <2>2. ManifestsDescribeDisk
    BY DEF Init, ManifestsDescribeDisk
  <2> QED
    BY <2>1, <2>2, InitTyped DEF IngestionInvariant
<1>2. IngestionInvariant /\ [Next]_vars => IngestionInvariant'
  BY NextTyped, NextAccounts, NextDescribes DEF IngestionInvariant
<1> QED
  BY <1>1, <1>2, PTL DEF Spec

\* What is on disk and what each run of evidenceops-ingest holds keep to their domains:
\* a run's position stays within its sources, and only documents of the sources are
\* stored, listed or recorded as failed (pipeline.py, artifacts.py, manifest.py).
THEOREM TypesAreKept == Spec => []TypeOK
BY InvariantOfIngestion, PTL DEF IngestionInvariant

\* A manifest on disk lists only documents that data/processed holds, and a completed
\* one a document of every source (pipeline.py 71-127), for any number of sources and
\* of runs that overlap, overwrite each other's files and crash anywhere.
THEOREM ManifestsAreTrue == Spec => []ManifestsDescribeDisk
BY InvariantOfIngestion, PTL DEF IngestionInvariant

-----------------------------------------------------------------------------
(* Manifests: when a run may look for its manifest and then write it.       *)

\* Nobody writes the manifest of a run in its stead: runs follow one another, or each has
\* an identifier of its own.
OwnIdentifiers == \A q, r \in Runs : RunId[q] = RunId[r] => q = r
ManifestsAreUnshared == ~Overlapping \/ OwnIdentifiers

\* A run that is about to write its manifest has seen that there is none, and nothing
\* happened since.
ManifestInvariant ==
  /\ ~Overlapping => \A q, r \in Runs : pc[q] \in AtWork /\ pc[r] \in AtWork => q = r
  /\ OwnIdentifiers =>
       \A r \in Runs : pc[r] \notin {"completed", "failed"} => manifests[RunId[r]] = Absent
  /\ \A r \in Runs : pc[r] = "write_manifest" => manifests[RunId[r]] = Absent
  /\ ExitMeansManifest

\* A run that is not at work is started only when it may be, and the others keep their place.
LEMMA OneRunMoves ==
  ASSUME TypeOK, [Next]_vars
  PROVE  \/ UNCHANGED pc
         \/ \E r \in Runs :
              /\ \A q \in Runs : q # r => pc'[q] = pc[q]
              /\ \/ Start(r) /\ pc[r] \notin AtWork
                 \/ (Step(r) \/ Crash(r)) /\ pc[r] \in AtWork
<1>1. ASSUME NEW r \in Runs, Start(r)
      PROVE  pc[r] \notin AtWork /\ \A q \in Runs : q # r => pc'[q] = pc[q]
  BY <1>1 DEF Start, Goto, TypeOK, AtWork, AtSource, AtManifest
<1>2. ASSUME NEW r \in Runs, Crash(r)
      PROVE  pc[r] \in AtWork /\ \A q \in Runs : q # r => pc'[q] = pc[q]
  BY <1>2 DEF Crash, Goto, TypeOK
<1>3. ASSUME NEW r \in Runs, Step(r)
      PROVE  pc[r] \in AtWork /\ \A q \in Runs : q # r => pc'[q] = pc[q]
  <2>1. pc[r] \in AtWork
    BY <1>3 DEF Step, Stat, StatFails, Read, CheckArtifact, ReplaceArtifact,
       CheckManifest, RecheckManifest, LookForManifest, WriteManifest, AtWork, AtSource, AtManifest
  <2>2. \E step : Goto(r, step)
    BY <1>3 DEF Step, Stat, StatFails, Read, CheckArtifact, ReplaceArtifact,
       CheckManifest, RecheckManifest, LookForManifest, WriteManifest, SourceFails, Advance
  <2> QED
    BY <2>1, <2>2 DEF Goto, TypeOK
<1>4. (\E s \in SourceSet : Edit(s)) \/ UNCHANGED vars => UNCHANGED pc
  BY DEF Edit, vars
<1> QED
  BY <1>1, <1>2, <1>3, <1>4 DEF Next, AllExited

\* Manifests are written by WriteManifest alone, and a run that exits keeps what it listed.
LEMMA ManifestsAreWrittenOnce ==
  ASSUME TypeOK, [Next]_vars
  PROVE  /\ UNCHANGED manifests \/ \E r \in Runs : WriteManifest(r)
         /\ \A r \in Runs : pc[r] \notin AtWork /\ pc'[r] = pc[r]
                              => listed'[r] = listed[r] /\ failures'[r] = failures[r]
<1>1. UNCHANGED manifests \/ \E r \in Runs : WriteManifest(r)
  BY DEF Next, vars, disk, Edit, Start, Step, Crash, AllExited, Stat, StatFails, Read, CheckArtifact,
     ReplaceArtifact, CheckManifest, RecheckManifest, LookForManifest
<1>2. ASSUME NEW r \in Runs, pc[r] \notin AtWork
      PROVE  listed'[r] = listed[r] /\ failures'[r] = failures[r]
  <2>1. ASSUME NEW q \in Runs, Step(q)
        PROVE  q # r
    BY <1>2, <2>1 DEF Step, Stat, StatFails, Read, CheckArtifact, ReplaceArtifact,
       CheckManifest, RecheckManifest, LookForManifest, WriteManifest, AtWork, AtSource, AtManifest
  <2>2. ASSUME NEW q \in Runs, Read(q) \/ StatFails(q), q # r
        PROVE  listed'[r] = listed[r] /\ failures'[r] = failures[r]
    BY <2>2 DEF Read, StatFails, SourceFails, TypeOK
  <2>3. ASSUME NEW q \in Runs, CheckArtifact(q), q # r
        PROVE  listed'[r] = listed[r] /\ failures'[r] = failures[r]
    BY <2>3 DEF CheckArtifact, SourceFails, Lists, TypeOK
  <2>4. ASSUME NEW q \in Runs, ReplaceArtifact(q), q # r
        PROVE  listed'[r] = listed[r] /\ failures'[r] = failures[r]
    BY <2>4 DEF ReplaceArtifact, Lists, TypeOK
  <2>5. ASSUME NEW q \in Runs, \/ Start(q) \/ Crash(q) \/ Stat(q) \/ CheckManifest(q)
                               \/ RecheckManifest(q) \/ WriteManifest(q)
        PROVE  UNCHANGED <<listed, failures>>
    BY <2>5 DEF Start, Crash, Stat, CheckManifest, RecheckManifest, LookForManifest,
       WriteManifest
  <2>6. (\E s \in SourceSet : Edit(s)) \/ UNCHANGED vars => UNCHANGED <<listed, failures>>
    BY DEF Edit, vars
  <2> QED
    BY <2>1, <2>2, <2>3, <2>4, <2>5, <2>6 DEF Next, Step, AllExited
<1> QED
  BY <1>1, <1>2

LEMMA OneAtWork ==
  ASSUME TypeOK, ManifestInvariant, [Next]_vars, ~Overlapping,
         NEW q \in Runs, NEW r \in Runs, pc'[q] \in AtWork, pc'[r] \in AtWork
  PROVE  q = r
<1>1. CASE UNCHANGED pc
  BY <1>1 DEF ManifestInvariant
<1>2. ASSUME NEW p \in Runs, \A o \in Runs : o # p => pc'[o] = pc[o], pc[p] \in AtWork
      PROVE  q = r
  BY <1>2 DEF ManifestInvariant
<1>3. ASSUME NEW p \in Runs, \A o \in Runs : o # p => pc'[o] = pc[o], Start(p)
      PROVE  q = r
  BY <1>3 DEF Start
<1> QED
  BY <1>1, <1>2, <1>3, OneRunMoves

\* What a run finds when it has looked for its manifest stays so until it writes it.
LEMMA ManifestInvariantKept ==
  ASSUME TypeOK, TypeOK', ManifestInvariant, [Next]_vars, ManifestsAreUnshared
  PROVE  ManifestInvariant'
<1> USE DEF ManifestInvariant
<1>1. ~Overlapping => \A q, r \in Runs : pc'[q] \in AtWork /\ pc'[r] \in AtWork => q = r
  BY OneAtWork
<1>2. \A r \in Runs : RunId[r] \in RunIds
  BY DEF RunIds
<1>3. ASSUME NEW r \in Runs, UNCHANGED manifests, pc'[r] # pc[r],
             \A q \in Runs : q # r => pc'[q] = pc[q], ~WriteManifest(r)
      PROVE  ManifestInvariant'
  <2>1. pc'[r] \notin {"completed", "failed"} /\ pc[r] \notin {"completed", "failed"}
    <3>1. Start(r) \/ Step(r) \/ Crash(r)
      BY <1>3, OneRunMoves
    <3>2. pc[r] \notin {"completed", "failed"}
      BY <3>1 DEF Start, Crash, Step, Stat, StatFails, Read, CheckArtifact, ReplaceArtifact,
         CheckManifest, RecheckManifest, LookForManifest, WriteManifest, AtWork, AtSource, AtManifest
    <3>3. pc'[r] \notin {"completed", "failed"}
      BY <1>3, <3>1 DEF Start, Crash, Step, Stat, StatFails, Read, CheckArtifact, ReplaceArtifact,
         CheckManifest, RecheckManifest, LookForManifest, SourceFails, Advance, Goto, TypeOK
    <3> QED
      BY <3>2, <3>3
  <2>2. pc'[r] = "write_manifest" => manifests[RunId[r]] = Absent
    <3>0. Start(r) \/ Step(r) \/ Crash(r)
      BY <1>3, OneRunMoves
    <3>1. pc'[r] = "write_manifest" => RecheckManifest(r)
      BY <1>3, <3>0 DEF Start, Crash, Step, Stat, StatFails, Read, CheckArtifact, ReplaceArtifact,
         CheckManifest, LookForManifest, SourceFails, Advance, Goto, TypeOK
    <3> QED
      BY <3>1 DEF RecheckManifest, LookForManifest, Goto, TypeOK
  <2>3. \A q \in Runs : pc'[q] = "write_manifest" => manifests'[RunId[q]] = Absent
    BY <1>3, <2>2
  <2>4. OwnIdentifiers => \A q \in Runs : pc'[q] \notin {"completed", "failed"}
                                            => manifests'[RunId[q]] = Absent
    BY <1>3, <2>1 DEF OwnIdentifiers
  <2>5. \A q \in Runs : pc'[q] \in {"completed", "failed"} =>
          /\ q # r /\ pc'[q] = pc[q]
          /\ listed'[q] = listed[q] /\ failures'[q] = failures[q]
    BY <1>3, <2>1, ManifestsAreWrittenOnce DEF AtWork, AtSource, AtManifest
  <2>6. ExitMeansManifest'
    BY <1>3, <2>5 DEF ExitMeansManifest, Manifest, ManifestStatus
  <2> QED
    BY <1>1, <2>3, <2>4, <2>6 DEF OwnIdentifiers
<1>4. ASSUME NEW r \in Runs, WriteManifest(r)
      PROVE  ManifestInvariant'
  <2>1. /\ manifests'[RunId[r]] = Manifest(r) /\ pc'[r] = ManifestStatus(r)
        /\ \A i \in RunIds : i # RunId[r] => manifests'[i] = manifests[i]
        /\ \A q \in Runs : q # r => pc'[q] = pc[q]
        /\ UNCHANGED <<listed, failures>>
    BY <1>2, <1>4 DEF WriteManifest, Goto, TypeOK
  <2>2. manifests[RunId[r]] = Absent /\ pc[r] = "write_manifest"
    BY <1>4 DEF WriteManifest
  <2>3. pc'[r] \in {"completed", "failed"}
    BY <2>1 DEF ManifestStatus
  <2>4. ASSUME NEW q \in Runs, pc[q] \in {"completed", "failed"}
        PROVE  RunId[q] # RunId[r]
    <3>1. manifests[RunId[q]] = Manifest(q) /\ Manifest(q) # Absent
      BY <2>4, ManifestsAreTyped DEF ExitMeansManifest
    <3> QED
      BY <2>2, <3>1
  <2>5. ASSUME NEW q \in Runs, q # r, pc[q] = "write_manifest"
        PROVE  RunId[q] # RunId[r]
    BY <2>2, <2>5 DEF ManifestsAreUnshared, OwnIdentifiers, AtWork, AtManifest
  <2>6. \A q \in Runs : pc'[q] = "write_manifest" => manifests'[RunId[q]] = Absent
    BY <1>2, <2>1, <2>3, <2>5
  <2>7. OwnIdentifiers => \A q \in Runs : pc'[q] \notin {"completed", "failed"}
                                            => manifests'[RunId[q]] = Absent
    BY <1>2, <2>1, <2>3 DEF OwnIdentifiers
  <2>8. ExitMeansManifest'
    <3>1. /\ Manifest(r)' = Manifest(r) /\ Manifest(r).status = ManifestStatus(r)
      BY <2>1 DEF Manifest, ManifestStatus
    <3>2. ASSUME NEW q \in Runs, q # r, pc'[q] \in {"completed", "failed"}
          PROVE  manifests'[RunId[q]] = Manifest(q)' /\ manifests'[RunId[q]].status = pc'[q]
      <4>1. RunId[q] # RunId[r] /\ pc'[q] = pc[q]
        BY <2>1, <2>4, <3>2
      <4>2. manifests'[RunId[q]] = manifests[RunId[q]]
        BY <1>2, <2>1, <4>1
      <4> QED
        BY <2>1, <3>2, <4>1, <4>2 DEF ExitMeansManifest, Manifest, ManifestStatus
    <3> QED
      BY <2>1, <3>1, <3>2 DEF ExitMeansManifest
  <2> QED
    BY <1>1, <2>6, <2>7, <2>8 DEF OwnIdentifiers
<1>5. CASE UNCHANGED pc /\ UNCHANGED manifests
  <2>1. \A q \in Runs : pc'[q] \in {"completed", "failed"} =>
          listed'[q] = listed[q] /\ failures'[q] = failures[q]
    BY <1>5, ManifestsAreWrittenOnce DEF AtWork, AtSource, AtManifest
  <2>2. ExitMeansManifest'
    BY <1>5, <2>1 DEF ExitMeansManifest, Manifest, ManifestStatus
  <2> QED
    BY <1>1, <1>5, <2>2 DEF OwnIdentifiers
<1>6. UNCHANGED pc \/ \E r \in Runs : pc'[r] # pc[r] /\ \A q \in Runs : q # r => pc'[q] = pc[q]
  <2>1. pc' \in [Runs -> {"unborn"} \cup AtWork \cup Exited] /\ DOMAIN pc = Runs /\ DOMAIN pc' = Runs
        /\ pc \in [Runs -> {"unborn"} \cup AtWork \cup Exited]
    BY DEF TypeOK
  <2>2. ASSUME NEW r \in Runs, \A q \in Runs : q # r => pc'[q] = pc[q], pc'[r] = pc[r]
        PROVE  UNCHANGED pc
    BY <2>1, <2>2
  <2> QED
    BY <2>2, OneRunMoves
<1> QED
  BY <1>3, <1>4, <1>5, <1>6, ManifestsAreWrittenOnce

LEMMA InitManifests == Init => ManifestInvariant
<1> SUFFICES ASSUME Init PROVE ManifestInvariant
  OBVIOUS
<1>1. \A r \in Runs : pc[r] = "unborn" /\ manifests[RunId[r]] = Absent
  BY DEF Init, RunIds
<1> QED
  BY <1>1 DEF ManifestInvariant, ExitMeansManifest, AtWork, AtSource, AtManifest

LEMMA ManifestInvariantHolds ==
  ASSUME ManifestsAreUnshared
  PROVE  Spec => [](TypeOK /\ ManifestInvariant)
<1>1. Init => TypeOK /\ ManifestInvariant
  BY InitTyped, InitManifests
<1>2. IngestionInvariant /\ IngestionInvariant' /\ ManifestInvariant /\ [Next]_vars
        => ManifestInvariant'
  BY ManifestInvariantKept DEF IngestionInvariant
<1>3. IngestionInvariant => TypeOK
  BY DEF IngestionInvariant
<1> QED
  BY <1>1, <1>2, <1>3, InvariantOfIngestion, PTL DEF Spec

\* An exit code that reports a manifest means that there is one, that it is the run's own
\* and that it says what the code says (cli/ingest.py 34-62, pipeline.py 89-127), as long
\* as runs follow one another or each has an identifier of its own.
THEOREM ExitsReportManifests ==
  ASSUME ManifestsAreUnshared
  PROVE  Spec => []ExitMeansManifest
BY ManifestInvariantHolds, PTL DEF ManifestInvariant

\* A manifest that was written is never replaced (manifest.py 73-108, ADR-010): the two looks
\* at the directory suffice when no other run may write under the same identifier in between.
THEOREM ManifestsAreWriteOnce ==
  ASSUME ManifestsAreUnshared
  PROVE  Spec => ManifestsAreImmutable
<1>1. Init => Manifests!Init
  BY DEF Init, Manifests!Init
<1>2. TypeOK /\ ManifestInvariant /\ [Next]_vars => [Manifests!Next]_manifests
  <2> SUFFICES ASSUME TypeOK, ManifestInvariant, NEW r \in Runs, WriteManifest(r)
               PROVE  Manifests!Next
    BY ManifestsAreWrittenOnce
  <2>1. manifests[RunId[r]] = Absent /\ RunId[r] \in RunIds
    BY DEF WriteManifest, ManifestInvariant, RunIds
  <2>2. /\ manifests'[RunId[r]] = Manifest(r)
        /\ \A i \in RunIds \ {RunId[r]} : manifests'[i] = manifests[i]
    BY <2>1 DEF WriteManifest, TypeOK
  <2> QED
    BY <2>1, <2>2, ManifestsAreTyped DEF Manifests!Next, Manifests!Write
<1> QED
  BY <1>1, <1>2, ManifestInvariantHolds, PTL DEF Spec, ManifestsAreImmutable, Manifests!Spec

-----------------------------------------------------------------------------
(* Artifacts: what a run that is about to store has seen.                   *)

\* Nobody else is at work, so that what a run found missing is missing still.
ArtifactInvariant ==
  /\ \A q, r \in Runs : pc[q] \in AtWork /\ pc[r] \in AtWork => q = r
  /\ \A r \in Runs : pc[r] = "replace" => artifacts[Id(document[r])] = Absent

\* Artifacts are written by ReplaceArtifact alone.
LEMMA ArtifactsAreWrittenByReplace ==
  ASSUME [Next]_vars
  PROVE  UNCHANGED artifacts \/ \E r \in Runs : ReplaceArtifact(r)
BY DEF Next, vars, disk, Edit, Start, Step, Crash, AllExited, Stat, StatFails, Read, CheckArtifact,
   CheckManifest, RecheckManifest, LookForManifest, WriteManifest, SourceFails

\* A run comes to its storing step from the check alone, and keeps its record there.
LEMMA RecordsStayWhileChecked ==
  ASSUME TypeOK, [Next]_vars, NEW r \in Runs, pc'[r] = "replace"
  PROVE  /\ document'[r] = document[r]
         /\ UNCHANGED <<pc, artifacts>> \/ pc[r] = "replace" \/ CheckArtifact(r)
<1>1. CASE UNCHANGED vars \/ \E s \in SourceSet : Edit(s)
  BY <1>1 DEF vars, disk, Edit
<1>2. ASSUME NEW q \in Runs, Start(q) \/ Step(q) \/ Crash(q), q # r
      PROVE  document'[r] = document[r] /\ pc[r] = "replace"
  <2>1. \E step : Goto(q, step)
    BY <1>2 DEF Start, Crash, Step, Stat, StatFails, Read, CheckArtifact, ReplaceArtifact,
       CheckManifest, RecheckManifest, LookForManifest, WriteManifest, SourceFails, Advance
  <2>2. UNCHANGED document \/ Stat(q) \/ Read(q)
    BY <1>2 DEF Start, Crash, Step, StatFails, CheckArtifact, ReplaceArtifact, CheckManifest,
       RecheckManifest, LookForManifest, WriteManifest, SourceFails, Advance
  <2>3. document'[r] = document[r]
    BY <1>2, <2>2 DEF Stat, Read, TypeOK
  <2> QED
    BY <1>2, <2>1, <2>3 DEF Goto, TypeOK
<1>3. CASE Start(r) \/ Step(r) \/ Crash(r)
  <2>1. CheckArtifact(r)
    BY <1>3 DEF Start, Crash, Step, Stat, StatFails, Read, ReplaceArtifact, CheckManifest,
       RecheckManifest, LookForManifest, WriteManifest, ManifestStatus, SourceFails, Advance,
       Goto, TypeOK
  <2> QED
    BY <2>1 DEF CheckArtifact
<1> QED
  BY <1>1, <1>2, <1>3 DEF Next, AllExited, vars

LEMMA ArtifactInvariantKept ==
  ASSUME TypeOK, ManifestInvariant, ArtifactInvariant, [Next]_vars,
         Overwriting = {}, ~Overlapping
  PROVE  ArtifactInvariant'
<1>1. \A q, r \in Runs : pc'[q] \in AtWork /\ pc'[r] \in AtWork => q = r
  BY OneAtWork
<1>2. ASSUME NEW r \in Runs, pc'[r] = "replace"
      PROVE  artifacts'[Id(document[r])] = Absent
  <2>1. CASE CheckArtifact(r)
    BY <1>2, <2>1 DEF CheckArtifact, disk, SourceFails, Advance, Goto, TypeOK
  <2>2. CASE UNCHANGED <<pc, artifacts>>
    BY <1>2, <2>2 DEF ArtifactInvariant
  <2>3. ASSUME pc[r] = "replace", ~UNCHANGED artifacts
        PROVE  FALSE
    <3>1. PICK q \in Runs : ReplaceArtifact(q)
      BY <2>3, ArtifactsAreWrittenByReplace
    <3>2. q = r
      BY <2>3, <3>1 DEF ArtifactInvariant, ReplaceArtifact, AtWork, AtSource
    <3> QED
      BY <1>2, <3>1, <3>2 DEF ReplaceArtifact, Advance, Goto, TypeOK
  <2> QED
    BY <1>2, <2>1, <2>2, <2>3, RecordsStayWhileChecked DEF ArtifactInvariant
<1> QED
  BY <1>1, <1>2, RecordsStayWhileChecked DEF ArtifactInvariant, Id

LEMMA ArtifactInvariantHolds ==
  ASSUME Overwriting = {}, ~Overlapping
  PROVE  Spec => []ArtifactInvariant
<1>1. Init => ArtifactInvariant
  BY DEF Init, ArtifactInvariant, AtWork, AtSource, AtManifest
<1>2. TypeOK /\ ManifestInvariant /\ ArtifactInvariant /\ [Next]_vars => ArtifactInvariant'
  BY ArtifactInvariantKept
<1>3. ManifestsAreUnshared
  BY DEF ManifestsAreUnshared
<1> QED
  BY <1>1, <1>2, <1>3, ManifestInvariantHolds, PTL DEF Spec

\* A processed artifact is immutable (artifacts.py 28-64, ADR-009): without
\* --overwrite-artifacts and one run at a time, what is stored under a document's identifier
\* stays, whatever the user saves and wherever a run dies.
THEOREM ArtifactsAreWriteOnce ==
  ASSUME Overwriting = {}, ~Overlapping
  PROVE  Spec => ArtifactsAreImmutable
<1>1. Init => Artifacts!Init
  BY DEF Init, Artifacts!Init
<1>2. IngestionInvariant /\ ArtifactInvariant /\ [Next]_vars => [Artifacts!Next]_artifacts
  <2> SUFFICES ASSUME TypeOK, \A r \in Runs : AccountsForSources(r), ArtifactInvariant,
                      NEW r \in Runs, ReplaceArtifact(r)
               PROVE  Artifacts!Next
    BY ArtifactsAreWrittenByReplace DEF IngestionInvariant
  <2>1. document[r] \in Document /\ artifacts[Id(document[r])] = Absent
    BY DEF ReplaceArtifact, AccountsForSources, ArtifactInvariant
  <2>2. document[r] # Absent /\ Id(document[r]) \in DocumentIds
    BY <2>1, DocumentsAreThere
  <2>3. /\ artifacts'[Id(document[r])] = document[r]
        /\ \A id \in DocumentIds \ {Id(document[r])} : artifacts'[id] = artifacts[id]
    BY <2>2 DEF ReplaceArtifact, TypeOK
  <2> QED
    BY <2>1, <2>2, <2>3 DEF Artifacts!Next, Artifacts!Write
<1> QED
  BY <1>1, <1>2, InvariantOfIngestion, ArtifactInvariantHolds, PTL
     DEF Spec, ArtifactsAreImmutable, Artifacts!Spec

-----------------------------------------------------------------------------
(* Conflicts: what a run has stored is there again as it would store it.    *)

\* As long as a file was not edited, every record made of it bears its first time of
\* modification; so the one a run makes is the one an earlier run has stored.
EditInvariant ==
  /\ \A id \in DocumentIds : artifacts[id] # Absent => Id(artifacts[id]) = id
  /\ \A s \in SourceSet : file[s].mtime = 0 =>
       /\ \A id \in DocumentIds : artifacts[id] # Absent /\ id[1] = s => artifacts[id].mtime = 0
       /\ \A r \in Runs : pc[r] \in {"read", "check", "replace"} /\ document[r].source = s
                            => document[r].mtime = 0
       /\ \A r \in Runs : <<s, "conflict">> \notin failures[r]

\* Two documents of one identifier and one time of modification are the same.
LEMMA SameRecord ==
  ASSUME NEW d \in Document, NEW e \in Document, Id(d) = Id(e), d.mtime = e.mtime
  PROVE  d = e
BY DEF Document, Id

LEMMA EditsKeep ==
  ASSUME TypeOK, EditInvariant, NEW s \in SourceSet, Edit(s)
  PROVE  EditInvariant'
<1>1. \A t \in SourceSet : file'[t].mtime = 0 => file[t].mtime = 0
  BY DEF Edit, TypeOK
<1> QED
  BY <1>1 DEF EditInvariant, Edit, disk, Id

\* A run that neither stores, fails nor starts a record keeps the records that are made.
LEMMA PlainStepsKeep ==
  ASSUME TypeOK, EditInvariant, UNCHANGED <<file, artifacts, document, failures>>,
         \A r \in Runs : pc'[r] \in {"read", "check", "replace"}
                           => pc[r] \in {"read", "check", "replace"}
  PROVE  EditInvariant'
BY DEF EditInvariant, Id

\* While the file is as it was, the record of a run bears the time of modification the
\* file had from the start.
LEMMA StatKeeps ==
  ASSUME TypeOK, EditInvariant, NEW r \in Runs, Stat(r)
  PROVE  EditInvariant'
<1>1. /\ document'[r].mtime = file[Sources[at[r]]].mtime
      /\ document'[r].source = Sources[at[r]]
      /\ \A q \in Runs : q # r => document'[q] = document[q] /\ pc'[q] = pc[q]
      /\ UNCHANGED <<file, artifacts, failures>>
  BY DEF Stat, TypeOK, Goto, disk
<1> QED
  BY <1>1 DEF EditInvariant, Id

\* A conflict that was not there is the one the run records.
LEMMA NewConflict ==
  ASSUME TypeOK, NEW r \in Runs, NEW cause, SourceFails(r, cause),
         NEW q \in Runs, NEW s \in SourceSet,
         <<s, "conflict">> \in failures'[q], <<s, "conflict">> \notin failures[q]
  PROVE  cause = "conflict" /\ s = Sources[at[r]]
<1>1. failures' = [failures EXCEPT ![r] = failures[r] \cup {<<Sources[at[r]], cause>>}]
  BY DEF SourceFails
<1>2. failures \in [Runs -> SUBSET (SourceSet \X {Unreadable, "duplicate", "conflict"})]
  BY DEF TypeOK
<1>3. q = r
  BY <1>1, <1>2
<1>4. <<s, "conflict">> = <<Sources[at[r]], cause>>
  BY <1>1, <1>2, <1>3
<1> QED
  BY <1>4

\* A source that cannot be read is recorded as that.
LEMMA StatFailsKeeps ==
  ASSUME TypeOK, EditInvariant, NEW r \in Runs, StatFails(r)
  PROVE  EditInvariant'
<1>1. UNCHANGED <<file, artifacts, document>>
  BY DEF StatFails, SourceFails
<1>2. \A q \in Runs : pc'[q] \in {"read", "check", "replace"}
                        => pc[q] \in {"read", "check", "replace"}
  BY DEF StatFails, SourceFails, Advance, Goto, TypeOK
<1>3. \A q \in Runs, s \in SourceSet : <<s, "conflict">> \in failures'[q]
                                         => <<s, "conflict">> \in failures[q]
  BY NewConflict DEF StatFails, Unreadable
<1> QED
  BY <1>1, <1>2, <1>3 DEF EditInvariant, Id

LEMMA ReadKeeps ==
  ASSUME TypeOK, EditInvariant, NEW r \in Runs, Read(r), document[r].source = Sources[at[r]],
         Sources[at[r]] \in SourceSet
  PROVE  EditInvariant'
<1>1. UNCHANGED <<file, artifacts>>
  BY DEF Read, SourceFails
<1>2. \A q \in Runs : /\ document'[q].mtime = document[q].mtime
                      /\ document'[q].source = document[q].source
  <2>1. CASE UNCHANGED document
    BY <2>1
  <2>2. CASE document' = [document EXCEPT ![r] =
               [source |-> Sources[at[r]], text |-> file[Sources[at[r]]].text, mtime |-> @.mtime]]
    BY <2>2 DEF TypeOK
  <2> QED
    BY <2>1, <2>2 DEF Read
<1>3. \A q \in Runs : pc'[q] \in {"read", "check", "replace"}
                        => pc[q] \in {"read", "check", "replace"}
  BY DEF Read, SourceFails, Advance, Goto, TypeOK
<1>4. \A q \in Runs, s \in SourceSet : <<s, "conflict">> \in failures'[q]
                                         => <<s, "conflict">> \in failures[q]
  <2> SUFFICES ASSUME NEW q \in Runs, NEW s \in SourceSet, <<s, "conflict">> \in failures'[q],
                      <<s, "conflict">> \notin failures[q]
               PROVE  FALSE
    OBVIOUS
  <2>1. SourceFails(r, Unreadable)
    BY DEF Read
  <2>2. "conflict" = Unreadable
    BY <2>1, NewConflict
  <2> QED
    BY <2>2 DEF Unreadable
<1> QED
  BY <1>1, <1>2, <1>3, <1>4 DEF EditInvariant, Id

\* A run finds another record under its document's identifier only when the file was
\* edited since the one or the other was made.
LEMMA CheckKeeps ==
  ASSUME TypeOK, EditInvariant, NEW r \in Runs, CheckArtifact(r), AccountsForSources(r)
  PROVE  EditInvariant'
<1>1. UNCHANGED <<file, artifacts, document>>
  BY DEF CheckArtifact, disk
<1>2. \A q \in Runs : pc'[q] \in {"read", "check", "replace"}
                        => pc[q] \in {"read", "check", "replace"}
  BY DEF CheckArtifact, SourceFails, Advance, Goto, TypeOK
<1>3. document[r] \in Document /\ document[r].source = Sources[at[r]]
  BY DEF CheckArtifact, AccountsForSources
<1>4. ASSUME artifacts[Id(document[r])] # Absent, ~SameArtifact(r)
      PROVE  file[Sources[at[r]]].mtime # 0
  <2> DEFINE id == Id(document[r])
  <2>1. /\ id \in DocumentIds /\ id[1] = Sources[at[r]]
        /\ Sources[at[r]] \in SourceSet
    BY <1>3, DocumentsAreThere DEF Document
  <2>2. artifacts[id] \in Document /\ Id(artifacts[id]) = id
    BY <1>4, <2>1 DEF EditInvariant, TypeOK
  <2>3. artifacts[id] # document[r]
    BY <1>4 DEF SameArtifact
  <2>4. artifacts[id].mtime # document[r].mtime
    BY <1>3, <2>2, <2>3, SameRecord
  <2>5. pc[r] = "check"
    BY DEF CheckArtifact
  <2>6. artifacts[id] # Absent
    BY <1>4
  <2> HIDE DEF id
  <2> QED
    BY <1>3, <2>1, <2>4, <2>5, <2>6 DEF EditInvariant
<1>5. ASSUME NEW q \in Runs, NEW s \in SourceSet, <<s, "conflict">> \in failures'[q],
             <<s, "conflict">> \notin failures[q]
      PROVE  file[s].mtime # 0
  <2>1. SourceFails(r, "conflict") /\ artifacts[Id(document[r])] # Absent /\ ~SameArtifact(r)
    <3>1. ~UNCHANGED failures
      BY <1>5
    <3>2. \/ SourceFails(r, "duplicate")
          \/ SourceFails(r, "conflict") /\ artifacts[Id(document[r])] # Absent /\ ~SameArtifact(r)
      BY <3>1 DEF CheckArtifact
    <3>3. ~SourceFails(r, "duplicate")
      BY <1>5, NewConflict
    <3> QED
      BY <3>2, <3>3
  <2>2. s = Sources[at[r]]
    BY <1>5, <2>1, NewConflict
  <2> QED
    BY <1>4, <2>1, <2>2
<1> QED
  BY <1>1, <1>2, <1>5 DEF EditInvariant, Id

LEMMA ReplaceKeeps ==
  ASSUME TypeOK, EditInvariant, NEW r \in Runs, ReplaceArtifact(r), AccountsForSources(r)
  PROVE  EditInvariant'
<1> DEFINE id == Id(document[r])
<1>1. document[r] \in Document /\ pc[r] = "replace"
  BY DEF ReplaceArtifact, AccountsForSources
<1>2. id \in DocumentIds /\ id[1] = document[r].source
  BY <1>1, DocumentsAreThere
<1>3. artifacts'[id] = document[r] /\ \A i \in DocumentIds : i # id => artifacts'[i] = artifacts[i]
  BY <1>2 DEF ReplaceArtifact, TypeOK
<1>4. /\ UNCHANGED <<file, document, failures>>
      /\ \A q \in Runs : pc'[q] \in {"read", "check", "replace"}
                           => pc[q] \in {"read", "check", "replace"}
  BY DEF ReplaceArtifact, Advance, Goto, TypeOK
<1>5. \A i \in DocumentIds : artifacts'[i] # Absent => Id(artifacts'[i]) = i
  BY <1>3 DEF EditInvariant
<1>6. ASSUME NEW s \in SourceSet, file'[s].mtime = 0, NEW i \in DocumentIds,
             artifacts'[i] # Absent, i[1] = s
      PROVE  artifacts'[i].mtime = 0
  <2>1. CASE i = id
    <3>1. document[r].source = s /\ file[s].mtime = 0
      BY <1>2, <1>4, <1>6, <2>1
    <3>2. document[r].mtime = 0
      BY <1>1, <3>1 DEF EditInvariant
    <3> QED
      BY <1>3, <2>1, <3>2
  <2>2. CASE i # id
    BY <1>3, <1>4, <1>6, <2>2 DEF EditInvariant
  <2> QED
    BY <2>1, <2>2
<1> QED
  BY <1>4, <1>5, <1>6 DEF EditInvariant, Id

LEMMA EditInvariantKept ==
  ASSUME IngestionInvariant, EditInvariant, [Next]_vars
  PROVE  EditInvariant'
<1> USE DEF IngestionInvariant
<1>1. ASSUME NEW r \in Runs, Read(r) PROVE EditInvariant'
  <2>1. document[r].source = Sources[at[r]] /\ at[r] \in 1..Len(Sources)
    BY <1>1, SourcesArePositions DEF Read, AccountsForSources, AtSource, TypeOK
  <2> QED
    BY <1>1, <2>1, ReadKeeps, SourcesArePositions
<1>2. ASSUME NEW r \in Runs, \/ Start(r) \/ Crash(r) \/ CheckManifest(r) \/ RecheckManifest(r)
                             \/ WriteManifest(r)
      PROVE  EditInvariant'
  BY <1>2, PlainStepsKeep DEF Start, Crash, CheckManifest, RecheckManifest, WriteManifest,
     LookForManifest, ManifestStatus, Goto, TypeOK, disk
<1>3. CASE UNCHANGED vars
  BY <1>3, PlainStepsKeep DEF vars, disk
<1> QED
  BY <1>1, <1>2, <1>3, EditsKeep, StatKeeps, StatFailsKeeps, CheckKeeps, ReplaceKeeps
  DEF Next, Step, AllExited

\* A source fails for a conflict only after the user saved it (artifacts.py 28-64): whatever
\* crashed, overlapped or was stored by another run before, a file that nobody touched is
\* found again as it was stored, and can be ingested again.
THEOREM ConflictsAreOfEditedFiles == Spec => []ConflictsComeFromEdits
<1>1. Init => EditInvariant
  BY DEF Init, EditInvariant
<1>2. IngestionInvariant /\ EditInvariant /\ [Next]_vars => EditInvariant'
  BY EditInvariantKept
<1>3. IngestionInvariant /\ EditInvariant => ConflictsComeFromEdits
  BY DEF IngestionInvariant, TypeOK, EditInvariant, ConflictsComeFromEdits
<1> QED
  BY <1>1, <1>2, <1>3, InvariantOfIngestion, PTL DEF Spec

=============================================================================
