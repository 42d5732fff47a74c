------------------------- MODULE DocumentIndex_proofs -------------------------
(***************************************************************************)
(* The indexes and their searches, for any number of indexers, searchers,   *)
(* documents and chunks, any size of batch and any limits: a completed run  *)
(* of evidenceops-index leaves nothing out, a run that repeats another is   *)
(* not refused, a corpus has no chunk twice, what a search finds can be     *)
(* cited, and the merged ranking agrees with its routes.                    *)
(***************************************************************************)
EXTENDS DocumentIndex, FiniteSetTheorems, SequenceTheorems, WellFoundedInduction, TLAPS

Fields == {"pc", "build", "paths", "corpus", "at", "began", "known", "exit"}
IsRun(run) ==
  /\ DOMAIN run = Fields
  /\ run.paths \in Seq(Documents) /\ run.corpus \in Seq(Nat) /\ run.at \in Nat

Covered(corpus) == {DocumentOf(c) : c \in ToSet(corpus)}

\* What a run has read and made points of so far, when the artifacts of `stored' are on disk.
RunKeeps(run, stored, made) ==
  /\ run.known \subseteq stored
  /\ run.pc = "read" =>
       /\ run.paths # <<>> /\ ToSet(run.paths) \subseteq stored
       /\ run.known \subseteq Covered(run.corpus) \cup ToSet(run.paths)
  /\ run.pc \in {"check", "replace"} => "sparse" \in run.build
  /\ run.pc \in {"check", "replace", "batch", "create", "upsert"} =>
       run.known \subseteq Covered(run.corpus)
  /\ run.pc \in {"batch", "create", "upsert"} =>
       \A n \in 1..Len(run.corpus) : n <= run.at => run.corpus[n] \in made

\* That a run completed well depends on all that it did since it listed the artifacts.
IndexInv ==
  /\ DOMAIN artifacts \subseteq Documents /\ IsFiniteSet(DOMAIN artifacts)
  /\ \A d \in DOMAIN artifacts : artifacts[d] \in Chunkings
  /\ writes \in Nat
  /\ DOMAIN indexer = Indexers
  /\ \A i \in Indexers : IsRun(indexer[i]) /\ RunKeeps(indexer[i], DOMAIN artifacts, points)

\* What a run that completes has done.
WellDone(run, made) ==
  /\ run.known \subseteq Covered(run.corpus)
  /\ run.build = {"dense"} => ToSet(run.corpus) \subseteq made

CompletionsAreIndexed ==
  \A i \in Indexers :
    indexer[i].pc # "exited" /\ indexer'[i].exit = "completed" /\ indexer'[i].pc = "exited" =>
      WellDone(indexer[i], points')

(***************************************************************************)
(* Documents and chunks                                                     *)
(***************************************************************************)

\* A chunk tells its document.
LEMMA ChunksTellDocuments ==
  ASSUME NEW d \in Documents, NEW v \in Chunkings, NEW c \in ToSet(ChunksOf[d][v])
  PROVE  DocumentOf(c) = d
<1>1. \A e \in Documents : (\E w \in Chunkings : c \in ToSet(ChunksOf[e][w])) => e = d
  BY DocumentIndexAssumption
<1>2. \E e \in Documents : \E w \in Chunkings : c \in ToSet(ChunksOf[e][w])
  OBVIOUS
<1>3. QED
  BY <1>1, <1>2 DEF DocumentOf

\* Reading an artifact covers its document.
LEMMA ReadingCovers ==
  ASSUME NEW corpus \in Seq(Nat), NEW d \in Documents, NEW v \in Chunkings
  PROVE  /\ corpus \o ChunksOf[d][v] \in Seq(Nat)
         /\ Covered(corpus \o ChunksOf[d][v]) = Covered(corpus) \cup {d}
<1> DEFINE chunks == ChunksOf[d][v]
           all == corpus \o chunks
<1>1. chunks \in Seq(Nat) /\ chunks # <<>>
  <2>1. chunks \in Seq(Nat \ {Missing}) /\ chunks # <<>>
    BY DocumentIndexAssumption
  <2>2. QED
    BY <2>1
<1>2. \A c \in ToSet(chunks) : DocumentOf(c) = d
  BY ChunksTellDocuments
<1> HIDE DEF chunks
<1>3. \E c : c \in ToSet(chunks)
  <2>1. 1 \in DOMAIN chunks
    BY <1>1, EmptySeq, LenProperties
  <2>2. QED
    BY <2>1 DEF ToSet
<1>4. /\ all \in Seq(Nat) /\ Len(all) = Len(corpus) + Len(chunks)
      /\ \A n \in 1..Len(all) :
           all[n] = IF n <= Len(corpus) THEN corpus[n] ELSE chunks[n - Len(corpus)]
  BY <1>1, ConcatProperties
<1> HIDE DEF all
<1>5. ToSet(all) = ToSet(corpus) \cup ToSet(chunks)
  <2>1. DOMAIN all = 1..Len(all) /\ DOMAIN corpus = 1..Len(corpus) /\ DOMAIN chunks = 1..Len(chunks)
        /\ Len(corpus) \in Nat /\ Len(chunks) \in Nat
    BY <1>1, <1>4, LenProperties
  <2>2. ASSUME NEW n \in 1..Len(all)
        PROVE  all[n] \in ToSet(corpus) \cup ToSet(chunks)
    <3>1. CASE n <= Len(corpus)
      <4>1. n \in DOMAIN corpus /\ all[n] = corpus[n]
        BY <1>4, <2>1, <3>1
      <4>2. QED
        BY <4>1 DEF ToSet
    <3>2. CASE ~(n <= Len(corpus))
      <4>1. n - Len(corpus) \in DOMAIN chunks /\ all[n] = chunks[n - Len(corpus)]
        BY <1>4, <2>1, <3>2
      <4>2. QED
        BY <4>1 DEF ToSet
    <3>3. QED
      BY <3>1, <3>2
  <2>3. ASSUME NEW n \in 1..Len(corpus)
        PROVE  corpus[n] \in ToSet(all)
    <3>1. n \in DOMAIN all /\ all[n] = corpus[n]
      BY <1>4, <2>1
    <3>2. QED
      BY <3>1 DEF ToSet
  <2>4. ASSUME NEW n \in 1..Len(chunks)
        PROVE  chunks[n] \in ToSet(all)
    <3> DEFINE m == Len(corpus) + n
    <3>0. m \in 1..Len(all) /\ ~(m <= Len(corpus)) /\ m - Len(corpus) = n
      BY <1>4, <2>1
    <3> HIDE DEF m
    <3>1. m \in 1..Len(all) /\ all[m] = chunks[n]
      BY <1>4, <3>0
    <3>2. QED
      BY <2>1, <3>1 DEF ToSet
  <2>5. ToSet(all) = {all[n] : n \in 1..Len(all)} /\ ToSet(corpus) = {corpus[n] : n \in 1..Len(corpus)}
        /\ ToSet(chunks) = {chunks[n] : n \in 1..Len(chunks)}
    BY <2>1 DEF ToSet
  <2>6. QED
    BY <2>2, <2>3, <2>4, <2>5
<1>6. QED
  BY <1>2, <1>3, <1>4, <1>5 DEF Covered, all, chunks

\* A listing has every artifact.
LEMMA PathsListAll ==
  ASSUME NEW documents \in SUBSET Documents, IsFiniteSet(documents), documents # {},
         NEW paths \in Paths(documents)
  PROVE  paths \in Seq(Documents) /\ paths # <<>> /\ ToSet(paths) = documents
<1> DEFINE n == Cardinality(documents)
<1>1. n \in Nat /\ n # 0
  BY FS_CardinalityType, FS_EmptySet
<1>2. paths \in [1..n -> documents] /\ \A i, j \in 1..n : i # j => paths[i] # paths[j]
  BY DEF Paths, SetToSeqs
<1>3. IsFiniteSet(1..n) /\ Cardinality(1..n) = n
  BY <1>1, FS_Interval
<1> HIDE DEF n
<1>4. \A d \in documents : \E i \in 1..n : paths[i] = d
  <2>1. paths \in Injection(1..n, documents)
    BY <1>2 DEF Injection, IsInjective
  <2>2. Cardinality(1..n) = Cardinality(documents)
    BY <1>3 DEF n
  <2>3. paths \in Surjection(1..n, documents)
    BY <2>1, <2>2, FS_Injection
  <2>4. QED
    BY <2>3 DEF Surjection
<1>5. paths \in Seq(Documents) /\ Len(paths) = n
  BY <1>1, <1>2
<1>6. QED
  BY <1>1, <1>2, <1>4, <1>5 DEF ToSet

(***************************************************************************)
(* Steps of a run                                                           *)
(***************************************************************************)

\* More artifacts and more points do no harm.
LEMMA RunKeepsMore ==
  ASSUME NEW run, NEW stored, NEW made, NEW more, NEW points_more,
         RunKeeps(run, stored, made), stored \subseteq more, made \subseteq points_more
  PROVE  RunKeeps(run, more, points_more)
  BY DEF RunKeeps

\* A run that goes on to hold `run'.
LEMMA RunGoesOn ==
  ASSUME IndexInv, NEW i \in Indexers, NEW run, IsRun(run), BecomesIndexer(i, run),
         UNCHANGED disk, points \subseteq points',
         RunKeeps(run, DOMAIN artifacts, points'),
         run.pc = "exited" /\ run.exit = "completed" => WellDone(indexer[i], points')
  PROVE  IndexInv' /\ CompletionsAreIndexed
<1>1. /\ DOMAIN indexer' = Indexers
      /\ indexer'[i] = run
      /\ \A j \in Indexers : j # i => indexer'[j] = indexer[j]
  BY DEF BecomesIndexer, IndexInv
<1>2. UNCHANGED <<artifacts, writes>>
  BY DEF disk
<1>3. ASSUME NEW j \in Indexers
      PROVE  IsRun(indexer'[j]) /\ RunKeeps(indexer'[j], DOMAIN artifacts', points')
  <2>1. CASE j = i
    BY <1>1, <1>2, <2>1
  <2>2. CASE j # i
    BY <1>1, <1>2, <2>2, RunKeepsMore DEF IndexInv
  <2>3. QED
    BY <2>1, <2>2
<1>4. IndexInv'
  BY <1>1, <1>2, <1>3 DEF IndexInv
<1>5. CompletionsAreIndexed
  BY <1>1 DEF CompletionsAreIndexed
<1>6. QED
  BY <1>4, <1>5

\* A run that exits holds nothing.
LEMMA RunExits ==
  ASSUME IndexInv, NEW i \in Indexers, NEW how, Exits(i, how),
         UNCHANGED disk, points \subseteq points',
         how = "completed" => WellDone(indexer[i], points')
  PROVE  IndexInv' /\ CompletionsAreIndexed
<1> DEFINE run == [NoIndexer EXCEPT !.pc = "exited", !.exit = how]
<1>2. IsRun(run) /\ run.pc = "exited" /\ run.known = {} /\ run.exit = how
  BY DEF IsRun, Fields, NoIndexer
<1>3. BecomesIndexer(i, run)
  BY DEF Exits
<1> HIDE DEF run
<1>4. RunKeeps(run, DOMAIN artifacts, points')
  BY <1>2 DEF RunKeeps
<1>5. QED
  BY <1>2, <1>3, <1>4, RunGoesOn

LEMMA StartIndexingKeeps ==
  ASSUME IndexInv, NEW i \in Indexers, StartIndexing(i)
  PROVE  IndexInv' /\ CompletionsAreIndexed
<1>1. PICK build \in {{"sparse"}, {"dense"}, {"sparse", "dense"}} :
        BecomesIndexer(i, [NoIndexer EXCEPT !.pc = "list", !.build = build, !.began = writes,
                                            !.known = DOMAIN artifacts])
  BY DEF StartIndexing
<1>2. UNCHANGED <<disk, points>>
  BY DEF StartIndexing, qdrant
<1> DEFINE run == [NoIndexer EXCEPT !.pc = "list", !.build = build, !.began = writes,
                                    !.known = DOMAIN artifacts]
<1>4. IsRun(run) /\ run.pc = "list" /\ run.known = DOMAIN artifacts
  BY DEF IsRun, Fields, NoIndexer
<1> HIDE DEF run
<1>5. RunKeeps(run, DOMAIN artifacts, points')
  BY <1>4 DEF RunKeeps
<1>6. QED
  BY <1>1, <1>2, <1>4, <1>5, RunGoesOn DEF run

LEMMA ListArtifactsKeeps ==
  ASSUME IndexInv, NEW i \in Indexers, ListArtifacts(i)
  PROVE  IndexInv' /\ CompletionsAreIndexed
<1>1. UNCHANGED <<disk, points>>
  BY DEF ListArtifacts, qdrant
<1>2. CASE DOMAIN artifacts = {}
  <2>1. Exits(i, "no_artifacts")
    BY <1>2 DEF ListArtifacts
  <2>2. QED
    BY <1>1, <2>1, RunExits
<1>3. CASE DOMAIN artifacts # {}
  <2>1. PICK paths \in Paths(DOMAIN artifacts) : BecomesIndexer(i, Reading(indexer[i], paths))
    BY <1>3 DEF ListArtifacts
  <2>2. paths \in Seq(Documents) /\ paths # <<>> /\ ToSet(paths) = DOMAIN artifacts
    BY <1>3, PathsListAll DEF IndexInv
  <2>3. IsRun(indexer[i]) /\ indexer[i].known \subseteq DOMAIN artifacts
    BY DEF IndexInv, RunKeeps
  <2> DEFINE run == Reading(indexer[i], paths)
  <2>4. IsRun(run) /\ run.pc = "read" /\ run.paths = paths /\ run.known = indexer[i].known
    BY <2>2, <2>3 DEF IsRun, Fields, Reading
  <2> HIDE DEF run
  <2>5. RunKeeps(run, DOMAIN artifacts, points')
    BY <2>2, <2>3, <2>4 DEF RunKeeps
  <2>6. QED
    BY <1>1, <2>1, <2>4, <2>5, RunGoesOn DEF run
<1>4. QED
  BY <1>2, <1>3

LEMMA ReadArtifactKeeps ==
  ASSUME IndexInv, NEW i \in Indexers, ReadArtifact(i)
  PROVE  IndexInv' /\ CompletionsAreIndexed
<1> DEFINE held == indexer[i]
           d == Head(held.paths)
           rest == Tail(held.paths)
           chunks == ChunksOf[d][artifacts[d]]
           run == [held EXCEPT !.corpus = @ \o chunks, !.paths = rest, !.at = 0,
                               !.pc = IF rest # <<>> THEN "read"
                                      ELSE IF "sparse" \in held.build THEN "check" ELSE "batch"]
<1>1. /\ UNCHANGED <<disk, points>> /\ BecomesIndexer(i, run) /\ held.pc = "read"
  BY DEF ReadArtifact, Indexing, qdrant
<1>2. IsRun(held) /\ RunKeeps(held, DOMAIN artifacts, points)
  BY DEF IndexInv
<1>3. /\ held.paths \in Seq(Documents) /\ held.paths # <<>> /\ ToSet(held.paths) \subseteq DOMAIN artifacts
      /\ held.known \subseteq Covered(held.corpus) \cup ToSet(held.paths)
      /\ held.known \subseteq DOMAIN artifacts /\ held.corpus \in Seq(Nat)
  BY <1>1, <1>2 DEF RunKeeps, IsRun
<1>4. /\ rest \in Seq(Documents)
      /\ d \in ToSet(held.paths)
      /\ ToSet(held.paths) = {d} \cup ToSet(rest)
  <2> DEFINE paths == held.paths
  <2>1. paths \in Seq(Documents) /\ paths # <<>>
    BY <1>3
  <2> HIDE DEF paths
  <2>2. /\ Len(paths) \in Nat /\ Len(paths) # 0 /\ DOMAIN paths = 1..Len(paths)
    BY <2>1, EmptySeq, LenProperties
  <2>3. /\ Head(paths) = paths[1]
        /\ Tail(paths) \in Seq(Documents) /\ Len(Tail(paths)) = Len(paths) - 1
        /\ \A n \in 1..Len(Tail(paths)) : Tail(paths)[n] = paths[n + 1]
    BY <2>1, HeadTailProperties
  <2>4. DOMAIN Tail(paths) = 1..(Len(paths) - 1)
    BY <2>3, LenProperties
  <2>5. Head(paths) \in ToSet(paths)
    BY <2>2, <2>3 DEF ToSet
  <2>6. ToSet(Tail(paths)) \subseteq ToSet(paths)
    BY <2>2, <2>3, <2>4 DEF ToSet
  <2>7. ASSUME NEW n \in 1..Len(paths)
        PROVE  paths[n] \in {Head(paths)} \cup ToSet(Tail(paths))
    <3>1. CASE n = 1
      BY <2>3, <3>1
    <3>2. CASE n # 1
      <4>1. n - 1 \in DOMAIN Tail(paths) /\ Tail(paths)[n - 1] = paths[n]
        BY <2>2, <2>3, <2>4, <3>2
      <4>2. QED
        BY <4>1 DEF ToSet
    <3>3. QED
      BY <3>1, <3>2
  <2>8. ToSet(paths) \subseteq {Head(paths)} \cup ToSet(Tail(paths))
    BY <2>2, <2>7 DEF ToSet
  <2>9. QED
    BY <2>3, <2>5, <2>6, <2>8 DEF paths
<1>5. d \in Documents /\ artifacts[d] \in Chunkings
  BY <1>3, <1>4 DEF IndexInv
<1>6. /\ held.corpus \o chunks \in Seq(Nat)
      /\ Covered(held.corpus \o chunks) = Covered(held.corpus) \cup {d}
  BY <1>3, <1>5, ReadingCovers
<1> HIDE DEF chunks, rest, d
<1>7. /\ IsRun(run) /\ run.corpus = held.corpus \o chunks /\ run.paths = rest /\ run.at = 0
      /\ run.known = held.known /\ run.build = held.build
      /\ run.pc = IF rest # <<>> THEN "read"
                  ELSE IF "sparse" \in held.build THEN "check" ELSE "batch"
  BY <1>2, <1>4, <1>6 DEF IsRun, Fields
<1> HIDE DEF run, held
<1>8. rest = <<>> => ToSet(rest) = {}
  BY DEF ToSet
<1>9. run.known \subseteq Covered(run.corpus) \cup ToSet(rest)
  BY <1>3, <1>4, <1>6, <1>7
<1>10. RunKeeps(run, DOMAIN artifacts, points')
  BY <1>3, <1>4, <1>7, <1>8, <1>9 DEF RunKeeps
<1>11. QED
  BY <1>1, <1>7, <1>10, RunGoesOn

\* The sparse part is over: either the run is, or it lists the artifacts again.
LEMMA SparseDoneKeeps ==
  ASSUME IndexInv, NEW i \in Indexers, indexer[i].pc \in {"check", "replace"}, SparseDone(i),
         UNCHANGED <<disk, points>>
  PROVE  IndexInv' /\ CompletionsAreIndexed
<1>1. /\ IsRun(indexer[i]) /\ RunKeeps(indexer[i], DOMAIN artifacts, points)
  BY DEF IndexInv
<1>2. CASE "dense" \in indexer[i].build
  <2> DEFINE run == [indexer[i] EXCEPT !.pc = "list", !.build = {"dense"}]
  <2>1. BecomesIndexer(i, run)
    BY <1>2 DEF SparseDone
  <2>2. IsRun(run) /\ run.pc = "list" /\ run.known = indexer[i].known
    BY <1>1 DEF IsRun, Fields
  <2> HIDE DEF run
  <2>3. RunKeeps(run, DOMAIN artifacts, points')
    BY <1>1, <2>2 DEF RunKeeps
  <2>4. QED
    BY <2>1, <2>2, <2>3, RunGoesOn
<1>3. CASE "dense" \notin indexer[i].build
  <2>1. Exits(i, "completed")
    BY <1>3 DEF SparseDone
  <2>2. indexer[i].known \subseteq Covered(indexer[i].corpus)
    BY <1>1 DEF RunKeeps
  <2>3. WellDone(indexer[i], points')
    BY <1>3, <2>2 DEF WellDone
  <2>4. QED
    BY <2>1, <2>3, RunExits
<1>4. QED
  BY <1>2, <1>3

LEMMA CheckSnapshotKeeps ==
  ASSUME IndexInv, NEW i \in Indexers, CheckSnapshot(i)
  PROVE  IndexInv' /\ CompletionsAreIndexed
<1>1. UNCHANGED <<disk, points>> /\ indexer[i].pc = "check"
  BY DEF CheckSnapshot, Indexing, qdrant
<1>2. \/ BecomesIndexer(i, [indexer[i] EXCEPT !.pc = "replace"])
      \/ SparseDone(i)
      \/ Exits(i, "already_exists")
  BY DEF CheckSnapshot
<1>3. CASE BecomesIndexer(i, [indexer[i] EXCEPT !.pc = "replace"])
  <2> DEFINE run == [indexer[i] EXCEPT !.pc = "replace"]
  <2>1. IsRun(indexer[i]) /\ RunKeeps(indexer[i], DOMAIN artifacts, points)
    BY DEF IndexInv
  <2>2. /\ IsRun(run) /\ run.pc = "replace" /\ run.known = indexer[i].known
        /\ run.build = indexer[i].build /\ run.corpus = indexer[i].corpus
    BY <2>1 DEF IsRun, Fields
  <2> HIDE DEF run
  <2>3. RunKeeps(run, DOMAIN artifacts, points')
    BY <1>1, <2>1, <2>2 DEF RunKeeps
  <2>4. QED
    BY <1>1, <1>3, <2>2, <2>3, RunGoesOn DEF run
<1>4. QED
  BY <1>1, <1>2, <1>3, SparseDoneKeeps, RunExits

LEMMA EmbedBatchKeeps ==
  ASSUME IndexInv, NEW i \in Indexers, EmbedBatch(i) \/ CreateCollection(i)
  PROVE  IndexInv' /\ CompletionsAreIndexed
<1>1. UNCHANGED <<disk, points>> /\ indexer[i].pc \in {"batch", "create"}
  BY DEF EmbedBatch, CreateCollection, Indexing, qdrant
<1>2. \/ Exits(i, "failed")
      \/ \E to \in {"create", "upsert"} : BecomesIndexer(i, [indexer[i] EXCEPT !.pc = to])
  BY DEF EmbedBatch, CreateCollection
<1>3. ASSUME NEW to \in {"create", "upsert"}, BecomesIndexer(i, [indexer[i] EXCEPT !.pc = to])
      PROVE  IndexInv' /\ CompletionsAreIndexed
  <2> DEFINE run == [indexer[i] EXCEPT !.pc = to]
  <2>1. IsRun(indexer[i]) /\ RunKeeps(indexer[i], DOMAIN artifacts, points)
    BY DEF IndexInv
  <2>2. /\ IsRun(run) /\ run.pc = to /\ run.known = indexer[i].known
        /\ run.at = indexer[i].at /\ run.corpus = indexer[i].corpus
    BY <2>1 DEF IsRun, Fields
  <2> HIDE DEF run
  <2>3. RunKeeps(run, DOMAIN artifacts, points')
    BY <1>1, <2>1, <2>2 DEF RunKeeps
  <2>4. QED
    BY <1>1, <1>3, <2>2, <2>3, RunGoesOn DEF run
<1>4. QED
  BY <1>1, <1>2, <1>3, RunExits

LEMMA MinOfTwo ==
  ASSUME NEW a \in Int, NEW b \in Int
  PROVE  Min({a, b}) = IF a <= b THEN a ELSE b
<1>1. \E m \in {a, b} : \A k \in {a, b} : m <= k
  BY SMT
<1>2. \A m \in {a, b} : (\A k \in {a, b} : m <= k) => m = IF a <= b THEN a ELSE b
  BY SMT
<1>3. QED
  BY <1>1, <1>2 DEF Min

\* A batch of points is written: it follows those that are there, and when it is the last one
\* every chunk is (dense.py DenseIndexer.index; qdrant_store.py upsert).
LEMMA UpsertKeeps ==
  ASSUME IndexInv, NEW i \in Indexers, Upsert(i)
  PROVE  IndexInv' /\ CompletionsAreIndexed
<1> DEFINE held == indexer[i]
           corpus == held.corpus
           at == held.at
           run == [held EXCEPT !.pc = "batch", !.at = at + BatchSize]
<1>1. UNCHANGED disk /\ held.pc = "upsert"
  BY DEF Upsert, Indexing
<1>2. IsRun(held) /\ RunKeeps(held, DOMAIN artifacts, points)
  BY DEF IndexInv
<1>3. /\ corpus \in Seq(Nat) /\ Len(corpus) \in Nat /\ at \in Nat /\ BatchSize \in Nat \ {0}
      /\ DOMAIN corpus = 1..Len(corpus)
      /\ held.known \subseteq DOMAIN artifacts /\ held.known \subseteq Covered(corpus)
      /\ \A n \in 1..Len(corpus) : n <= at => corpus[n] \in points
  BY <1>1, <1>2, LenProperties, DocumentIndexAssumption DEF IsRun, RunKeeps
<1>4. CASE Exits(i, "failed") /\ UNCHANGED points
  BY <1>1, <1>4, RunExits
<1>5. CASE /\ points' = points \cup {corpus[n] : n \in (at + 1)..Min({at + BatchSize, Len(corpus)})}
           /\ IF NextBatch(corpus, at) THEN BecomesIndexer(i, run) ELSE Exits(i, "completed")
  <2>1. points \subseteq points'
    BY <1>5
  <2>2. \A n \in 1..Len(corpus) : n <= at + BatchSize => corpus[n] \in points'
    <3> HIDE DEF corpus, at
    <3>1. Min({at + BatchSize, Len(corpus)})
            = IF at + BatchSize <= Len(corpus) THEN at + BatchSize ELSE Len(corpus)
      BY <1>3, MinOfTwo
    <3>2. ASSUME NEW n \in 1..Len(corpus), n <= at + BatchSize
          PROVE  corpus[n] \in points'
      <4>1. CASE n <= at
        BY <1>3, <2>1, <4>1
      <4>2. CASE ~(n <= at)
        <5>1. n \in (at + 1)..Min({at + BatchSize, Len(corpus)})
          BY <1>3, <3>1, <3>2, <4>2
        <5>2. QED
          BY <1>5, <5>1
      <4>3. QED
        BY <4>1, <4>2
    <3>3. QED
      BY <3>2
  <2>3. CASE NextBatch(corpus, at)
    <3>1. /\ IsRun(run) /\ run.pc = "batch" /\ run.known = held.known
          /\ run.corpus = corpus /\ run.at = at + BatchSize
      BY <1>2, <1>3 DEF IsRun, Fields
    <3>2. BecomesIndexer(i, run)
      BY <1>5, <2>3
    <3> HIDE DEF run
    <3>3. RunKeeps(run, DOMAIN artifacts, points')
      BY <1>3, <2>2, <3>1 DEF RunKeeps
    <3>4. QED
      BY <1>1, <2>1, <3>1, <3>2, <3>3, RunGoesOn
  <2>4. CASE ~NextBatch(corpus, at)
    <3>1. \A n \in 1..Len(corpus) : corpus[n] \in points'
      BY <1>3, <2>2, <2>4 DEF NextBatch
    <3>2. ToSet(corpus) \subseteq points'
      BY <1>3, <3>1 DEF ToSet
    <3>3. WellDone(indexer[i], points')
      BY <1>3, <3>2 DEF WellDone
    <3>4. QED
      BY <1>1, <1>5, <2>1, <2>4, <3>3, RunExits
  <2>5. QED
    BY <2>3, <2>4
<1>6. QED
  BY <1>4, <1>5 DEF Upsert

LEMMA ReplaceSnapshotKeeps ==
  ASSUME IndexInv, NEW i \in Indexers, ReplaceSnapshot(i)
  PROVE  IndexInv' /\ CompletionsAreIndexed
<1>1. UNCHANGED <<disk, points>> /\ indexer[i].pc = "replace" /\ SparseDone(i)
  BY DEF ReplaceSnapshot, Indexing, qdrant
<1>2. QED
  BY <1>1, SparseDoneKeeps

LEMMA CrashKeeps ==
  ASSUME IndexInv, NEW i \in Indexers, Crash(i)
  PROVE  IndexInv' /\ CompletionsAreIndexed
<1>1. UNCHANGED <<disk, points>> /\ Exits(i, "crashed")
  BY DEF Crash, qdrant
<1>2. QED
  BY <1>1, RunExits

\* Ingestion adds documents, and takes none away.
LEMMA IngestKeeps ==
  ASSUME IndexInv, Ingest
  PROVE  IndexInv' /\ UNCHANGED indexer
<1>1. PICK d \in Documents, v \in Chunkings :
        artifacts' = [e \in DOMAIN artifacts \cup {d} |-> IF e = d THEN v ELSE artifacts[e]]
  BY DEF Ingest
<1>2. UNCHANGED <<points, indexer>> /\ writes' = writes + 1
  BY DEF Ingest, qdrant
<1>3. IsFiniteSet(DOMAIN artifacts \cup {d})
  BY FS_AddElement DEF IndexInv
<1>4. \A i \in Indexers : RunKeeps(indexer[i], DOMAIN artifacts', points)
  BY <1>1, RunKeepsMore DEF IndexInv
<1>5. QED
  BY <1>1, <1>2, <1>3, <1>4 DEF IndexInv

LEMMA SearchKeeps ==
  ASSUME NEW s \in Searchers, SearchStep(s)
  PROVE  UNCHANGED <<disk, points, indexer>>
  BY Zenon DEF SearchStep, Open, Load, StartSearch, SearchDense, Rerank, Serve, qdrant

(***************************************************************************)
(* Completed runs                                                           *)
(***************************************************************************)

LEMMA InitHolds == Init => IndexInv
<1> SUFFICES ASSUME Init
             PROVE  IndexInv
  OBVIOUS
<1>1. artifacts = <<>> /\ DOMAIN artifacts = {} /\ writes = 0
  BY DEF Init
<1>2. DOMAIN indexer = Indexers /\ \A i \in Indexers : indexer[i] = NoIndexer
  BY DEF Init
<1>3. IsRun(NoIndexer) /\ NoIndexer.pc = "idle" /\ NoIndexer.known = {}
  BY DEF NoIndexer, IsRun, Fields
<1>4. RunKeeps(NoIndexer, {}, points)
  BY <1>3 DEF RunKeeps
<1>5. QED
  BY <1>1, <1>2, <1>3, <1>4, FS_EmptySet DEF IndexInv

LEMMA StepHolds == IndexInv /\ [Next]_vars => IndexInv' /\ CompletionsAreIndexed
<1> SUFFICES ASSUME IndexInv, [Next]_vars
             PROVE  IndexInv' /\ CompletionsAreIndexed
  OBVIOUS
<1>1. ASSUME UNCHANGED indexer
      PROVE  CompletionsAreIndexed
  BY <1>1 DEF CompletionsAreIndexed
<1>2. ASSUME UNCHANGED <<disk, points, indexer>>
      PROVE  IndexInv' /\ CompletionsAreIndexed
  BY <1>1, <1>2 DEF IndexInv, disk
<1>3. ASSUME NEW i \in Indexers, Index(i)
      PROVE  IndexInv' /\ CompletionsAreIndexed
  BY <1>3, StartIndexingKeeps, ListArtifactsKeeps, ReadArtifactKeeps, CheckSnapshotKeeps,
     ReplaceSnapshotKeeps, EmbedBatchKeeps, UpsertKeeps, CrashKeeps DEF Index
<1>4. ASSUME NEW s \in Searchers, SearchStep(s)
      PROVE  IndexInv' /\ CompletionsAreIndexed
  BY <1>2, <1>4, SearchKeeps
<1>5. CASE Ingest
  BY <1>1, <1>5, IngestKeeps
<1>6. CASE UNCHANGED vars
  BY <1>2, <1>6 DEF vars, qdrant
<1>7. QED
  BY <1>3, <1>4, <1>5, <1>6 DEF Next

\* Whatever other runs, crashes and ingestion do meanwhile, a run that completes has read every
\* document that was there when it began, and has made points of all it read if that was its
\* task (dense.py DenseIndexer.index; cli/retrieval.py index_main).
THEOREM CompletionImpliesIndexed == Spec => CompletedRunsAreIndexed
<1>1. CompletionsAreIndexed =>
        \A i \in Indexers : LET run == indexer[i] IN
          run.pc # "exited" /\ indexer'[i].exit = "completed" /\ indexer'[i].pc = "exited" =>
            /\ run.known \subseteq {DocumentOf(c) : c \in ToSet(run.corpus)}
            /\ run.build = {"dense"} => ToSet(run.corpus) \subseteq points'
  BY DEF CompletionsAreIndexed, WellDone, Covered
<1>2. QED
  BY <1>1, InitHolds, StepHolds, PTL DEF Spec, CompletedRunsAreIndexed

(***************************************************************************)
(* What is indexed stays citable                                            *)
(***************************************************************************)

\* A chunk of a document on disk, which is there unless the document was overwritten.
Citable(c, stored, gone) ==
  /\ c \in Nat \ {Missing} /\ DocumentOf(c) \in DOMAIN stored
  /\ c \in ToSet(ChunksOf[DocumentOf(c)][stored[DocumentOf(c)]]) \/ DocumentOf(c) \in gone

IsCorpus(corpus, stored, gone) ==
  /\ corpus \in Seq(Nat) /\ IsInjective(corpus)
  /\ \A n \in DOMAIN corpus : Citable(corpus[n], stored, gone)

\* Ingestion adds documents and overwrites some.
Grown(stored, gone, more, lost) ==
  /\ DOMAIN stored \subseteq DOMAIN more /\ gone \subseteq lost
  /\ \A d \in DOMAIN stored : more[d] = stored[d] \/ d \in lost

LEMMA CitableStays ==
  ASSUME NEW stored, NEW gone, NEW more, NEW lost, Grown(stored, gone, more, lost),
         NEW c, Citable(c, stored, gone)
  PROVE  Citable(c, more, lost)
<1> DEFINE d == DocumentOf(c)
<1>1. d \in DOMAIN stored /\ (c \in ToSet(ChunksOf[d][stored[d]]) \/ d \in gone)
  BY DEF Citable
<1>2. d \in DOMAIN more /\ (more[d] = stored[d] \/ d \in lost) /\ (d \in gone => d \in lost)
  BY <1>1 DEF Grown
<1>3. c \in Nat \ {Missing}
  BY DEF Citable
<1> QED
  BY <1>1, <1>2, <1>3, Zenon DEF Citable

LEMMA CorpusStays ==
  ASSUME NEW stored, NEW gone, NEW more, NEW lost, Grown(stored, gone, more, lost),
         NEW corpus, IsCorpus(corpus, stored, gone)
  PROVE  IsCorpus(corpus, more, lost)
  BY CitableStays DEF IsCorpus

LEMMA ChunksAreDistinct ==
  ASSUME NEW d \in Documents, NEW v \in Chunkings
  PROVE  /\ ChunksOf[d][v] \in Seq(Nat) /\ ChunksOf[d][v] # <<>> /\ IsInjective(ChunksOf[d][v])
         /\ \A n \in DOMAIN ChunksOf[d][v] : ChunksOf[d][v][n] \in Nat \ {Missing}
<1>1. ChunksOf[d][v] \in Seq(Nat \ {Missing})
  BY DocumentIndexAssumption
<1>2. ChunksOf[d][v] # <<>> /\ IsInjective(ChunksOf[d][v])
  BY DocumentIndexAssumption
<1> DEFINE chunks == ChunksOf[d][v]
<1> HIDE DEF chunks
<1>3. chunks \in Seq(Nat \ {Missing}) => chunks \in Seq(Nat) /\ \A n \in DOMAIN chunks : chunks[n] \in Nat \ {Missing}
  OBVIOUS
<1> QED
  BY <1>1, <1>2, <1>3 DEF chunks

\* The chunks of a document are citable as long as it is on disk.
LEMMA ChunksAreCitable ==
  ASSUME NEW stored, NEW gone, NEW d \in Documents, d \in DOMAIN stored, stored[d] \in Chunkings,
         NEW n \in DOMAIN ChunksOf[d][stored[d]]
  PROVE  Citable(ChunksOf[d][stored[d]][n], stored, gone)
<1> DEFINE c == ChunksOf[d][stored[d]][n]
<1>1. c \in ToSet(ChunksOf[d][stored[d]])
  BY DEF ToSet
<1>2. c \in Nat \ {Missing}
  BY ChunksAreDistinct
<1>3. DocumentOf(c) = d
  BY <1>1, ChunksTellDocuments
<1> HIDE DEF c
<1> QED
  BY <1>1, <1>2, <1>3 DEF Citable, c

\* A corpus is extended by the chunks of a document it does not cover.
LEMMA CorpusGrows ==
  ASSUME NEW stored, NEW gone, NEW corpus, IsCorpus(corpus, stored, gone),
         NEW d \in Documents, d \in DOMAIN stored, stored[d] \in Chunkings, d \notin Covered(corpus)
  PROVE  IsCorpus(corpus \o ChunksOf[d][stored[d]], stored, gone)
<1> DEFINE chunks == ChunksOf[d][stored[d]]
           all == corpus \o chunks
           l == Len(corpus)
<1>1. /\ chunks \in Seq(Nat) /\ IsInjective(chunks)
      /\ \A n \in DOMAIN chunks : Citable(chunks[n], stored, gone) /\ DocumentOf(chunks[n]) = d
  <2>1. ASSUME NEW n \in DOMAIN chunks PROVE Citable(chunks[n], stored, gone)
    BY ChunksAreCitable
  <2>2. ASSUME NEW n \in DOMAIN chunks PROVE DocumentOf(chunks[n]) = d
    <3>1. chunks[n] \in ToSet(chunks)
      BY DEF ToSet
    <3> QED
      BY <3>1, ChunksTellDocuments
  <2>3. chunks \in Seq(Nat) /\ IsInjective(chunks)
    BY ChunksAreDistinct
  <2> QED
    BY <2>1, <2>2, <2>3
<1>2. corpus \in Seq(Nat) /\ IsInjective(corpus)
      /\ \A n \in DOMAIN corpus : Citable(corpus[n], stored, gone) /\ DocumentOf(corpus[n]) # d
  <2>1. \A n \in DOMAIN corpus : DocumentOf(corpus[n]) \in Covered(corpus)
    BY DEF Covered, ToSet
  <2> QED
    BY <2>1 DEF IsCorpus
<1> HIDE DEF chunks
<1>3. /\ all \in Seq(Nat) /\ Len(all) = l + Len(chunks) /\ l \in Nat /\ Len(chunks) \in Nat
      /\ \A n \in 1..Len(all) : all[n] = IF n <= l THEN corpus[n] ELSE chunks[n - l]
      /\ DOMAIN all = 1..Len(all) /\ DOMAIN corpus = 1..l /\ DOMAIN chunks = 1..Len(chunks)
  BY <1>1, <1>2, ConcatProperties, LenProperties
<1> HIDE DEF all, l
<1>4. ASSUME NEW n \in DOMAIN all
      PROVE  \/ n \in DOMAIN corpus /\ all[n] = corpus[n]
             \/ ~(n <= l) /\ n - l \in DOMAIN chunks /\ all[n] = chunks[n - l]
  BY <1>3
<1>5. \A n \in DOMAIN all : Citable(all[n], stored, gone)
  BY <1>1, <1>2, <1>4
<1>6. ASSUME NEW m \in DOMAIN all, NEW n \in DOMAIN all, all[m] = all[n]
      PROVE  m = n
  <2>1. CASE m \in DOMAIN corpus /\ all[m] = corpus[m] /\ n \in DOMAIN corpus /\ all[n] = corpus[n]
    BY <1>2, <1>6, <2>1 DEF IsInjective
  <2>2. CASE /\ n - l \in DOMAIN chunks /\ all[n] = chunks[n - l]
             /\ m - l \in DOMAIN chunks /\ all[m] = chunks[m - l]
    <3>1. m - l = n - l
      BY <1>1, <1>6, <2>2 DEF IsInjective
    <3> QED
      BY <1>3, <3>1
  <2>3. CASE /\ m \in DOMAIN corpus /\ all[m] = corpus[m]
             /\ n - l \in DOMAIN chunks /\ all[n] = chunks[n - l]
    BY <1>1, <1>2, <1>6, <2>3
  <2>4. CASE /\ n \in DOMAIN corpus /\ all[n] = corpus[n]
             /\ m - l \in DOMAIN chunks /\ all[m] = chunks[m - l]
    BY <1>1, <1>2, <1>6, <2>4
  <2> QED
    BY <1>4, <2>1, <2>2, <2>3, <2>4
<1>7. IsInjective(all)
  BY <1>6 DEF IsInjective
<1>8. IsCorpus(all, stored, gone)
  BY <1>3, <1>5, <1>7 DEF IsCorpus
<1> QED
  BY <1>8 DEF all, chunks

LEMMA ListedOnce ==
  ASSUME NEW S, NEW paths \in Paths(S)
  PROVE  IsInjective(paths)
  BY DEF Paths, SetToSeqs, IsInjective

\* The first document of a listing is not among the rest of it.
LEMMA FirstAndRest ==
  ASSUME NEW paths \in Seq(Documents), paths # <<>>, IsInjective(paths)
  PROVE  /\ Head(paths) \in Documents /\ Tail(paths) \in Seq(Documents) /\ IsInjective(Tail(paths))
         /\ ToSet(paths) = {Head(paths)} \cup ToSet(Tail(paths))
         /\ Head(paths) \notin ToSet(Tail(paths))
         /\ Tail(paths) = <<>> <=> Len(paths) = 1
<1>1. Len(paths) \in Nat /\ Len(paths) # 0 /\ DOMAIN paths = 1..Len(paths)
  BY EmptySeq, LenProperties
<1>2. /\ Head(paths) = paths[1] /\ Head(paths) \in Documents
      /\ Tail(paths) \in Seq(Documents) /\ Len(Tail(paths)) = Len(paths) - 1
      /\ \A n \in 1..Len(Tail(paths)) : Tail(paths)[n] = paths[n + 1]
  BY HeadTailProperties
<1> DEFINE rest == Tail(paths)
<1> HIDE DEF rest
<1>3. /\ rest \in Seq(Documents) /\ Len(rest) = Len(paths) - 1 /\ DOMAIN rest = 1..(Len(paths) - 1)
      /\ \A n \in 1..(Len(paths) - 1) : rest[n] = paths[n + 1]
  BY <1>2, LenProperties DEF rest
<1>4. IsInjective(rest)
  <2>1. ASSUME NEW m \in DOMAIN rest, NEW n \in DOMAIN rest, rest[m] = rest[n]
        PROVE  m = n
    <3>1. m + 1 \in DOMAIN paths /\ n + 1 \in DOMAIN paths /\ paths[m + 1] = paths[n + 1]
      BY <1>1, <1>3, <2>1
    <3>2. m + 1 = n + 1
      BY <3>1 DEF IsInjective
    <3> QED
      BY <1>1, <1>3, <3>2
  <2> QED
    BY <2>1 DEF IsInjective
<1>5. Head(paths) \notin ToSet(rest)
  <2>1. ASSUME NEW n \in DOMAIN rest, rest[n] = paths[1] PROVE FALSE
    <3>1. n + 1 \in DOMAIN paths /\ 1 \in DOMAIN paths /\ paths[n + 1] = paths[1] /\ n + 1 # 1
      BY <1>1, <1>3, <2>1
    <3> QED
      BY <3>1 DEF IsInjective
  <2> QED
    BY <1>2, <2>1 DEF ToSet
<1>6. ToSet(paths) = {Head(paths)} \cup ToSet(rest)
  <2>1. ASSUME NEW n \in DOMAIN paths
        PROVE  paths[n] \in {Head(paths)} \cup ToSet(rest)
    <3>1. CASE n = 1
      BY <1>2, <3>1
    <3>2. CASE n # 1
      <4>1. n - 1 \in DOMAIN rest /\ rest[n - 1] = paths[n]
        BY <1>1, <1>3, <3>2
      <4> QED
        BY <4>1 DEF ToSet
    <3> QED
      BY <3>1, <3>2
  <2>2. ASSUME NEW n \in DOMAIN rest
        PROVE  rest[n] \in ToSet(paths)
    <3>1. n + 1 \in DOMAIN paths /\ rest[n] = paths[n + 1]
      BY <1>1, <1>3
    <3> QED
      BY <3>1 DEF ToSet
  <2>3. Head(paths) \in ToSet(paths)
    BY <1>1, <1>2 DEF ToSet
  <2> QED
    BY <2>1, <2>2, <2>3 DEF ToSet
<1>7. rest = <<>> <=> Len(paths) = 1
  BY <1>1, <1>3, EmptySeq
<1> QED
  BY <1>2, <1>4, <1>5, <1>6, <1>7 DEF rest

\* What a run holds: a corpus of citable chunks, none of a document it has yet to read.
RunHolds(run, stored, gone, count, held_collection) ==
  /\ IsCorpus(run.corpus, stored, gone) /\ run.began \in 0..count
  /\ run.pc = "read" => IsInjective(run.paths) /\ Covered(run.corpus) \cap ToSet(run.paths) = {}
  /\ run.pc = "upsert" => held_collection = "compatible"

\* What is on disk and in Qdrant.
StoresInv ==
  /\ artifacts = [d \in DOMAIN artifacts |-> artifacts[d]]
  /\ writes \in 0..MaxWrites /\ overwritten \subseteq DOMAIN artifacts /\ snapshot_of \in 0..writes
  /\ IsCorpus(snapshot, artifacts, overwritten)
  /\ IsFiniteSet(points) /\ \A c \in points : Citable(c, artifacts, overwritten)
  /\ points # {} => collection = "compatible"

RunsInv ==
  \A i \in Indexers : RunHolds(indexer[i], artifacts, overwritten, writes, collection)

SourcesInv == IndexInv /\ StoresInv /\ RunsInv

\* A run that goes on to hold `run', while the rest of the sources is as it was or sound.
LEMMA RunMoves ==
  ASSUME SourcesInv, NEW i \in Indexers, NEW run, BecomesIndexer(i, run), UNCHANGED disk,
         collection' = collection \/ collection' = "compatible", IndexInv', StoresInv',
         RunHolds(run, artifacts, overwritten, writes, collection')
  PROVE  SourcesInv'
<1>1. indexer'[i] = run /\ \A j \in Indexers : j # i => indexer'[j] = indexer[j]
  BY DEF BecomesIndexer, SourcesInv, IndexInv
<1>2. UNCHANGED <<artifacts, overwritten, writes>>
  BY DEF disk
<1>3. ASSUME NEW j \in Indexers
      PROVE  RunHolds(indexer'[j], artifacts, overwritten, writes, collection')
  <2>1. CASE j = i
    BY <1>1, <2>1
  <2>2. CASE j # i
    <3>1. RunHolds(indexer[j], artifacts, overwritten, writes, collection)
      BY DEF SourcesInv, RunsInv
    <3> QED
      BY <1>1, <2>2, <3>1 DEF RunHolds
  <2> QED
    BY <2>1, <2>2
<1>4. RunsInv'
  BY <1>2, <1>3 DEF RunsInv
<1> QED
  BY <1>4 DEF SourcesInv

LEMMA EmptyCorpus ==
  ASSUME NEW stored, NEW gone
  PROVE  IsCorpus(<<>>, stored, gone) /\ Covered(<<>>) = {} /\ ToSet(<<>>) = {}
<1>1. <<>> \in Seq(Nat) /\ DOMAIN <<>> = {}
  BY EmptySeq
<1> QED
  BY <1>1 DEF IsCorpus, IsInjective, Covered, ToSet

\* A run that exits holds nothing.
LEMMA ExitHolds ==
  ASSUME SourcesInv, NEW i \in Indexers, NEW how, Exits(i, how), UNCHANGED disk,
         collection' = collection \/ collection' = "compatible", IndexInv', StoresInv'
  PROVE  SourcesInv'
<1> DEFINE run == [NoIndexer EXCEPT !.pc = "exited", !.exit = how]
<1>1. BecomesIndexer(i, run)
  BY DEF Exits
<1>2. run.corpus = <<>> /\ run.began = 0 /\ run.pc = "exited"
  BY DEF NoIndexer
<1> HIDE DEF run
<1>3. 0 \in 0..writes
  BY DEF SourcesInv, StoresInv
<1>4. RunHolds(run, artifacts, overwritten, writes, collection')
  BY <1>2, <1>3, EmptyCorpus DEF RunHolds
<1> QED
  BY <1>1, <1>4, RunMoves

LEMMA StoresStay ==
  ASSUME StoresInv, UNCHANGED <<disk, snapshot, snapshot_of, points>>,
         collection' = collection \/ collection' = "compatible"
  PROVE  StoresInv'
<1>1. UNCHANGED <<artifacts, overwritten, writes, snapshot, snapshot_of, points>>
  BY DEF disk
<1> QED
  BY <1>1 DEF StoresInv

LEMMA StartIndexingHolds ==
  ASSUME SourcesInv, IndexInv', NEW i \in Indexers, StartIndexing(i)
  PROVE  SourcesInv'
<1>1. PICK build \in {{"sparse"}, {"dense"}, {"sparse", "dense"}} :
        BecomesIndexer(i, [NoIndexer EXCEPT !.pc = "list", !.build = build, !.began = writes,
                                            !.known = DOMAIN artifacts])
  BY DEF StartIndexing
<1> DEFINE run == [NoIndexer EXCEPT !.pc = "list", !.build = build, !.began = writes,
                                    !.known = DOMAIN artifacts]
<1>2. UNCHANGED <<disk, snapshot, snapshot_of, points, collection>>
  BY DEF StartIndexing, qdrant
<1>3. run.corpus = <<>> /\ run.began = writes /\ run.pc = "list"
  BY DEF NoIndexer
<1>4. BecomesIndexer(i, run)
  BY <1>1
<1> HIDE DEF run
<1>5. writes \in 0..writes
  BY DEF SourcesInv, StoresInv
<1>6. RunHolds(run, artifacts, overwritten, writes, collection')
  BY <1>3, <1>5, EmptyCorpus DEF RunHolds
<1>7. StoresInv'
  BY <1>2, StoresStay DEF SourcesInv
<1> QED
  BY <1>2, <1>4, <1>6, <1>7, RunMoves

LEMMA ListArtifactsHolds ==
  ASSUME SourcesInv, IndexInv', NEW i \in Indexers, ListArtifacts(i)
  PROVE  SourcesInv'
<1>1. UNCHANGED <<disk, snapshot, snapshot_of, points, collection>>
  BY DEF ListArtifacts, qdrant
<1>2. StoresInv'
  BY <1>1, StoresStay DEF SourcesInv
<1>3. CASE DOMAIN artifacts = {}
  <2>1. Exits(i, "no_artifacts")
    BY <1>3 DEF ListArtifacts
  <2> QED
    BY <1>1, <1>2, <2>1, ExitHolds
<1>4. CASE DOMAIN artifacts # {}
  <2>1. PICK paths \in Paths(DOMAIN artifacts) : BecomesIndexer(i, Reading(indexer[i], paths))
    BY <1>4 DEF ListArtifacts
  <2>2. IsInjective(paths)
    BY ListedOnce
  <2>3. IsRun(indexer[i]) /\ indexer[i].began \in 0..writes
    BY DEF SourcesInv, IndexInv, RunsInv, RunHolds
  <2> DEFINE run == Reading(indexer[i], paths)
  <2>4. run.pc = "read" /\ run.paths = paths /\ run.corpus = <<>> /\ run.began = indexer[i].began
    BY <2>3 DEF IsRun, Fields, Reading
  <2> HIDE DEF run
  <2>5. RunHolds(run, artifacts, overwritten, writes, collection')
    BY <2>2, <2>3, <2>4, EmptyCorpus DEF RunHolds
  <2> QED
    BY <1>1, <1>2, <2>1, <2>5, RunMoves DEF run
<1> QED
  BY <1>3, <1>4

LEMMA ReadArtifactHolds ==
  ASSUME SourcesInv, IndexInv', NEW i \in Indexers, ReadArtifact(i)
  PROVE  SourcesInv'
<1> DEFINE held == indexer[i]
           d == Head(held.paths)
           rest == Tail(held.paths)
           chunks == ChunksOf[d][artifacts[d]]
           run == [held EXCEPT !.corpus = @ \o chunks, !.paths = rest, !.at = 0,
                               !.pc = IF rest # <<>> THEN "read"
                                      ELSE IF "sparse" \in held.build THEN "check" ELSE "batch"]
<1>1. /\ UNCHANGED <<disk, snapshot, snapshot_of, points, collection>> /\ BecomesIndexer(i, run)
      /\ held.pc = "read"
  BY DEF ReadArtifact, Indexing, qdrant
<1>2. StoresInv'
  BY <1>1, StoresStay DEF SourcesInv
<1>3. IsRun(held) /\ RunKeeps(held, DOMAIN artifacts, points)
      /\ RunHolds(held, artifacts, overwritten, writes, collection)
  BY DEF SourcesInv, IndexInv, RunsInv
<1>4. /\ held.paths \in Seq(Documents) /\ held.paths # <<>> /\ ToSet(held.paths) \subseteq DOMAIN artifacts
      /\ IsInjective(held.paths) /\ IsCorpus(held.corpus, artifacts, overwritten)
      /\ Covered(held.corpus) \cap ToSet(held.paths) = {} /\ held.corpus \in Seq(Nat)
      /\ held.began \in 0..writes
  BY <1>1, <1>3 DEF RunKeeps, IsRun, RunHolds
<1> DEFINE paths == held.paths
<1>5. paths \in Seq(Documents) /\ paths # <<>> /\ IsInjective(paths)
  BY <1>4
<1> HIDE DEF paths
<1>6. /\ Head(paths) \in Documents /\ IsInjective(Tail(paths))
      /\ ToSet(paths) = {Head(paths)} \cup ToSet(Tail(paths))
      /\ Head(paths) \notin ToSet(Tail(paths))
  BY <1>5, FirstAndRest
<1>7. /\ d \in Documents /\ IsInjective(rest) /\ d \notin ToSet(rest)
      /\ ToSet(held.paths) = {d} \cup ToSet(rest)
  BY <1>6 DEF paths
<1> HIDE DEF rest, d
<1>8. d \in DOMAIN artifacts /\ artifacts[d] \in Chunkings
  BY <1>4, <1>7 DEF SourcesInv, IndexInv
<1>9. d \notin Covered(held.corpus)
  BY <1>4, <1>7
<1>10. IsCorpus(held.corpus \o chunks, artifacts, overwritten)
  BY <1>4, <1>7, <1>8, <1>9, CorpusGrows
<1>11. Covered(held.corpus \o chunks) = Covered(held.corpus) \cup {d}
  BY <1>4, <1>7, <1>8, ReadingCovers
<1> HIDE DEF chunks
<1>12. /\ run.corpus = held.corpus \o chunks /\ run.paths = rest /\ run.began = held.began
       /\ run.pc # "upsert"
  BY <1>3 DEF IsRun, Fields
<1> HIDE DEF run, held
<1>13. Covered(run.corpus) \cap ToSet(run.paths) = {}
  BY <1>4, <1>7, <1>11, <1>12
<1>14. RunHolds(run, artifacts, overwritten, writes, collection')
  BY <1>4, <1>7, <1>10, <1>12, <1>13 DEF RunHolds
<1> QED
  BY <1>1, <1>2, <1>14, RunMoves

\* A run that goes on with what it has read.
LEMMA RunContinues ==
  ASSUME SourcesInv, IndexInv', StoresInv', NEW i \in Indexers, NEW run,
         run.corpus = indexer[i].corpus, run.began = indexer[i].began, run.pc # "read",
         run.pc = "upsert" => collection' = "compatible",
         collection' = collection \/ collection' = "compatible",
         BecomesIndexer(i, run), UNCHANGED disk
  PROVE  SourcesInv'
<1>1. RunHolds(indexer[i], artifacts, overwritten, writes, collection)
  BY DEF SourcesInv, RunsInv
<1>2. RunHolds(run, artifacts, overwritten, writes, collection')
  BY <1>1 DEF RunHolds
<1> QED
  BY <1>2, RunMoves

LEMMA SparseDoneHolds ==
  ASSUME SourcesInv, IndexInv', StoresInv', NEW i \in Indexers, SparseDone(i),
         UNCHANGED disk, UNCHANGED collection
  PROVE  SourcesInv'
<1>1. CASE "dense" \in indexer[i].build
  <2> DEFINE run == [indexer[i] EXCEPT !.pc = "list", !.build = {"dense"}]
  <2>1. BecomesIndexer(i, run)
    BY <1>1 DEF SparseDone
  <2>2. IsRun(indexer[i])
    BY DEF SourcesInv, IndexInv
  <2>3. run.pc = "list" /\ run.corpus = indexer[i].corpus /\ run.began = indexer[i].began
    BY <2>2 DEF IsRun, Fields
  <2> HIDE DEF run
  <2> QED
    BY <2>1, <2>3, RunContinues
<1>2. CASE "dense" \notin indexer[i].build
  <2>1. Exits(i, "completed")
    BY <1>2 DEF SparseDone
  <2> QED
    BY <2>1, ExitHolds
<1> QED
  BY <1>1, <1>2

LEMMA CheckSnapshotHolds ==
  ASSUME SourcesInv, IndexInv', NEW i \in Indexers, CheckSnapshot(i)
  PROVE  SourcesInv'
<1>1. UNCHANGED <<disk, snapshot, snapshot_of, points, collection>>
  BY DEF CheckSnapshot, qdrant
<1>2. StoresInv'
  BY <1>1, StoresStay DEF SourcesInv
<1>3. \/ BecomesIndexer(i, [indexer[i] EXCEPT !.pc = "replace"])
      \/ SparseDone(i)
      \/ Exits(i, "already_exists")
  BY DEF CheckSnapshot
<1>4. CASE BecomesIndexer(i, [indexer[i] EXCEPT !.pc = "replace"])
  <2> DEFINE run == [indexer[i] EXCEPT !.pc = "replace"]
  <2>1. IsRun(indexer[i])
    BY DEF SourcesInv, IndexInv
  <2>2. run.pc = "replace" /\ run.corpus = indexer[i].corpus /\ run.began = indexer[i].began
    BY <2>1 DEF IsRun, Fields
  <2>3. BecomesIndexer(i, run)
    BY <1>4
  <2> HIDE DEF run
  <2> QED
    BY <1>1, <1>2, <2>2, <2>3, RunContinues
<1> QED
  BY <1>1, <1>2, <1>3, <1>4, SparseDoneHolds, ExitHolds

LEMMA ReplaceSnapshotHolds ==
  ASSUME SourcesInv, IndexInv', NEW i \in Indexers, ReplaceSnapshot(i)
  PROVE  SourcesInv'
<1>1. /\ UNCHANGED <<disk, points, collection>> /\ SparseDone(i)
      /\ snapshot' = indexer[i].corpus /\ snapshot_of' = indexer[i].began
  BY DEF ReplaceSnapshot, qdrant
<1>2. IsCorpus(indexer[i].corpus, artifacts, overwritten) /\ indexer[i].began \in 0..writes
  BY DEF SourcesInv, RunsInv, RunHolds
<1>3. UNCHANGED <<artifacts, overwritten, writes>>
  BY <1>1 DEF disk
<1>4. StoresInv'
  BY <1>1, <1>2, <1>3 DEF StoresInv, SourcesInv
<1> QED
  BY <1>1, <1>4, SparseDoneHolds

LEMMA EmbedBatchHolds ==
  ASSUME SourcesInv, IndexInv', NEW i \in Indexers, EmbedBatch(i) \/ CreateCollection(i)
  PROVE  SourcesInv'
<1>1. UNCHANGED <<disk, snapshot, snapshot_of, points>>
  BY DEF EmbedBatch, CreateCollection, qdrant
<1>2. \/ Exits(i, "failed") /\ UNCHANGED collection
      \/ UNCHANGED collection /\ BecomesIndexer(i, [indexer[i] EXCEPT !.pc = "create"])
      \/ collection' = "compatible" /\ BecomesIndexer(i, [indexer[i] EXCEPT !.pc = "upsert"])
  BY DEF EmbedBatch, CreateCollection, qdrant
<1>3. StoresInv'
  BY <1>1, <1>2, StoresStay DEF SourcesInv
<1>4. ASSUME NEW to \in {"create", "upsert"}, BecomesIndexer(i, [indexer[i] EXCEPT !.pc = to]),
             to = "upsert" => collection' = "compatible",
             collection' = collection \/ collection' = "compatible"
      PROVE  SourcesInv'
  <2> DEFINE run == [indexer[i] EXCEPT !.pc = to]
  <2>1. IsRun(indexer[i])
    BY DEF SourcesInv, IndexInv
  <2>2. run.pc = to /\ run.corpus = indexer[i].corpus /\ run.began = indexer[i].began
    BY <2>1 DEF IsRun, Fields
  <2>3. BecomesIndexer(i, run)
    BY <1>4
  <2> HIDE DEF run
  <2> QED
    BY <1>1, <1>3, <1>4, <2>2, <2>3, RunContinues
<1> QED
  BY <1>1, <1>2, <1>3, <1>4, ExitHolds

LEMMA UpsertHolds ==
  ASSUME SourcesInv, IndexInv', NEW i \in Indexers, Upsert(i)
  PROVE  SourcesInv'
<1> DEFINE corpus == indexer[i].corpus
           at == indexer[i].at
           run == [indexer[i] EXCEPT !.pc = "batch", !.at = at + BatchSize]
           batch == {corpus[n] : n \in (at + 1)..Min({at + BatchSize, Len(corpus)})}
<1>1. UNCHANGED <<disk, snapshot, snapshot_of, collection>> /\ indexer[i].pc = "upsert"
  BY DEF Upsert, Indexing
<1>2. /\ IsCorpus(corpus, artifacts, overwritten) /\ collection = "compatible"
      /\ IsRun(indexer[i])
  BY <1>1 DEF SourcesInv, RunsInv, RunHolds, IndexInv
<1>3. CASE Exits(i, "failed") /\ UNCHANGED points
  <2>1. StoresInv'
    BY <1>1, <1>3, StoresStay DEF SourcesInv
  <2> QED
    BY <1>1, <1>3, <2>1, ExitHolds
<1>4. CASE /\ points' = points \cup batch
           /\ IF NextBatch(corpus, at) THEN BecomesIndexer(i, run) ELSE Exits(i, "completed")
  <2>1. \A c \in batch : Citable(c, artifacts, overwritten)
    <3>1. corpus \in Seq(Nat) /\ at \in Nat /\ Len(corpus) \in Nat /\ DOMAIN corpus = 1..Len(corpus)
          /\ BatchSize \in Nat
      BY <1>2, LenProperties, DocumentIndexAssumption DEF IsRun
    <3> HIDE DEF corpus, at
    <3>2. Min({at + BatchSize, Len(corpus)})
            = IF at + BatchSize <= Len(corpus) THEN at + BatchSize ELSE Len(corpus)
      BY <3>1, MinOfTwo
    <3>3. \A n \in (at + 1)..Min({at + BatchSize, Len(corpus)}) : n \in DOMAIN corpus
      BY <3>1, <3>2
    <3> QED
      BY <1>2, <3>3 DEF IsCorpus
  <2>0. IsFiniteSet(batch)
    <3>1. Len(corpus) \in Nat /\ at \in Nat /\ BatchSize \in Nat
      BY <1>2, LenProperties, DocumentIndexAssumption DEF IsRun
    <3> DEFINE I == (at + 1)..Min({at + BatchSize, Len(corpus)})
               f == [n \in I |-> corpus[n]]
    <3> HIDE DEF corpus, at
    <3>2. Min({at + BatchSize, Len(corpus)})
            = IF at + BatchSize <= Len(corpus) THEN at + BatchSize ELSE Len(corpus)
      BY <3>1, MinOfTwo
    <3> DEFINE last == Min({at + BatchSize, Len(corpus)})
    <3>5. last \in Int /\ at + 1 \in Int
      BY <3>1, <3>2
    <3> HIDE DEF last
    <3>6. IsFiniteSet((at + 1)..last)
      BY <3>5, FS_Interval
    <3>3. IsFiniteSet(I)
      BY <3>6 DEF last
    <3>4. f \in Surjection(I, batch)
      BY DEF Surjection
    <3> HIDE DEF f, I, batch
    <3> QED
      BY <3>3, <3>4, FS_Surjection
  <2> HIDE DEF batch
  <2>2. UNCHANGED <<artifacts, overwritten, writes>>
    BY <1>1 DEF disk
  <2>3. StoresInv'
    <3>1. IsFiniteSet(points')
      BY <1>4, <2>0, FS_Union DEF StoresInv, SourcesInv
    <3> QED
      BY <1>1, <1>2, <1>4, <2>1, <2>2, <3>1 DEF StoresInv, SourcesInv
  <2>4. CASE NextBatch(corpus, at)
    <3>1. BecomesIndexer(i, run)
      BY <1>4, <2>4
    <3>2. run.pc = "batch" /\ run.corpus = corpus /\ run.began = indexer[i].began
      BY <1>2 DEF IsRun, Fields
    <3> HIDE DEF run
    <3> QED
      BY <1>1, <2>3, <3>1, <3>2, RunContinues
  <2>5. CASE ~NextBatch(corpus, at)
    BY <1>1, <1>4, <2>3, <2>5, ExitHolds
  <2> QED
    BY <2>4, <2>5
<1> QED
  BY <1>3, <1>4 DEF Upsert

LEMMA CrashHolds ==
  ASSUME SourcesInv, IndexInv', NEW i \in Indexers, Crash(i)
  PROVE  SourcesInv'
<1>1. UNCHANGED <<disk, snapshot, snapshot_of, points, collection>> /\ Exits(i, "crashed")
  BY DEF Crash, qdrant
<1>2. StoresInv'
  BY <1>1, StoresStay DEF SourcesInv
<1> QED
  BY <1>1, <1>2, ExitHolds

LEMMA IndexHolds ==
  ASSUME SourcesInv, NEW i \in Indexers, Index(i)
  PROVE  SourcesInv'
<1>1. IndexInv'
  BY StartIndexingKeeps, ListArtifactsKeeps, ReadArtifactKeeps, CheckSnapshotKeeps,
     ReplaceSnapshotKeeps, EmbedBatchKeeps, UpsertKeeps, CrashKeeps DEF Index, SourcesInv
<1> QED
  BY <1>1, StartIndexingHolds, ListArtifactsHolds, ReadArtifactHolds, CheckSnapshotHolds,
     ReplaceSnapshotHolds, EmbedBatchHolds, UpsertHolds, CrashHolds DEF Index

\* Ingestion stores a document, or overwrites one.
LEMMA IngestGrows ==
  ASSUME SourcesInv, Ingest
  PROVE  /\ Grown(artifacts, overwritten, artifacts', overwritten')
         /\ artifacts' = [d \in DOMAIN artifacts' |-> artifacts'[d]]
         /\ overwritten' \subseteq DOMAIN artifacts'
         /\ writes' \in 0..MaxWrites /\ writes' = writes + 1 /\ writes \in Nat
         /\ UNCHANGED <<running, snapshot, snapshot_of, points, collection, indexer, searcher>>
<1>1. PICK d \in Documents, v \in Chunkings :
        /\ artifacts' = [e \in DOMAIN artifacts \cup {d} |-> IF e = d THEN v ELSE artifacts[e]]
        /\ overwritten' = overwritten \cup ({d} \cap DOMAIN artifacts)
  BY DEF Ingest
<1>2. writes' = writes + 1 /\ writes < MaxWrites /\ writes \in 0..MaxWrites /\ MaxWrites \in Nat
  BY DocumentIndexAssumption DEF Ingest, SourcesInv, StoresInv
<1>3. writes' \in 0..MaxWrites /\ writes \in Nat
  BY <1>2
<1>4. DOMAIN artifacts' = DOMAIN artifacts \cup {d} /\ overwritten \subseteq DOMAIN artifacts
  BY <1>1 DEF SourcesInv, StoresInv
<1>5. ASSUME NEW e \in DOMAIN artifacts
      PROVE  artifacts'[e] = artifacts[e] \/ e \in overwritten'
  BY <1>1
<1>6. Grown(artifacts, overwritten, artifacts', overwritten')
  BY <1>1, <1>4, <1>5 DEF Grown
<1> QED
  BY <1>1, <1>2, <1>3, <1>4, <1>6 DEF Ingest, qdrant

LEMMA IngestHolds ==
  ASSUME SourcesInv, Ingest
  PROVE  SourcesInv'
<1>1. /\ Grown(artifacts, overwritten, artifacts', overwritten')
      /\ artifacts' = [d \in DOMAIN artifacts' |-> artifacts'[d]]
      /\ overwritten' \subseteq DOMAIN artifacts'
      /\ writes' \in 0..MaxWrites /\ writes' = writes + 1 /\ writes \in Nat
      /\ UNCHANGED <<snapshot, snapshot_of, points, collection, indexer>>
  BY IngestGrows
<1>2. IndexInv'
  BY IngestKeeps DEF SourcesInv
<1>3. StoresInv'
  <2>1. IsCorpus(snapshot', artifacts', overwritten')
    BY <1>1, CorpusStays DEF SourcesInv, StoresInv
  <2>2. IsFiniteSet(points') /\ \A c \in points' : Citable(c, artifacts', overwritten')
    BY <1>1, CitableStays DEF SourcesInv, StoresInv
  <2>3. snapshot_of' \in 0..writes' /\ (points' # {} => collection' = "compatible")
    BY <1>1 DEF SourcesInv, StoresInv
  <2> QED
    BY <1>1, <2>1, <2>2, <2>3 DEF StoresInv
<1>4. ASSUME NEW i \in Indexers
      PROVE  RunHolds(indexer'[i], artifacts', overwritten', writes', collection')
  <2>1. RunHolds(indexer[i], artifacts, overwritten, writes, collection)
    BY DEF SourcesInv, RunsInv
  <2>2. IsCorpus(indexer[i].corpus, artifacts', overwritten') /\ indexer[i].began \in 0..writes'
    BY <1>1, <2>1, CorpusStays DEF RunHolds
  <2> QED
    BY <1>1, <2>1, <2>2 DEF RunHolds
<1> QED
  BY <1>2, <1>3, <1>4 DEF SourcesInv, RunsInv

(***************************************************************************)
(* Rankings                                                                 *)
(***************************************************************************)

LEMMA LeastIsThere ==
  ASSUME NEW S, S \subseteq Nat, S # {}
  PROVE  /\ Min(S) \in S /\ \A y \in S : Min(S) <= y
<1>1. \E x \in S : \A y \in S : ~(<<y, x>> \in OpToRel(<, Nat))
  BY NatLessThanWellFounded, WFMin, Zenon
<1>2. PICK x \in S : \A y \in S : ~(<<y, x>> \in OpToRel(<, Nat))
  BY <1>1
<1>3. \A y \in S : ~(y < x)
  BY <1>2, Zenon DEF OpToRel
<1>4. \A y \in S : x <= y
  BY <1>3
<1>5. \E z \in S : \A y \in S : z <= y
  BY <1>4
<1> QED
  BY <1>5, Zenon DEF Min

\* The rank of a chunk is its first place, or Missing.
LEMMA RankTells ==
  ASSUME NEW T, NEW s \in Seq(T), NEW c
  PROVE  /\ c \in ToSet(s) => RankIn(s, c) \in DOMAIN s /\ s[RankIn(s, c)] = c
         /\ c \notin ToSet(s) => RankIn(s, c) = Missing
<1> DEFINE I == {i \in 1..Len(s) : s[i] = c}
<1>1. RankIn(s, c) = IF I # {} THEN Min(I) ELSE 0
  BY DEF RankIn, SelectInSeq
<1>2. DOMAIN s = 1..Len(s) /\ Len(s) \in Nat
  BY LenProperties
<1>3. c \in ToSet(s) <=> I # {}
  BY <1>2 DEF ToSet
<1>4. I \subseteq Nat
  BY <1>2
<1>5. I # {} => Min(I) \in I
  <2> HIDE DEF I
  <2> QED
    BY <1>4, LeastIsThere
<1>6. \A i \in I : i \in DOMAIN s /\ s[i] = c
  BY <1>2
<1> HIDE DEF I
<1> QED
  BY <1>1, <1>3, <1>5, <1>6 DEF Missing

\* R puts the elements of S in a strict total order.
TotalOrder(R, S) ==
  /\ \A x \in S : <<x, x>> \notin R
  /\ \A x, y, z \in S : <<x, y>> \in R /\ <<y, z>> \in R => <<x, z>> \in R
  /\ \A x, y \in S : x # y => <<x, y>> \in R \/ <<y, x>> \in R

\* A finite set can be put in order: each element goes to its number of predecessors.
LEMMA SortedIsThere ==
  ASSUME NEW S, IsFiniteSet(S), NEW R, TotalOrder(R, S)
  PROVE  \E seq \in SetToSeqs(S) : \A m, n \in DOMAIN seq : m < n => <<seq[m], seq[n]>> \in R
<1> DEFINE n == Cardinality(S)
           Below(x) == {y \in S : <<y, x>> \in R}
           place == [x \in S |-> Cardinality(Below(x)) + 1]
<1>1. n \in Nat
  BY FS_CardinalityType
<1>2. ASSUME NEW x \in S
      PROVE  IsFiniteSet(Below(x)) /\ Cardinality(Below(x)) \in Nat /\ place[x] \in 1..n
  <2>1. Below(x) \in SUBSET (S \ {x})
    BY DEF TotalOrder
  <2>2. IsFiniteSet(S \ {x}) /\ Cardinality(S \ {x}) = n - 1
    BY FS_RemoveElement
  <2> HIDE DEF Below
  <2>3. IsFiniteSet(Below(x)) /\ Cardinality(Below(x)) <= n - 1
    BY <2>1, <2>2, FS_Subset
  <2>4. Cardinality(Below(x)) \in Nat
    BY <2>3, FS_CardinalityType
  <2>5. place[x] = Cardinality(Below(x)) + 1
    OBVIOUS
  <2> HIDE DEF place, n
  <2> QED
    BY <1>1, <2>3, <2>4, <2>5
<1>3. ASSUME NEW x \in S, NEW y \in S, <<x, y>> \in R
      PROVE  place[x] < place[y]
  <2>1. Below(x) \cup {x} \in SUBSET Below(y) /\ x \notin Below(x)
    BY <1>3 DEF TotalOrder
  <2>2. IsFiniteSet(Below(x)) /\ IsFiniteSet(Below(y)) /\ Cardinality(Below(x)) \in Nat
        /\ Cardinality(Below(y)) \in Nat
    BY <1>2
  <2>3. place[x] = Cardinality(Below(x)) + 1 /\ place[y] = Cardinality(Below(y)) + 1
    OBVIOUS
  <2> HIDE DEF Below, place
  <2>4. Cardinality(Below(x) \cup {x}) = Cardinality(Below(x)) + 1
    BY <2>1, <2>2, FS_AddElement
  <2>5. Cardinality(Below(x) \cup {x}) <= Cardinality(Below(y))
    BY <2>1, <2>2, FS_Subset
  <2> QED
    BY <2>2, <2>3, <2>4, <2>5
<1>4. place \in [S -> 1..n]
  BY <1>2
<1> HIDE DEF place, n
<1>5. ASSUME NEW x \in S, NEW y \in S, place[x] = place[y]
      PROVE  x = y
  <2>1. place[x] \in Int /\ place[y] \in Int
    BY <1>4
  <2>2. ~(<<x, y>> \in R) /\ ~(<<y, x>> \in R)
    BY <1>3, <1>5, <2>1
  <2> QED
    BY <2>2 DEF TotalOrder
<1>6. place \in Surjection(S, 1..n)
  <2>1. place \in Injection(S, 1..n)
    BY <1>4, <1>5 DEF Injection, IsInjective
  <2>2. IsFiniteSet(1..n) /\ Cardinality(1..n) = n
    BY <1>1, FS_Interval
  <2>3. Cardinality(S) = Cardinality(1..n)
    BY <2>2 DEF n
  <2> QED
    BY <2>1, <2>2, <2>3, FS_Injection
<1>7. \A i \in 1..n : \E x \in S : place[x] = i
  BY <1>6 DEF Surjection
<1> DEFINE seq == [i \in 1..n |-> CHOOSE x \in S : place[x] = i]
<1>8. \A i \in 1..n : seq[i] \in S /\ place[seq[i]] = i
  BY <1>7
<1>9. seq \in [1..n -> S] /\ DOMAIN seq = 1..n
  BY <1>8
<1> HIDE DEF seq
<1>10. \A i, j \in 1..n : i # j => seq[i] # seq[j]
  BY <1>8
<1>11. seq \in SetToSeqs(S)
  BY <1>9, <1>10 DEF SetToSeqs, n
<1>12. ASSUME NEW i \in 1..n, NEW j \in 1..n, i < j
       PROVE  <<seq[i], seq[j]>> \in R
  <2>1. seq[i] \in S /\ seq[j] \in S /\ seq[i] # seq[j] /\ place[seq[i]] = i /\ place[seq[j]] = j
    BY <1>8, <1>10, <1>12
  <2>2. ~(<<seq[j], seq[i]>> \in R)
    <3>1. <<seq[j], seq[i]>> \in R => place[seq[j]] < place[seq[i]]
      BY <1>3, <2>1
    <3> QED
      BY <1>12, <2>1, <3>1
  <2> QED
    BY <2>1, <2>2 DEF TotalOrder
<1> QED
  BY <1>9, <1>11, <1>12

\* A sequence of all elements of a finite set has each of them once.
LEMMA AllElementsOnce ==
  ASSUME NEW S, IsFiniteSet(S), NEW seq \in SetToSeqs(S)
  PROVE  /\ seq \in Seq(S) /\ Len(seq) = Cardinality(S) /\ IsInjective(seq) /\ ToSet(seq) = S
<1> DEFINE n == Cardinality(S)
<1>1. n \in Nat /\ IsFiniteSet(1..n) /\ Cardinality(1..n) = n
  <2>1. n \in Nat
    BY FS_CardinalityType
  <2> QED
    BY <2>1, FS_Interval
<1>2. seq \in [1..n -> S] /\ \A i, j \in 1..n : i # j => seq[i] # seq[j]
  BY DEF SetToSeqs
<1>3. seq \in Injection(1..n, S)
  BY <1>2 DEF Injection, IsInjective
<1> HIDE DEF n
<1>4. Cardinality(1..n) = Cardinality(S)
  BY <1>1 DEF n
<1>5. seq \in Surjection(1..n, S)
  BY <1>3, <1>4, FS_Injection
<1>6. \A x \in S : \E i \in 1..n : seq[i] = x
  BY <1>5 DEF Surjection
<1>7. seq \in Seq(S) /\ Len(seq) = n /\ DOMAIN seq = 1..n
  BY <1>1, <1>2
<1>8. ToSet(seq) = S
  BY <1>2, <1>6, <1>7 DEF ToSet
<1>9. IsInjective(seq)
  BY <1>2, <1>7 DEF IsInjective
<1> QED
  BY <1>7, <1>8, <1>9 DEF n

\* The first elements of a sequence.
LEMMA ShortenedIsPrefix ==
  ASSUME NEW S, NEW seq \in Seq(S), NEW limit \in Nat
  PROVE  /\ Shortened(seq, limit) \in Seq(S) /\ Len(Shortened(seq, limit)) <= limit
         /\ Len(Shortened(seq, limit)) \in Nat /\ Len(Shortened(seq, limit)) <= Len(seq)
         /\ \A n \in 1..Len(Shortened(seq, limit)) : Shortened(seq, limit)[n] = seq[n]
         /\ \A n \in DOMAIN seq : n <= limit => n \in 1..Len(Shortened(seq, limit))
<1> DEFINE m == Min({Len(seq), limit})
<1>1. Len(seq) \in Nat /\ DOMAIN seq = 1..Len(seq) /\ \A i \in 1..Len(seq) : seq[i] \in S
  <2>1. Len(seq) \in Nat /\ DOMAIN seq = 1..Len(seq)
    BY LenProperties
  <2> QED
    BY <2>1
<1>2. m = IF Len(seq) <= limit THEN Len(seq) ELSE limit
  BY <1>1, MinOfTwo
<1>3. m \in Nat /\ m <= limit /\ m <= Len(seq)
  BY <1>1, <1>2
<1> HIDE DEF m
<1>4. \A i \in 1..m : seq[i] \in S
  BY <1>1, <1>3
<1> DEFINE s == SubSeq(seq, 1, m)
<1>5. s \in Seq(S) /\ Len(s) = (IF 1 <= m THEN m - 1 + 1 ELSE 0)
      /\ \A i \in 1..(m - 1 + 1) : s[i] = seq[1 + i - 1]
  BY <1>3, <1>4, SubSeqProperties
<1> HIDE DEF s
<1>6. Len(s) = m /\ \A i \in 1..m : s[i] = seq[i]
  BY <1>3, <1>5
<1>7. Shortened(seq, limit) = s
  BY DEF Shortened, s, m
<1>8. \A i \in DOMAIN seq : i <= limit => i \in 1..m
  BY <1>1, <1>2
<1> QED
  BY <1>3, <1>5, <1>6, <1>7, <1>8

LEMMA Products ==
  /\ \A x, y, z \in Nat : x <= y => x * z <= y * z
  /\ \A x, y, z \in Nat : x < y /\ z # 0 => x * z < y * z
  /\ \A x, y, z \in Nat : (x * y) * z = (x * z) * y
  /\ \A x, y, z \in Nat : (x * y) * z = (z * y) * x
  /\ \A x, y \in Nat : x * y \in Nat
<1>1. \A x, y, z \in Nat : x <= y => x * z <= y * z
  BY SMT
<1>2. \A x, y, z \in Nat : x < y /\ z # 0 => x * z < y * z
  BY SMT
<1>3. \A x, y, z \in Nat : (x * y) * z = (x * z) * y
  BY SMT
<1>4. \A x, y, z \in Nat : (x * y) * z = (z * y) * x
  BY SMT
<1>5. \A x, y \in Nat : x * y \in Nat
  BY SMT
<1> QED
  BY <1>1, <1>2, <1>3, <1>4, <1>5

\* Fractions a/b, c/d and e/f in descending order.
LEMMA FractionsDescend ==
  ASSUME NEW a \in Nat, NEW b \in Nat, NEW c \in Nat, NEW d \in Nat, NEW e \in Nat, NEW f \in Nat,
         b # 0, d # 0, f # 0, ~(a * d < c * b), ~(c * f < e * d)
  PROVE  /\ ~(a * f < e * b)
         /\ a * d > c * b \/ c * f > e * d => a * f > e * b
  BY SMT

\* The order of two entries with scores a/b and c/d, better ranks m and n, and chunks p and q.
Precedes(a, b, m, p, c, d, n, q) ==
  a * d > c * b \/ (~(c * b > a * d) /\ (m < n \/ (m = n /\ p < q)))

LEMMA PrecedesIsTransitive ==
  ASSUME NEW a \in Nat, NEW b \in Nat, NEW m \in Nat, NEW p \in Nat,
         NEW c \in Nat, NEW d \in Nat, NEW n \in Nat, NEW q \in Nat,
         NEW e \in Nat, NEW f \in Nat, NEW o \in Nat, NEW r \in Nat,
         b # 0, d # 0, f # 0, Precedes(a, b, m, p, c, d, n, q), Precedes(c, d, n, q, e, f, o, r)
  PROVE  Precedes(a, b, m, p, e, f, o, r)
<1> DEFINE ad == a * d
           cb == c * b
           cf == c * f
           ed == e * d
           af == a * f
           eb == e * b
<1>1. ad \in Nat /\ cb \in Nat /\ cf \in Nat /\ ed \in Nat /\ af \in Nat /\ eb \in Nat
  BY Products
<1>2. /\ ad > cb \/ (~(cb > ad) /\ (m < n \/ (m = n /\ p < q)))
      /\ cf > ed \/ (~(ed > cf) /\ (n < o \/ (n = o /\ q < r)))
  BY DEF Precedes
<1>3. ~(ad < cb) /\ ~(cf < ed) => ~(af < eb) /\ (ad > cb \/ cf > ed => af > eb)
  BY FractionsDescend
<1> HIDE DEF ad, cb, cf, ed, af, eb
<1>4. af > eb \/ (~(eb > af) /\ (m < o \/ (m = o /\ p < r)))
  BY <1>1, <1>2, <1>3
<1> QED
  BY <1>4 DEF Precedes, af, eb

LEMMA PrecedesIsTotal ==
  ASSUME NEW a \in Nat, NEW b \in Nat, NEW m \in Nat, NEW p \in Nat,
         NEW c \in Nat, NEW d \in Nat, NEW n \in Nat, NEW q \in Nat, p # q
  PROVE  Precedes(a, b, m, p, c, d, n, q) \/ Precedes(c, d, n, q, a, b, m, p)
<1> DEFINE ad == a * d
           cb == c * b
<1>1. ad \in Nat /\ cb \in Nat
  BY Products
<1> HIDE DEF ad, cb
<1>2. \/ ad > cb \/ (~(cb > ad) /\ (m < n \/ (m = n /\ p < q)))
      \/ cb > ad \/ (~(ad > cb) /\ (n < m \/ (n = m /\ q < p)))
  BY <1>1
<1> QED
  BY <1>2 DEF Precedes, ad, cb

\* What the two routes found, with the ranks there.
Entries(sparse, dense) == {Ranked(c, sparse, dense) : c \in ToSet(sparse) \cup ToSet(dense)}

IsEntry(r) ==
  /\ r = [chunk |-> r.chunk, sparse_rank |-> r.sparse_rank, dense_rank |-> r.dense_rank]
  /\ r.chunk \in Nat /\ r.sparse_rank \in Nat /\ r.dense_rank \in Nat
  /\ r.sparse_rank # Missing \/ r.dense_rank # Missing

LEMMA EntriesAreEntries ==
  ASSUME NEW sparse \in Seq(Nat), NEW dense \in Seq(Nat), NEW r \in Entries(sparse, dense)
  PROVE  /\ IsEntry(r) /\ r = Ranked(r.chunk, sparse, dense)
         /\ r.chunk \in ToSet(sparse) \cup ToSet(dense)
         /\ r.chunk \in ToSet(sparse) => r.sparse_rank \in DOMAIN sparse /\ sparse[r.sparse_rank] = r.chunk
         /\ r.chunk \notin ToSet(sparse) => r.sparse_rank = Missing
         /\ r.chunk \in ToSet(dense) => r.dense_rank \in DOMAIN dense /\ dense[r.dense_rank] = r.chunk
         /\ r.chunk \notin ToSet(dense) => r.dense_rank = Missing
<1>1. PICK c \in ToSet(sparse) \cup ToSet(dense) : r = Ranked(c, sparse, dense)
  BY DEF Entries
<1>2. r = [chunk |-> c, sparse_rank |-> RankIn(sparse, c), dense_rank |-> RankIn(dense, c)]
  BY <1>1 DEF Ranked
<1>3. r.chunk = c /\ r.sparse_rank = RankIn(sparse, c) /\ r.dense_rank = RankIn(dense, c)
  BY <1>2
<1>4. DOMAIN sparse = 1..Len(sparse) /\ DOMAIN dense = 1..Len(dense)
      /\ Len(sparse) \in Nat /\ Len(dense) \in Nat
  BY LenProperties
<1>5. c \in Nat
  <2>1. (\A i \in DOMAIN sparse : sparse[i] \in Nat) /\ (\A i \in DOMAIN dense : dense[i] \in Nat)
    OBVIOUS
  <2> QED
    BY <2>1 DEF ToSet
<1>6. /\ c \in ToSet(sparse) => RankIn(sparse, c) \in DOMAIN sparse /\ sparse[RankIn(sparse, c)] = c
      /\ c \notin ToSet(sparse) => RankIn(sparse, c) = Missing
  BY RankTells
<1>7. /\ c \in ToSet(dense) => RankIn(dense, c) \in DOMAIN dense /\ dense[RankIn(dense, c)] = c
      /\ c \notin ToSet(dense) => RankIn(dense, c) = Missing
  BY RankTells
<1>8. /\ r.sparse_rank \in Nat /\ r.dense_rank \in Nat
      /\ r.sparse_rank # Missing \/ r.dense_rank # Missing
  BY <1>1, <1>3, <1>4, <1>6, <1>7 DEF Missing
<1>9. IsEntry(r)
  BY <1>2, <1>3, <1>5, <1>8 DEF IsEntry
<1> QED
  BY <1>1, <1>3, <1>6, <1>7, <1>9

\* The numbers by which an entry is compared.
LEMMA EntryNumbers ==
  ASSUME NEW r, IsEntry(r), NEW k \in Nat \ {0}
  PROVE  /\ Score(r, k).num \in Nat /\ Score(r, k).den \in Nat /\ Score(r, k).den # 0
         /\ Min(RanksOf(r)) \in Nat
<1> DEFINE a == r.sparse_rank
           b == r.dense_rank
<1>1. a \in Nat /\ b \in Nat /\ (a # 0 \/ b # 0)
  BY DEF IsEntry, Missing
<1>2. Score(r, k) = IF 0 \in {a, b} THEN [num |-> 1, den |-> k + a + b]
                    ELSE [num |-> 2 * k + a + b, den |-> (k + a) * (k + b)]
  BY DEF Score, Missing
<1>3. RanksOf(r) \subseteq Nat /\ RanksOf(r) # {}
  BY <1>1 DEF RanksOf, Missing
<1>4. Min(RanksOf(r)) \in Nat
  BY <1>3, LeastIsThere
<1> HIDE DEF a, b
<1>5. CASE 0 \in {a, b}
  <2>1. Score(r, k).num = 1 /\ Score(r, k).den = k + a + b
    BY <1>2, <1>5
  <2> QED
    BY <1>1, <1>4, <2>1
<1>6. CASE ~(0 \in {a, b})
  <2>1. Score(r, k).num = 2 * k + a + b /\ Score(r, k).den = (k + a) * (k + b)
    BY <1>2, <1>6
  <2>2. k + a \in Nat /\ k + b \in Nat /\ k + a # 0 /\ k + b # 0 /\ 2 * k + a + b \in Nat
    BY <1>1
  <2>3. \A x, y \in Nat : x # 0 /\ y # 0 => x * y \in Nat /\ x * y # 0
    BY SMT
  <2> QED
    BY <1>4, <2>1, <2>2, <2>3
<1> QED
  BY <1>5, <1>6

LEMMA FusedBeforeIs ==
  ASSUME NEW r, NEW s, NEW k
  PROVE  FusedBefore(k, r, s) <=>
           Precedes(Score(r, k).num, Score(r, k).den, Min(RanksOf(r)), r.chunk,
                    Score(s, k).num, Score(s, k).den, Min(RanksOf(s)), s.chunk)
  BY DEF FusedBefore, Precedes, Greater

\* The entries of a fusion are totally ordered.
LEMMA FusionOrders ==
  ASSUME NEW sparse \in Seq(Nat), NEW dense \in Seq(Nat), NEW k \in Nat \ {0}
  PROVE  TotalOrder({p \in Entries(sparse, dense) \X Entries(sparse, dense) :
                       FusedBefore(k, p[1], p[2])}, Entries(sparse, dense))
<1> DEFINE S == Entries(sparse, dense)
           R == {p \in S \X S : FusedBefore(k, p[1], p[2])}
<1>1. ASSUME NEW r \in S
      PROVE  /\ r.chunk \in Nat /\ Score(r, k).num \in Nat /\ Score(r, k).den \in Nat
             /\ Score(r, k).den # 0 /\ Min(RanksOf(r)) \in Nat
             /\ r = Ranked(r.chunk, sparse, dense)
  <2>1. IsEntry(r) /\ r = Ranked(r.chunk, sparse, dense)
    BY EntriesAreEntries
  <2>2. r.chunk \in Nat
    BY <2>1 DEF IsEntry
  <2> QED
    BY <2>1, <2>2, EntryNumbers
<1> HIDE DEF S
<1>2. \A x, y \in S : <<x, y>> \in R <=> FusedBefore(k, x, y)
  OBVIOUS
<1> HIDE DEF R
<1>3. ASSUME NEW x \in S PROVE <<x, x>> \notin R
  <2>1. ~FusedBefore(k, x, x)
    <3> DEFINE a == Score(x, k).num * Score(x, k).den
    <3>1. a \in Nat
      BY <1>1, Products
    <3> HIDE DEF a
    <3>2. ~(a > a) /\ ~(Min(RanksOf(x)) < Min(RanksOf(x))) /\ ~(x.chunk < x.chunk)
      BY <1>1, <3>1
    <3> QED
      BY <3>2, FusedBeforeIs DEF Precedes, a
  <2> QED
    BY <1>2, <2>1
<1>4. ASSUME NEW x \in S, NEW y \in S, NEW z \in S, <<x, y>> \in R, <<y, z>> \in R
      PROVE  <<x, z>> \in R
  <2>1. FusedBefore(k, x, y) /\ FusedBefore(k, y, z)
    BY <1>2, <1>4
  <2>2. FusedBefore(k, x, z)
    BY <1>1, <2>1, FusedBeforeIs, PrecedesIsTransitive
  <2> QED
    BY <1>2, <2>2
<1>5. ASSUME NEW x \in S, NEW y \in S, x # y
      PROVE  <<x, y>> \in R \/ <<y, x>> \in R
  <2>1. x.chunk # y.chunk
    BY <1>1, <1>5
  <2>2. FusedBefore(k, x, y) \/ FusedBefore(k, y, x)
    BY <1>1, <2>1, FusedBeforeIs, PrecedesIsTotal
  <2> QED
    BY <1>2, <2>2
<1>6. TotalOrder(R, S)
  BY <1>3, <1>4, <1>5 DEF TotalOrder
<1> QED
  BY <1>6 DEF R, S

\* 1/u + 1/v is more than 1/w + 1/x when u and v are no more than w and x, and not both the same.
LEMMA SumsOfRanks ==
  ASSUME NEW u \in Nat \ {0}, NEW v \in Nat \ {0}, NEW w \in Nat \ {0}, NEW x \in Nat \ {0},
         u <= w, v <= x, u # w \/ v # x
  PROVE  (u + v) * (w * x) > (w + x) * (u * v)
<1>1. (u + v) * (w * x) = (x * w) * u + (w * x) * v
  BY SMT
<1>2. (w + x) * (u * v) = (v * w) * u + (u * x) * v
  BY SMT
<1>3. v * w <= x * w /\ (v # x => v * w < x * w)
  BY Products
<1>4. u * x <= w * x /\ (u # w => u * x < w * x)
  BY Products
<1> DEFINE vw == v * w
           xw == x * w
           ux == u * x
           wx == w * x
<1>5. vw \in Nat /\ xw \in Nat /\ ux \in Nat /\ wx \in Nat
  BY Products
<1>6. vw <= xw /\ (v # x => vw < xw) /\ ux <= wx /\ (u # w => ux < wx)
  BY <1>3, <1>4
<1> HIDE DEF vw, xw, ux, wx
<1>7. vw * u <= xw * u /\ (v # x => vw * u < xw * u)
  BY <1>5, <1>6, Products
<1>8. ux * v <= wx * v /\ (u # w => ux * v < wx * v)
  BY <1>5, <1>6, Products
<1> DEFINE a == vw * u
           b == xw * u
           c == ux * v
           d == wx * v
<1>9. a \in Nat /\ b \in Nat /\ c \in Nat /\ d \in Nat
  BY <1>5, Products
<1>10. a <= b /\ (v # x => a < b) /\ c <= d /\ (u # w => c < d)
  BY <1>7, <1>8
<1> HIDE DEF a, b, c, d
<1>11. b + d > a + c
  BY <1>9, <1>10
<1>12. (u + v) * (w * x) = b + d /\ (w + x) * (u * v) = a + c
  BY <1>1, <1>2 DEF a, b, c, d, vw, xw, ux, wx
<1> QED
  BY <1>11, <1>12

\* 1/u + 1/v is more than 1/w when u is no more than w.
LEMMA SumOfTwo ==
  ASSUME NEW u \in Nat \ {0}, NEW v \in Nat \ {0}, NEW w \in Nat \ {0}, u <= w
  PROVE  (u + v) * w > 1 * (u * v)
<1>1. (u + v) * w = u * w + v * w /\ u * v = v * u
  BY SMT
<1>2. v * u <= v * w
  BY SMT
<1>3. u * w \in Nat /\ u * w # 0
  BY SMT
<1> DEFINE uw == u * w
           vw == v * w
           vu == v * u
           uv == u * v
<1>4. uw \in Nat /\ vw \in Nat /\ vu \in Nat /\ uv \in Nat
  BY Products
<1> HIDE DEF uw, vw, vu, uv
<1>5. uw # 0 /\ vu <= vw /\ uv = vu /\ (u + v) * w = uw + vw
  BY <1>1, <1>2, <1>3 DEF uw, vw, vu, uv
<1>6. 1 * uv = uv
  BY <1>4
<1>7. uw + vw > 1 * uv
  BY <1>4, <1>5, <1>6
<1> QED
  BY <1>5, <1>7 DEF uv

NoWorse(a, b) == a = b \/ (a # Missing /\ (b = Missing \/ a <= b))

\* Better ranks mean a higher score.
LEMMA BetterRanksScoreHigher ==
  ASSUME NEW r, IsEntry(r), NEW t, IsEntry(t), NEW k \in Nat \ {0},
         NoWorse(r.sparse_rank, t.sparse_rank), NoWorse(r.dense_rank, t.dense_rank),
         r.sparse_rank # t.sparse_rank \/ r.dense_rank # t.dense_rank
  PROVE  Greater(Score(r, k), Score(t, k))
<1> DEFINE a == r.sparse_rank
           b == r.dense_rank
           c == t.sparse_rank
           d == t.dense_rank
           m == Score(r, k)
           n == Score(t, k)
<1>1. /\ a \in Nat /\ b \in Nat /\ (a # 0 \/ b # 0)
      /\ c \in Nat /\ d \in Nat /\ (c # 0 \/ d # 0)
  BY DEF IsEntry, Missing
<1>2. /\ a = c \/ (a # 0 /\ (c = 0 \/ a <= c))
      /\ b = d \/ (b # 0 /\ (d = 0 \/ b <= d))
      /\ a # c \/ b # d
  BY DEF NoWorse, Missing
<1>3. m = IF 0 \in {a, b} THEN [num |-> 1, den |-> k + a + b]
          ELSE [num |-> 2 * k + a + b, den |-> (k + a) * (k + b)]
  BY DEF Score, Missing
<1>4. n = IF 0 \in {c, d} THEN [num |-> 1, den |-> k + c + d]
          ELSE [num |-> 2 * k + c + d, den |-> (k + c) * (k + d)]
  BY DEF Score, Missing
<1> HIDE DEF a, b, c, d, m, n
<1> DEFINE u == k + a
           v == k + b
           w == k + c
           x == k + d
<1>5. u \in Nat \ {0} /\ v \in Nat \ {0} /\ w \in Nat \ {0} /\ x \in Nat \ {0}
  BY <1>1
<1>6. m.num * n.den > n.num * m.den
  <2>1. CASE a # 0 /\ b # 0 /\ c # 0 /\ d # 0
    <3>1. m.num = u + v /\ m.den = u * v /\ n.num = w + x /\ n.den = w * x
      <4>1. m.num = 2 * k + a + b /\ m.den = u * v /\ n.num = 2 * k + c + d /\ n.den = w * x
        BY <1>3, <1>4, <2>1
      <4>2. 2 * k + a + b = u + v /\ 2 * k + c + d = w + x
        BY <1>1
      <4> QED
        BY <4>1, <4>2
    <3>2. u <= w /\ v <= x /\ (u # w \/ v # x)
      BY <1>1, <1>2, <2>1
    <3> HIDE DEF u, v, w, x
    <3> QED
      BY <1>5, <3>1, <3>2, SumsOfRanks
  <2>2. CASE a # 0 /\ b # 0 /\ c # 0 /\ d = 0
    <3>1. m.num = u + v /\ m.den = u * v /\ n.num = 1 /\ n.den = w
      <4>1. m.num = 2 * k + a + b /\ m.den = u * v /\ n.num = 1 /\ n.den = k + c + d
        BY <1>3, <1>4, <2>2
      <4>2. 2 * k + a + b = u + v /\ k + c + d = w
        BY <1>1, <2>2
      <4> QED
        BY <4>1, <4>2
    <3>2. u <= w
      BY <1>1, <1>2, <2>2
    <3> HIDE DEF u, v, w, x
    <3> QED
      BY <1>5, <3>1, <3>2, SumOfTwo
  <2>3. CASE a # 0 /\ b # 0 /\ c = 0 /\ d # 0
    <3>1. m.num = v + u /\ m.den = v * u /\ n.num = 1 /\ n.den = x
      <4>1. m.num = 2 * k + a + b /\ m.den = u * v /\ n.num = 1 /\ n.den = k + c + d
        BY <1>3, <1>4, <2>3
      <4>2. 2 * k + a + b = v + u /\ k + c + d = x
        BY <1>1, <2>3
      <4>3. u * v = v * u
        BY <1>5, SMT
      <4> QED
        BY <4>1, <4>2, <4>3
    <3>2. v <= x
      BY <1>1, <1>2, <2>3
    <3> HIDE DEF u, v, w, x
    <3> QED
      BY <1>5, <3>1, <3>2, SumOfTwo
  <2>4. CASE b = 0 /\ d = 0
    <3>1. m.num = 1 /\ m.den = k + a + b /\ n.num = 1 /\ n.den = k + c + d
      BY <1>3, <1>4, <2>4
    <3>2. a < c
      BY <1>1, <1>2, <2>4
    <3>3. 1 * (k + c + d) > 1 * (k + a + b)
      BY <1>1, <2>4, <3>2
    <3> QED
      BY <3>1, <3>3
  <2>5. CASE a = 0 /\ c = 0
    <3>1. m.num = 1 /\ m.den = k + a + b /\ n.num = 1 /\ n.den = k + c + d
      BY <1>3, <1>4, <2>5
    <3>2. b < d
      BY <1>1, <1>2, <2>5
    <3>3. 1 * (k + c + d) > 1 * (k + a + b)
      BY <1>1, <2>5, <3>2
    <3> QED
      BY <3>1, <3>3
  <2> QED
    BY <1>1, <1>2, <2>1, <2>2, <2>3, <2>4, <2>5
<1> QED
  BY <1>6 DEF Greater, m, n

\* An entry that another one dominates comes after it.
LEMMA DominantComesBefore ==
  ASSUME NEW sparse \in Seq(Nat), NEW dense \in Seq(Nat), NEW k \in Nat \ {0},
         NEW r \in Entries(sparse, dense), NEW t \in Entries(sparse, dense), Dominates(r, t)
  PROVE  FusedBefore(k, r, t)
<1>1. NoWorse(r.sparse_rank, t.sparse_rank) /\ NoWorse(r.dense_rank, t.dense_rank) /\ r # t
  BY DEF Dominates, NoWorse
<1>2. /\ IsEntry(r) /\ r = Ranked(r.chunk, sparse, dense)
      /\ r.sparse_rank # Missing => sparse[r.sparse_rank] = r.chunk
      /\ r.dense_rank # Missing => dense[r.dense_rank] = r.chunk
  BY EntriesAreEntries
<1>3. /\ IsEntry(t) /\ t = Ranked(t.chunk, sparse, dense)
      /\ t.sparse_rank # Missing => sparse[t.sparse_rank] = t.chunk
      /\ t.dense_rank # Missing => dense[t.dense_rank] = t.chunk
  BY EntriesAreEntries
<1>4. r.sparse_rank # t.sparse_rank \/ r.dense_rank # t.dense_rank
  <2> SUFFICES ASSUME r.sparse_rank = t.sparse_rank, r.dense_rank = t.dense_rank PROVE FALSE
    OBVIOUS
  <2>1. r.sparse_rank # Missing \/ r.dense_rank # Missing
    BY <1>2 DEF IsEntry
  <2>2. r.chunk = t.chunk
    BY <1>2, <1>3, <2>1
  <2> QED
    BY <1>1, <1>2, <1>3, <2>2
<1>5. Greater(Score(r, k), Score(t, k))
  BY <1>1, <1>2, <1>3, <1>4, BetterRanksScoreHigher
<1> QED
  BY <1>5 DEF FusedBefore

LEMMA ElementsAreFinite ==
  ASSUME NEW T, NEW s \in Seq(T)
  PROVE  IsFiniteSet(ToSet(s)) /\ ToSet(s) \subseteq T
<1>1. DOMAIN s = 1..Len(s) /\ Len(s) \in Nat /\ \A i \in DOMAIN s : s[i] \in T
  <2>1. DOMAIN s = 1..Len(s) /\ Len(s) \in Nat
    BY LenProperties
  <2> QED
    BY <2>1
<1> DEFINE f == [i \in 1..Len(s) |-> s[i]]
<1>2. f \in Surjection(1..Len(s), ToSet(s))
  BY <1>1 DEF Surjection, ToSet
<1>3. IsFiniteSet(1..Len(s))
  BY <1>1, FS_Interval
<1> HIDE DEF f
<1>4. IsFiniteSet(ToSet(s))
  BY <1>2, <1>3, FS_Surjection
<1> QED
  BY <1>1, <1>4 DEF ToSet

LEMMA EntriesAreFinite ==
  ASSUME NEW sparse \in Seq(Nat), NEW dense \in Seq(Nat)
  PROVE  IsFiniteSet(Entries(sparse, dense))
<1> DEFINE C == ToSet(sparse) \cup ToSet(dense)
           f == [c \in C |-> Ranked(c, sparse, dense)]
<1>1. IsFiniteSet(C)
  BY ElementsAreFinite, FS_Union
<1>2. f \in Surjection(C, Entries(sparse, dense))
  BY DEF Surjection, Entries
<1> HIDE DEF f, C
<1> QED
  BY <1>1, <1>2, FS_Surjection

IsFused(k, seq) == \A m, n \in DOMAIN seq : m < n => FusedBefore(k, seq[m], seq[n])

\* A fusion is the beginning of all that the routes found, in order.
LEMMA FusionIsInOrder ==
  ASSUME NEW sparse \in Seq(Nat), NEW dense \in Seq(Nat), NEW limit \in Nat, NEW k \in Nat \ {0}
  PROVE  \E all \in Seq(Entries(sparse, dense)) :
           /\ IsInjective(all) /\ ToSet(all) = Entries(sparse, dense)
           /\ \A m, n \in DOMAIN all : m < n => FusedBefore(k, all[m], all[n])
           /\ ReciprocalRankFusion(sparse, dense, limit, k) = Shortened(all, limit)
<1> DEFINE S == Entries(sparse, dense)
           R == {p \in S \X S : FusedBefore(k, p[1], p[2])}
           all == CHOOSE seq \in SetToSeqs(S) : IsFused(k, seq)
<1>1. IsFiniteSet(S)
  BY EntriesAreFinite
<1>2. TotalOrder(R, S)
  BY FusionOrders
<1>3. \A p : p \in R => FusedBefore(k, p[1], p[2])
  OBVIOUS
<1>4. ReciprocalRankFusion(sparse, dense, limit, k) = Shortened(all, limit)
  BY DEF ReciprocalRankFusion, Sorted, Entries, IsFused
<1> HIDE DEF S, R
<1>5. PICK seq \in SetToSeqs(S) : \A m, n \in DOMAIN seq : m < n => <<seq[m], seq[n]>> \in R
  BY <1>1, <1>2, SortedIsThere
<1>6. IsFused(k, seq)
  <2>1. ASSUME NEW m \in DOMAIN seq, NEW n \in DOMAIN seq, m < n
        PROVE  FusedBefore(k, seq[m], seq[n])
    <3> DEFINE p == <<seq[m], seq[n]>>
    <3>1. p \in R
      BY <1>5, <2>1
    <3>2. p[1] = seq[m] /\ p[2] = seq[n]
      OBVIOUS
    <3> HIDE DEF p
    <3>3. FusedBefore(k, p[1], p[2])
      BY <1>3, <3>1
    <3> QED
      BY <3>2, <3>3
  <2> QED
    BY <2>1 DEF IsFused
<1>7. all \in SetToSeqs(S) /\ IsFused(k, all)
  BY <1>6
<1> HIDE DEF all
<1>8. all \in Seq(S) /\ IsInjective(all) /\ ToSet(all) = S
  BY <1>1, <1>7, AllElementsOnce
<1> QED
  BY <1>4, <1>7, <1>8 DEF S, IsFused

AgreesWithRoutes(results, sparse, dense) ==
  \A n \in DOMAIN results : \A c \in ToSet(sparse) \cup ToSet(dense) :
    Dominates(Ranked(c, sparse, dense), results[n]) => \E m \in 1..(n - 1) : results[m].chunk = c

\* Each chunk is in a fusion at most once, and what the routes rank above it comes first.
LEMMA FusionIsFair ==
  ASSUME NEW sparse \in Seq(Nat), NEW dense \in Seq(Nat), NEW limit \in Nat, NEW k \in Nat \ {0},
         NEW results, results = ReciprocalRankFusion(sparse, dense, limit, k)
  PROVE  /\ results \in Seq(Entries(sparse, dense)) /\ Len(results) <= limit
         /\ \A m, n \in DOMAIN results : results[m].chunk = results[n].chunk => m = n
         /\ AgreesWithRoutes(results, sparse, dense)
<1> DEFINE S == Entries(sparse, dense)
<1>1. PICK all \in Seq(S) :
        /\ IsInjective(all) /\ ToSet(all) = S
        /\ \A m, n \in DOMAIN all : m < n => FusedBefore(k, all[m], all[n])
        /\ results = Shortened(all, limit)
  BY FusionIsInOrder
<1>2. \A r \in S : r = Ranked(r.chunk, sparse, dense)
  BY EntriesAreEntries
<1>3. \A c \in ToSet(sparse) \cup ToSet(dense) :
        Ranked(c, sparse, dense) \in S /\ Ranked(c, sparse, dense).chunk = c
  BY DEF Entries, Ranked
<1>4. TotalOrder({p \in S \X S : FusedBefore(k, p[1], p[2])}, S)
  BY FusionOrders
<1>5. \A r, t \in S : ~(FusedBefore(k, r, t) /\ FusedBefore(k, t, r))
  <2> DEFINE R == {p \in S \X S : FusedBefore(k, p[1], p[2])}
  <2>1. \A r, t \in S : FusedBefore(k, r, t) => <<r, t>> \in R
    BY Zenon
  <2>2. TotalOrder(R, S)
    BY <1>4
  <2> HIDE DEF R, S
  <2> QED
    BY <2>1, <2>2 DEF TotalOrder
<1>6. \A r, t \in S : Dominates(r, t) => FusedBefore(k, r, t)
  BY DominantComesBefore
<1> HIDE DEF S
<1>7. /\ results \in Seq(S) /\ Len(results) <= limit /\ Len(results) \in Nat
      /\ Len(results) <= Len(all) /\ \A n \in 1..Len(results) : results[n] = all[n]
  BY <1>1, ShortenedIsPrefix
<1>8. DOMAIN results = 1..Len(results) /\ DOMAIN all = 1..Len(all) /\ Len(all) \in Nat
  BY <1>1, <1>7, LenProperties
<1>9. \A n \in DOMAIN results : n \in DOMAIN all /\ results[n] = all[n] /\ results[n] \in S
  BY <1>7, <1>8
<1>10. ASSUME NEW m \in DOMAIN results, NEW n \in DOMAIN results, results[m].chunk = results[n].chunk
       PROVE  m = n
  <2>1. results[m] = results[n]
    BY <1>2, <1>9, <1>10
  <2> QED
    BY <1>1, <1>9, <2>1 DEF IsInjective
<1>11. ASSUME NEW n \in DOMAIN results, NEW c \in ToSet(sparse) \cup ToSet(dense),
              Dominates(Ranked(c, sparse, dense), results[n])
       PROVE  \E m \in 1..(n - 1) : results[m].chunk = c
  <2> DEFINE r == Ranked(c, sparse, dense)
  <2>1. r \in S /\ r.chunk = c
    BY <1>3
  <2>2. FusedBefore(k, r, results[n])
    BY <1>6, <1>9, <1>11, <2>1
  <2> HIDE DEF r
  <2>3. PICK m \in DOMAIN all : all[m] = r
    BY <1>1, <2>1 DEF ToSet
  <2>4. ~FusedBefore(k, results[n], r)
    BY <1>5, <1>9, <2>1, <2>2
  <2>5. ~(n < m)
    BY <1>1, <1>9, <2>3, <2>4
  <2>6. m # n
    BY <1>9, <2>2, <2>3, <2>4
  <2>7. m \in 1..(n - 1) /\ m \in DOMAIN results
    BY <1>7, <1>8, <2>5, <2>6
  <2> QED
    BY <1>9, <2>1, <2>3, <2>7
<1> QED
  BY <1>7, <1>10, <1>11 DEF S, AgreesWithRoutes

\* A route's ranking has each chunk at most once, and no more than it may.
LEMMA RankingsAreShort ==
  ASSUME NEW chunks, IsFiniteSet(chunks), NEW limit \in Nat, NEW r \in Rankings(chunks, limit)
  PROVE  r \in Seq(chunks) /\ Len(r) <= limit /\ IsInjective(r)
<1> DEFINE n == Min({limit, Cardinality(chunks)})
<1>1. Cardinality(chunks) \in Nat
  BY FS_CardinalityType
<1>2. n = IF limit <= Cardinality(chunks) THEN limit ELSE Cardinality(chunks)
  BY <1>1, MinOfTwo
<1>3. n \in Nat /\ n <= limit
  BY <1>1, <1>2
<1>4. r \in [1..n -> chunks] /\ IsInjective(r)
  BY DEF Rankings
<1> HIDE DEF n
<1> QED
  BY <1>3, <1>4

\* The candidates keep their place where the reranker scores them alike.
RerankedBefore(candidates, score, i, j) ==
  \/ score[candidates[i].chunk] > score[candidates[j].chunk]
  \/ score[candidates[i].chunk] = score[candidates[j].chunk] /\ i < j

IsReordered(candidates, score, order) ==
  \A m, n \in DOMAIN order : m < n => RerankedBefore(candidates, score, order[m], order[n])

HaveChunksOnce(results) ==
  \A m, n \in DOMAIN results : results[m].chunk = results[n].chunk => m = n

\* What is reordered was a candidate, once.
LEMMA RerankingKeeps ==
  ASSUME NEW T, NEW candidates \in Seq(T), HaveChunksOnce(candidates),
         NEW score \in [{r.chunk : r \in ToSet(candidates)} -> 0..1], NEW limit \in Nat,
         NEW results, results = ReorderRerankResults(candidates, score, limit)
  PROVE  /\ results \in Seq(T) /\ Len(results) <= limit /\ HaveChunksOnce(results)
         /\ ToSet(results) \subseteq ToSet(candidates)
<1> DEFINE S == {i \in DOMAIN candidates : candidates[i].chunk \in DOMAIN score}
           R == {p \in S \X S : RerankedBefore(candidates, score, p[1], p[2])}
           order == CHOOSE seq \in SetToSeqs(S) : IsReordered(candidates, score, seq)
           all == [n \in DOMAIN order |-> candidates[order[n]]]
<1>1. results = Shortened(all, limit)
  BY DEF ReorderRerankResults, Sorted, IsReordered, RerankedBefore
<1>2. DOMAIN candidates = 1..Len(candidates) /\ Len(candidates) \in Nat
      /\ \A i \in DOMAIN candidates : candidates[i] \in T
  <2>1. DOMAIN candidates = 1..Len(candidates) /\ Len(candidates) \in Nat
    BY LenProperties
  <2> QED
    BY <2>1
<1>3. IsFiniteSet(S) /\ S \subseteq DOMAIN candidates /\ S \subseteq Nat
  <2>1. IsFiniteSet(DOMAIN candidates)
    BY <1>2, FS_Interval
  <2>2. S \in SUBSET DOMAIN candidates
    OBVIOUS
  <2> HIDE DEF S
  <2>3. IsFiniteSet(S)
    BY <2>1, <2>2, FS_Subset
  <2> QED
    BY <1>2, <2>2, <2>3
<1>4. \A i \in S : score[candidates[i].chunk] \in Int
  OBVIOUS
<1>5. \A p : p \in R <=> p \in S \X S /\ RerankedBefore(candidates, score, p[1], p[2])
  OBVIOUS
<1> HIDE DEF R, S
<1>6. ASSUME NEW i \in S, NEW j \in S
      PROVE  <<i, j>> \in R <=> RerankedBefore(candidates, score, i, j)
  <2> DEFINE p == <<i, j>>
  <2>1. p \in S \X S /\ p[1] = i /\ p[2] = j
    OBVIOUS
  <2> HIDE DEF p
  <2>2. p \in R <=> RerankedBefore(candidates, score, i, j)
    BY <1>5, <2>1
  <2> QED
    BY <2>2 DEF p
<1>7. TotalOrder(R, S)
  <2> DEFINE s == [i \in S |-> score[candidates[i].chunk]]
  <2>1. ASSUME NEW i \in S, NEW j \in S
        PROVE  <<i, j>> \in R <=> (s[i] > s[j] \/ (s[i] = s[j] /\ i < j))
    BY <1>6 DEF RerankedBefore
  <2>2. \A i \in S : i \in Nat /\ s[i] \in Int
    BY <1>3, <1>4
  <2> HIDE DEF s
  <2> QED
    BY <2>1, <2>2 DEF TotalOrder
<1>8. PICK seq \in SetToSeqs(S) : \A m, n \in DOMAIN seq : m < n => <<seq[m], seq[n]>> \in R
  BY <1>3, <1>7, SortedIsThere
<1>9. IsReordered(candidates, score, seq)
  <2>1. seq \in Seq(S)
    BY <1>3, AllElementsOnce
  <2>2. ASSUME NEW m \in DOMAIN seq, NEW n \in DOMAIN seq, m < n
        PROVE  RerankedBefore(candidates, score, seq[m], seq[n])
    <3>1. seq[m] \in S /\ seq[n] \in S
      BY <2>1
    <3> QED
      BY <1>6, <1>8, <2>2, <3>1
  <2> QED
    BY <2>2 DEF IsReordered
<1>10. order \in SetToSeqs(S)
  BY <1>9
<1> HIDE DEF order
<1>11. order \in Seq(S) /\ IsInjective(order)
  BY <1>3, <1>10, AllElementsOnce
<1>12. DOMAIN order = 1..Len(order) /\ Len(order) \in Nat /\ \A n \in DOMAIN order : order[n] \in S
  <2>1. DOMAIN order = 1..Len(order) /\ Len(order) \in Nat
    BY <1>11, LenProperties
  <2> QED
    BY <1>11, <2>1
<1>13. \A n \in DOMAIN order : order[n] \in DOMAIN candidates /\ candidates[order[n]] \in T
  BY <1>2, <1>3, <1>12
<1>14. all \in Seq(T) /\ DOMAIN all = DOMAIN order /\ \A n \in DOMAIN all : all[n] = candidates[order[n]]
  BY <1>12, <1>13
<1> HIDE DEF all
<1>15. /\ results \in Seq(T) /\ Len(results) <= limit /\ Len(results) \in Nat
       /\ Len(results) <= Len(all) /\ \A n \in 1..Len(results) : results[n] = all[n]
  BY <1>1, <1>14, ShortenedIsPrefix
<1>16. DOMAIN results = 1..Len(results) /\ DOMAIN all = 1..Len(all) /\ Len(all) \in Nat
  BY <1>14, <1>15, LenProperties
<1>17. \A n \in DOMAIN results : n \in DOMAIN order /\ results[n] = candidates[order[n]]
  BY <1>14, <1>15, <1>16
<1>18. HaveChunksOnce(results)
  <2>1. ASSUME NEW m \in DOMAIN results, NEW n \in DOMAIN results, results[m].chunk = results[n].chunk
        PROVE  m = n
    <3>1. order[m] = order[n]
      BY <1>13, <1>17, <2>1 DEF HaveChunksOnce
    <3> QED
      BY <1>11, <1>17, <3>1 DEF IsInjective
  <2> QED
    BY <2>1 DEF HaveChunksOnce
<1>19. ToSet(results) \subseteq ToSet(candidates)
  BY <1>13, <1>17 DEF ToSet
<1> QED
  BY <1>15, <1>18, <1>19

\* The results of a search of one route.
LEMMA OneRouteHasChunksOnce ==
  ASSUME NEW ranking \in Seq(Nat), IsInjective(ranking)
  PROVE  /\ OnlySparse(ranking) \in Seq(Entries(ranking, <<>>))
         /\ OnlyDense(ranking) \in Seq(Entries(<<>>, ranking))
         /\ Len(OnlySparse(ranking)) = Len(ranking) /\ Len(OnlyDense(ranking)) = Len(ranking)
         /\ HaveChunksOnce(OnlySparse(ranking)) /\ HaveChunksOnce(OnlyDense(ranking))
<1>1. DOMAIN ranking = 1..Len(ranking) /\ Len(ranking) \in Nat
  BY LenProperties
<1>2. \A n \in DOMAIN ranking : ranking[n] \in ToSet(ranking)
  BY DEF ToSet
<1>3. \A n \in DOMAIN ranking : /\ Ranked(ranking[n], ranking, <<>>) \in Entries(ranking, <<>>)
                                /\ Ranked(ranking[n], <<>>, ranking) \in Entries(<<>>, ranking)
  BY <1>2 DEF Entries
<1>4. \A c, sparse, dense : Ranked(c, sparse, dense).chunk = c
  BY DEF Ranked
<1>5. OnlySparse(ranking) \in Seq(Entries(ranking, <<>>)) /\ Len(OnlySparse(ranking)) = Len(ranking)
  BY <1>1, <1>3 DEF OnlySparse
<1>6. OnlyDense(ranking) \in Seq(Entries(<<>>, ranking)) /\ Len(OnlyDense(ranking)) = Len(ranking)
  BY <1>1, <1>3 DEF OnlyDense
<1>7. HaveChunksOnce(OnlySparse(ranking))
  BY <1>4 DEF HaveChunksOnce, OnlySparse, IsInjective
<1>8. HaveChunksOnce(OnlyDense(ranking))
  BY <1>4 DEF HaveChunksOnce, OnlyDense, IsInjective
<1> QED
  BY <1>5, <1>6, <1>7, <1>8

(***************************************************************************)
(* Searches                                                                 *)
(***************************************************************************)

SearcherFields ==
  {"pc", "client", "loaded", "paths", "found", "sparse", "request", "sparse_results",
   "dense_results", "results", "error"}

Entry == [chunk : Nat, sparse_rank : Nat, dense_rank : Nat]

\* A chunk that only the dense route found is of the source type asked for.
Matches(r, source_type) ==
  r.sparse_rank = Missing => source_type \in {"any", SourceTypes[DocumentOf(r.chunk)]}

ResultsHold(results, source_type, stored, gone) ==
  /\ results \in Seq(Entry) /\ HaveChunksOnce(results)
  /\ \A n \in DOMAIN results :
       Citable(results[n].chunk, stored, gone) /\ Matches(results[n], source_type)

RankingHolds(ranking, stored, gone) ==
  ranking \in Seq(Nat) /\ \A n \in DOMAIN ranking : Citable(ranking[n], stored, gone)

\* While the artifacts are read: what the snapshot names and was not found is still to be read.
LoadHolds(held, stored, gone) ==
  /\ held.paths \in Seq(Documents) /\ held.paths # <<>> /\ IsInjective(held.paths)
  /\ ToSet(held.paths) \subseteq DOMAIN stored
  /\ held.loaded = <<>> =>
       Covered(held.sparse) \cap ToSet(held.paths) = {} /\ ToSet(held.sparse) \subseteq held.found
  /\ gone = {} => \A n \in DOMAIN held.loaded :
       held.loaded[n] \in held.found \/ DocumentOf(held.loaded[n]) \in ToSet(held.paths)

ErrorHolds(error, gone) ==
  error # "artifact_not_found" /\ (error = "unresolved_chunk" => gone # {})

SearchHolds(held, stored, gone) ==
  /\ DOMAIN held = SearcherFields /\ ErrorHolds(held.error, gone)
  /\ IsCorpus(held.sparse, stored, gone) /\ IsCorpus(held.loaded, stored, gone)
  /\ held.pc = "load" => LoadHolds(held, stored, gone)
  /\ held.pc = "dense" /\ held.request.method # "dense" =>
       RankingHolds(held.sparse_results, stored, gone)
  /\ held.pc \in {"rerank", "found"} =>
       ResultsHold(held.results, held.request.source_type, stored, gone)
  /\ held.pc = "rerank" => held.request.method # "hybrid"
  /\ held.pc = "found" => Len(held.results) <= TopK
  /\ held.pc = "found" /\ held.request.method = "hybrid" =>
       /\ held.sparse_results \in Seq(Nat) /\ held.dense_results \in Seq(Nat)
       /\ held.results = ReciprocalRankFusion(held.sparse_results, held.dense_results, TopK, RrfK)

SearchersInv ==
  /\ DOMAIN searcher = Searchers
  /\ \A s \in Searchers : SearchHolds(searcher[s], artifacts, overwritten)

LEMMA SearcherMoves ==
  ASSUME SearchersInv, UNCHANGED disk, NEW s \in Searchers, NEW held, BecomesSearcher(s, held),
         SearchHolds(held, artifacts, overwritten)
  PROVE  SearchersInv'
<1>1. UNCHANGED <<artifacts, overwritten>>
  BY DEF disk
<1>2. DOMAIN searcher' = Searchers /\ searcher'[s] = held
      /\ \A t \in Searchers : t # s => searcher'[t] = searcher[t]
  BY DEF BecomesSearcher, SearchersInv
<1>3. ASSUME NEW t \in Searchers
      PROVE  SearchHolds(searcher'[t], artifacts, overwritten)
  <2>1. CASE t = s
    BY <1>2, <2>1
  <2>2. CASE t # s
    BY <1>2, <2>2 DEF SearchersInv
  <2> QED
    BY <2>1, <2>2
<1> QED
  BY <1>1, <1>2, <1>3, Zenon DEF SearchersInv

\* A searcher between two searches.
LEMMA RestingHolds ==
  ASSUME NEW held, held.pc \notin {"load", "dense", "rerank", "found"},
         DOMAIN held = SearcherFields, ErrorHolds(held.error, overwritten),
         IsCorpus(held.sparse, artifacts, overwritten), held.loaded = <<>>
  PROVE  SearchHolds(held, artifacts, overwritten)
  BY EmptyCorpus DEF SearchHolds

LEMMA FailureHolds ==
  ASSUME SearchersInv, UNCHANGED disk, NEW s \in Searchers, NEW error, ErrorHolds(error, overwritten),
         SearchFails(s, error)
  PROVE  SearchersInv'
<1> DEFINE opened == searcher[s].client = "service" /\ searcher[s].pc \notin {"idle", "load"}
           held == [NoSearcher EXCEPT
                      !.pc = IF opened THEN "open" ELSE "idle", !.error = error,
                      !.sparse = IF opened THEN searcher[s].sparse ELSE <<>>]
<1>1. BecomesSearcher(s, held)
  BY DEF SearchFails
<1>2. /\ held.pc \in {"open", "idle"} /\ held.error = error /\ held.loaded = <<>>
      /\ held.sparse = searcher[s].sparse \/ held.sparse = <<>>
      /\ DOMAIN held = SearcherFields
  BY DEF NoSearcher, SearcherFields
<1> HIDE DEF held
<1>3. IsCorpus(held.sparse, artifacts, overwritten)
  BY <1>2, EmptyCorpus DEF SearchersInv, SearchHolds
<1>4. SearchHolds(held, artifacts, overwritten)
  BY <1>2, <1>3, RestingHolds
<1> QED
  BY <1>1, <1>4, SearcherMoves

LEMMA EndHolds ==
  ASSUME SearchersInv, UNCHANGED disk, NEW s \in Searchers, SearchEnds(s)
  PROVE  SearchersInv'
<1> DEFINE held == [NoSearcher EXCEPT
                      !.pc = IF searcher[s].client = "service" THEN "open" ELSE "idle",
                      !.sparse = IF searcher[s].client = "service" THEN searcher[s].sparse ELSE <<>>]
<1>1. BecomesSearcher(s, held)
  BY DEF SearchEnds
<1>2. /\ held.pc \in {"open", "idle"} /\ held.error = "none" /\ held.loaded = <<>>
      /\ held.sparse = searcher[s].sparse \/ held.sparse = <<>>
      /\ DOMAIN held = SearcherFields
  BY DEF NoSearcher, SearcherFields
<1> HIDE DEF held
<1>3. IsCorpus(held.sparse, artifacts, overwritten)
  BY <1>2, EmptyCorpus DEF SearchersInv, SearchHolds
<1>4. SearchHolds(held, artifacts, overwritten)
  BY <1>2, <1>3, RestingHolds DEF ErrorHolds
<1> QED
  BY <1>1, <1>4, SearcherMoves

LEMMA OpenHolds ==
  ASSUME SourcesInv, SearchersInv, NEW s \in Searchers, Open(s)
  PROVE  SearchersInv'
<1>1. UNCHANGED disk
  BY DEF Open
<1>2. ASSUME NEW request \in Requests({"dense"}),
             BecomesSearcher(s, [NoSearcher EXCEPT !.pc = "dense", !.client = "command",
                                                   !.request = request])
      PROVE  SearchersInv'
  <2> DEFINE held == [NoSearcher EXCEPT !.pc = "dense", !.client = "command", !.request = request]
  <2>1. BecomesSearcher(s, held)
    BY <1>2
  <2>2. /\ held.pc = "dense" /\ held.error = "none" /\ held.loaded = <<>> /\ held.sparse = <<>>
        /\ held.request = request /\ DOMAIN held = SearcherFields
    BY DEF NoSearcher, SearcherFields
  <2>3. request.method = "dense"
    BY DEF Requests
  <2> HIDE DEF held
  <2>4. SearchHolds(held, artifacts, overwritten)
    BY <2>2, <2>3, EmptyCorpus DEF SearchHolds, ErrorHolds
  <2> QED
    BY <1>1, <2>1, <2>4, SearcherMoves
<1>3. ASSUME NEW client, NEW documents,
             documents = IF snapshot # <<>> THEN {DocumentOf(c) : c \in ToSet(snapshot)}
                         ELSE DOMAIN artifacts,
             documents # {}, NEW paths \in Paths(documents),
             BecomesSearcher(s, [NoSearcher EXCEPT !.pc = "load", !.client = client,
                                                   !.loaded = snapshot, !.paths = paths])
      PROVE  SearchersInv'
  <2> DEFINE held == [NoSearcher EXCEPT !.pc = "load", !.client = client,
                                        !.loaded = snapshot, !.paths = paths]
  <2>1. BecomesSearcher(s, held)
    BY <1>3
  <2>2. /\ held.pc = "load" /\ held.error = "none" /\ held.loaded = snapshot /\ held.sparse = <<>>
        /\ held.paths = paths /\ held.found = {} /\ DOMAIN held = SearcherFields
    BY DEF NoSearcher, SearcherFields
  <2> HIDE DEF held
  <2>3. /\ IsCorpus(snapshot, artifacts, overwritten) /\ DOMAIN artifacts \subseteq Documents
        /\ IsFiniteSet(DOMAIN artifacts)
    BY DEF SourcesInv, StoresInv, IndexInv
  <2>4. \A n \in DOMAIN snapshot : DocumentOf(snapshot[n]) \in DOMAIN artifacts
    BY <2>3 DEF IsCorpus, Citable
  <2>5. documents \in SUBSET DOMAIN artifacts
    BY <1>3, <2>4 DEF ToSet
  <2>6. IsFiniteSet(documents) /\ documents \in SUBSET Documents
    BY <2>3, <2>5, FS_Subset
  <2>7. paths \in Seq(Documents) /\ paths # <<>> /\ ToSet(paths) = documents
    BY <1>3, <2>6, PathsListAll
  <2>8. IsInjective(paths)
    BY <1>3, ListedOnce
  <2>9. \A n \in DOMAIN snapshot : DocumentOf(snapshot[n]) \in ToSet(paths)
    <3>1. snapshot # <<>> => \A n \in DOMAIN snapshot : DocumentOf(snapshot[n]) \in documents
      BY <1>3 DEF ToSet
    <3>2. snapshot = <<>> => DOMAIN snapshot = {}
      BY EmptySeq
    <3> QED
      BY <2>7, <3>1, <3>2
  <2>10. LoadHolds(held, artifacts, overwritten)
    BY <2>2, <2>5, <2>7, <2>8, <2>9, EmptyCorpus DEF LoadHolds
  <2>11. SearchHolds(held, artifacts, overwritten)
    BY <2>2, <2>3, <2>10, EmptyCorpus DEF SearchHolds, ErrorHolds
  <2> QED
    BY <1>1, <2>1, <2>11, SearcherMoves
<1>4. ASSUME SearchFails(s, "no_artifacts")
      PROVE  SearchersInv'
  BY <1>1, <1>4, FailureHolds DEF ErrorHolds
<1> QED
  BY <1>2, <1>3, <1>4, Zenon DEF Open

LEMMA WiderSequences ==
  ASSUME NEW S, NEW T, S \subseteq T, NEW s \in Seq(S)
  PROVE  s \in Seq(T) /\ \A n \in DOMAIN s : s[n] \in S
<1>1. DOMAIN s = 1..Len(s) /\ Len(s) \in Nat
  BY LenProperties
<1>2. \A n \in DOMAIN s : s[n] \in S /\ s[n] \in T
  BY <1>1
<1>3. s = [n \in 1..Len(s) |-> s[n]]
  BY <1>1
<1> QED
  BY <1>1, <1>2, <1>3

ChunksNext(held) == ChunksOf[Head(held.paths)][artifacts[Head(held.paths)]]
FoundNext(held) == held.found \cup ToSet(ChunksNext(held))
SparseNext(held) == IF held.loaded = <<>> THEN held.sparse \o ChunksNext(held) ELSE held.loaded

\* What one more artifact adds to what a searcher has read.
LEMMA LoadingOneKeeps ==
  ASSUME SourcesInv, NEW held, LoadHolds(held, artifacts, overwritten),
         IsCorpus(held.sparse, artifacts, overwritten), IsCorpus(held.loaded, artifacts, overwritten)
  PROVE  /\ IsCorpus(SparseNext(held), artifacts, overwritten)
         /\ IsInjective(Tail(held.paths)) /\ Tail(held.paths) \in Seq(Documents)
         /\ ToSet(Tail(held.paths)) \subseteq DOMAIN artifacts
         /\ Tail(held.paths) = <<>> <=> Len(held.paths) = 1
         /\ held.loaded = <<>> =>
              /\ Covered(SparseNext(held)) \cap ToSet(Tail(held.paths)) = {}
              /\ ToSet(SparseNext(held)) \subseteq FoundNext(held)
         /\ overwritten = {} => \A n \in DOMAIN held.loaded :
              \/ held.loaded[n] \in FoundNext(held)
              \/ DocumentOf(held.loaded[n]) \in ToSet(Tail(held.paths))
<1> DEFINE d == Head(held.paths)
           chunks == ChunksNext(held)
           found == FoundNext(held)
           sparse == SparseNext(held)
<1>0. /\ chunks = ChunksOf[d][artifacts[d]] /\ found = held.found \cup ToSet(chunks)
      /\ sparse = IF held.loaded = <<>> THEN held.sparse \o chunks ELSE held.loaded
  BY DEF ChunksNext, FoundNext, SparseNext
<1> DEFINE paths == held.paths
           rest == Tail(paths)
<1>1. paths \in Seq(Documents) /\ paths # <<>> /\ IsInjective(paths)
      /\ ToSet(paths) \subseteq DOMAIN artifacts
  BY DEF LoadHolds
<1>2. d = Head(paths) /\ Tail(held.paths) = rest /\ held.paths = paths
  OBVIOUS
<1> HIDE DEF paths, d, chunks, found, sparse
<1>3. /\ d \in Documents /\ rest \in Seq(Documents) /\ IsInjective(rest)
      /\ ToSet(paths) = {d} \cup ToSet(rest) /\ d \notin ToSet(rest)
      /\ rest = <<>> <=> Len(paths) = 1
  BY <1>1, <1>2, FirstAndRest
<1> HIDE DEF rest
<1>4. d \in DOMAIN artifacts /\ artifacts[d] \in Chunkings /\ ToSet(rest) \subseteq DOMAIN artifacts
  BY <1>1, <1>3 DEF SourcesInv, IndexInv
<1>5. CASE held.loaded = <<>>
  <2>1. sparse = held.sparse \o chunks /\ Covered(held.sparse) \cap ToSet(paths) = {}
        /\ ToSet(held.sparse) \subseteq held.found
    BY <1>0, <1>2, <1>5 DEF LoadHolds
  <2>2. d \notin Covered(held.sparse)
    BY <1>3, <2>1
  <2>3. IsCorpus(sparse, artifacts, overwritten)
    BY <1>0, <1>3, <1>4, <2>1, <2>2, CorpusGrows
  <2>4. held.sparse \in Seq(Nat) /\ chunks \in Seq(Nat)
    BY <1>0, <1>3, <1>4, ChunksAreDistinct DEF IsCorpus
  <2>5. Covered(sparse) = Covered(held.sparse) \cup {d}
    <3>1. Covered(held.sparse \o ChunksOf[d][artifacts[d]]) = Covered(held.sparse) \cup {d}
      BY <1>3, <1>4, <2>4, ReadingCovers
    <3> QED
      BY <1>0, <2>1, <3>1
  <2>6. ToSet(sparse) \subseteq ToSet(held.sparse) \cup ToSet(chunks)
    <3> DEFINE s == held.sparse
               l == Len(s)
               all == s \o chunks
    <3>1. s \in Seq(Nat)
      BY <2>4
    <3> HIDE DEF s
    <3>2. /\ all \in Seq(Nat) /\ Len(all) = l + Len(chunks) /\ l \in Nat /\ Len(chunks) \in Nat
          /\ \A n \in 1..Len(all) : all[n] = IF n <= l THEN s[n] ELSE chunks[n - l]
          /\ DOMAIN all = 1..Len(all) /\ DOMAIN s = 1..l /\ DOMAIN chunks = 1..Len(chunks)
      BY <2>4, <3>1, ConcatProperties, LenProperties
    <3> HIDE DEF all, l
    <3>3. \A n \in DOMAIN all : \/ n \in DOMAIN s /\ all[n] = s[n]
                                \/ n - l \in DOMAIN chunks /\ all[n] = chunks[n - l]
      BY <3>2
    <3>4. ToSet(all) \subseteq ToSet(s) \cup ToSet(chunks)
      BY <3>3 DEF ToSet
    <3> QED
      BY <2>1, <3>4 DEF all, s
  <2>7. DOMAIN held.loaded = {}
    BY <1>5, EmptySeq
  <2> QED
    <3>1. Covered(sparse) \cap ToSet(rest) = {}
      BY <1>3, <2>1, <2>5
    <3>2. ToSet(sparse) \subseteq found
      BY <1>0, <2>1, <2>6
    <3> QED
      BY <1>2, <1>3, <1>4, <2>3, <2>7, <3>1, <3>2 DEF found, sparse
<1>6. CASE held.loaded # <<>>
  <2>1. sparse = held.loaded
    BY <1>0, <1>6
  <2>2. ASSUME overwritten = {}, NEW n \in DOMAIN held.loaded
        PROVE  held.loaded[n] \in found \/ DocumentOf(held.loaded[n]) \in ToSet(rest)
    <3> DEFINE c == held.loaded[n]
    <3>1. c \in held.found \/ DocumentOf(c) \in ToSet(paths)
      BY <1>2, <2>2 DEF LoadHolds
    <3>2. c \in ToSet(ChunksOf[DocumentOf(c)][artifacts[DocumentOf(c)]])
      BY <2>2 DEF IsCorpus, Citable
    <3> HIDE DEF c
    <3>3. DocumentOf(c) = d => c \in found
      BY <1>0, <3>2
    <3>4. c \in found \/ DocumentOf(c) \in ToSet(rest)
      BY <1>0, <1>3, <3>1, <3>3
    <3> QED
      BY <3>4 DEF c
  <2> QED
    BY <1>2, <1>3, <1>4, <1>6, <2>1, <2>2 DEF found, sparse
<1> QED
  BY <1>5, <1>6

LEMMA LoadKeeps ==
  ASSUME SourcesInv, SearchersInv, NEW s \in Searchers, Load(s)
  PROVE  SearchersInv'
<1> DEFINE held == searcher[s]
           d == Head(held.paths)
           chunks == ChunksOf[d][artifacts[d]]
           found == held.found \cup ToSet(chunks)
           sparse == IF held.loaded = <<>> THEN held.sparse \o chunks ELSE held.loaded
           next == [held EXCEPT !.paths = Tail(@), !.found = found, !.sparse = sparse]
           opened == [NoSearcher EXCEPT !.pc = "open", !.client = held.client, !.sparse = sparse]
<1>1. /\ UNCHANGED disk /\ held.pc = "load"
      /\ \/ Len(held.paths) # 1 /\ BecomesSearcher(s, next)
         \/ /\ Len(held.paths) = 1 /\ ~(ToSet(sparse) \subseteq found)
            /\ SearchFails(s, "unresolved_chunk")
         \/ Len(held.paths) = 1 /\ BecomesSearcher(s, opened)
  BY DEF Load, Searching
<1>2. /\ DOMAIN held = SearcherFields /\ LoadHolds(held, artifacts, overwritten)
      /\ IsCorpus(held.sparse, artifacts, overwritten) /\ IsCorpus(held.loaded, artifacts, overwritten)
      /\ ErrorHolds(held.error, overwritten)
  BY <1>1 DEF SearchersInv, SearchHolds
<1>3. /\ next.pc = "load" /\ next.paths = Tail(held.paths) /\ next.found = found
      /\ next.sparse = sparse /\ next.loaded = held.loaded /\ next.error = held.error
      /\ DOMAIN next = SearcherFields
  BY <1>1, <1>2 DEF SearcherFields
<1>4. /\ opened.pc = "open" /\ opened.error = "none" /\ opened.loaded = <<>>
      /\ opened.sparse = sparse /\ DOMAIN opened = SearcherFields
  BY DEF NoSearcher, SearcherFields
<1>5. found = FoundNext(held) /\ sparse = SparseNext(held)
      /\ (held.loaded # <<>> => sparse = held.loaded)
  BY DEF FoundNext, SparseNext, ChunksNext
<1> HIDE DEF next, opened, sparse, found, chunks, d, held
<1>6. /\ IsCorpus(sparse, artifacts, overwritten)
      /\ IsInjective(Tail(held.paths)) /\ Tail(held.paths) \in Seq(Documents)
      /\ ToSet(Tail(held.paths)) \subseteq DOMAIN artifacts
      /\ Tail(held.paths) = <<>> <=> Len(held.paths) = 1
      /\ held.loaded = <<>> =>
           Covered(sparse) \cap ToSet(Tail(held.paths)) = {} /\ ToSet(sparse) \subseteq found
      /\ overwritten = {} => \A n \in DOMAIN held.loaded :
           held.loaded[n] \in found \/ DocumentOf(held.loaded[n]) \in ToSet(Tail(held.paths))
  BY <1>2, <1>5, LoadingOneKeeps
<1>7. CASE Len(held.paths) # 1 /\ BecomesSearcher(s, next)
  <2>1. LoadHolds(next, artifacts, overwritten)
    BY <1>3, <1>6, <1>7 DEF LoadHolds
  <2>2. SearchHolds(next, artifacts, overwritten)
    BY <1>2, <1>3, <1>6, <2>1 DEF SearchHolds
  <2> QED
    BY <1>1, <1>7, <2>2, SearcherMoves
<1>8. CASE /\ Len(held.paths) = 1 /\ ~(ToSet(sparse) \subseteq found)
           /\ SearchFails(s, "unresolved_chunk")
  <2>1. ASSUME overwritten = {} PROVE FALSE
    <3>1. held.loaded # <<>>
      BY <1>6, <1>8
    <3>2. sparse = held.loaded
      BY <1>5, <3>1
    <3>3. ToSet(Tail(held.paths)) = {}
      BY <1>6, <1>8, EmptyCorpus
    <3>4. \A n \in DOMAIN held.loaded : held.loaded[n] \in found
      BY <1>6, <2>1, <3>3
    <3>5. ToSet(sparse) \subseteq found
      BY <3>2, <3>4 DEF ToSet
    <3> QED
      BY <1>8, <3>5
  <2>2. ErrorHolds("unresolved_chunk", overwritten)
    BY <2>1 DEF ErrorHolds
  <2> QED
    BY <1>1, <1>8, <2>2, FailureHolds
<1>9. CASE Len(held.paths) = 1 /\ BecomesSearcher(s, opened)
  <2>1. SearchHolds(opened, artifacts, overwritten)
    BY <1>4, <1>6, RestingHolds DEF ErrorHolds
  <2> QED
    BY <1>1, <1>9, <2>1, SearcherMoves
<1> QED
  BY <1>1, <1>7, <1>8, <1>9

\* What one route found.
LEMMA SparseResultsHold ==
  ASSUME NEW corpus, IsCorpus(corpus, artifacts, overwritten), NEW limit \in Nat,
         NEW ranking \in Rankings(ToSet(corpus), limit)
  PROVE  /\ RankingHolds(ranking, artifacts, overwritten) /\ IsInjective(ranking)
         /\ Len(ranking) <= limit
<1>1. corpus \in Seq(Nat) /\ \A n \in DOMAIN corpus : Citable(corpus[n], artifacts, overwritten)
  BY DEF IsCorpus
<1>2. IsFiniteSet(ToSet(corpus)) /\ ToSet(corpus) \subseteq Nat
      /\ \A c \in ToSet(corpus) : Citable(c, artifacts, overwritten)
  <2>1. \A c \in ToSet(corpus) : Citable(c, artifacts, overwritten)
    BY <1>1 DEF ToSet
  <2> QED
    BY <1>1, <2>1, ElementsAreFinite
<1> DEFINE chunks == ToSet(corpus)
<1> HIDE DEF chunks
<1>3. ranking \in Rankings(chunks, limit) /\ IsFiniteSet(chunks) /\ chunks \subseteq Nat
      /\ \A c \in chunks : Citable(c, artifacts, overwritten)
  BY <1>2 DEF chunks
<1>4. ranking \in Seq(chunks) /\ Len(ranking) <= limit /\ IsInjective(ranking)
  BY <1>3, RankingsAreShort
<1>5. ranking \in Seq(Nat) /\ \A n \in DOMAIN ranking : Citable(ranking[n], artifacts, overwritten)
  BY <1>3, <1>4, WiderSequences
<1> QED
  BY <1>4, <1>5 DEF RankingHolds

LEMMA DenseResultsHold ==
  ASSUME SourcesInv, NEW source_type, NEW limit \in Nat,
         NEW ranking \in Rankings(MatchingPoints(source_type), limit)
  PROVE  /\ RankingHolds(ranking, artifacts, overwritten) /\ IsInjective(ranking)
         /\ Len(ranking) <= limit
         /\ \A n \in DOMAIN ranking : source_type \in {"any", SourceTypes[DocumentOf(ranking[n])]}
<1> DEFINE chunks == MatchingPoints(source_type)
<1>1. chunks \in SUBSET points /\ \A c \in chunks : source_type \in {"any", SourceTypes[DocumentOf(c)]}
  BY DEF MatchingPoints
<1>2. ranking \in Rankings(chunks, limit)
  OBVIOUS
<1> HIDE DEF chunks
<1>3. IsFiniteSet(chunks) /\ \A c \in chunks : Citable(c, artifacts, overwritten)
  BY <1>1, FS_Subset DEF SourcesInv, StoresInv
<1>4. ranking \in Seq(chunks) /\ Len(ranking) <= limit /\ IsInjective(ranking)
  BY <1>2, <1>3, RankingsAreShort
<1>5. chunks \subseteq Nat
  BY <1>3 DEF Citable
<1>6. ranking \in Seq(Nat) /\ \A n \in DOMAIN ranking : ranking[n] \in chunks
  BY <1>4, <1>5, WiderSequences
<1> QED
  BY <1>1, <1>3, <1>4, <1>6 DEF RankingHolds

\* Entries of two routes whose chunks are citable.
LEMMA EntriesHold ==
  ASSUME NEW sparse, RankingHolds(sparse, artifacts, overwritten),
         NEW dense, RankingHolds(dense, artifacts, overwritten), NEW source_type,
         \A n \in DOMAIN dense : source_type \in {"any", SourceTypes[DocumentOf(dense[n])]},
         NEW results \in Seq(Entries(sparse, dense)), HaveChunksOnce(results)
  PROVE  ResultsHold(results, source_type, artifacts, overwritten)
<1>1. sparse \in Seq(Nat) /\ dense \in Seq(Nat)
      /\ (\A n \in DOMAIN sparse : Citable(sparse[n], artifacts, overwritten))
      /\ (\A n \in DOMAIN dense : Citable(dense[n], artifacts, overwritten))
  BY DEF RankingHolds
<1>2. ASSUME NEW r \in Entries(sparse, dense)
      PROVE  r \in Entry /\ Citable(r.chunk, artifacts, overwritten) /\ Matches(r, source_type)
  <2>1. /\ IsEntry(r) /\ r.chunk \in ToSet(sparse) \cup ToSet(dense)
        /\ r.chunk \in ToSet(sparse) => r.sparse_rank \in DOMAIN sparse
    BY <1>1, EntriesAreEntries
  <2>2. r \in Entry
    BY <2>1 DEF IsEntry, Entry
  <2>3. r.chunk \in ToSet(sparse) => Citable(r.chunk, artifacts, overwritten)
    BY <1>1 DEF ToSet
  <2>4. r.chunk \in ToSet(dense) =>
          /\ Citable(r.chunk, artifacts, overwritten)
          /\ source_type \in {"any", SourceTypes[DocumentOf(r.chunk)]}
    BY <1>1 DEF ToSet
  <2>5. r.chunk \in ToSet(sparse) => r.sparse_rank # Missing
    <3>1. DOMAIN sparse = 1..Len(sparse)
      BY <1>1, LenProperties
    <3> QED
      BY <2>1, <3>1 DEF Missing
  <2> QED
    BY <2>1, <2>2, <2>3, <2>4, <2>5 DEF Matches
<1> DEFINE S == Entries(sparse, dense)
<1>3. results \in Seq(S) /\ \A r \in S : r \in Entry /\ Citable(r.chunk, artifacts, overwritten)
                                         /\ Matches(r, source_type)
  BY <1>2
<1> HIDE DEF S
<1>4. results \in Seq(Entry) /\ \A n \in DOMAIN results : results[n] \in S
  BY <1>3
<1> QED
  BY <1>3, <1>4 DEF ResultsHold

LEMMA NothingHolds ==
  RankingHolds(<<>>, artifacts, overwritten) /\ DOMAIN <<>> = {}
<1>1. <<>> \in Seq(Nat) /\ DOMAIN <<>> = {}
  BY EmptySeq
<1> QED
  BY <1>1 DEF RankingHolds

LEMMA StartSearchHolds ==
  ASSUME SourcesInv, SearchersInv, NEW s \in Searchers, StartSearch(s)
  PROVE  SearchersInv'
<1>1. UNCHANGED disk
  BY DEF StartSearch
<1>2. PICK request :
        LET client == searcher[s].client
            held == [searcher[s] EXCEPT !.request = request, !.error = "none"]
            Sparse(limit) == Rankings(ToSet(held.sparse), limit)
        IN  CASE request.method = "dense" -> BecomesSearcher(s, [held EXCEPT !.pc = "dense"])
              [] request.method = "sparse" /\ client = "service" /\ request.source_type # "any" ->
                   SearchFails(s, "invalid")
              [] request.method = "sparse" /\ (client = "command" \/ request.source_type = "any") ->
                   \E ranking \in Sparse(TopK) :
                     BecomesSearcher(s, [held EXCEPT !.pc = "found", !.results = OnlySparse(ranking)])
              [] OTHER ->
                   \E ranking \in Sparse(RouteLimit) :
                     BecomesSearcher(s, [held EXCEPT !.pc = "dense", !.sparse_results = ranking])
  BY DEF StartSearch
<1> DEFINE held == [searcher[s] EXCEPT !.request = request, !.error = "none"]
<1>3. SearchHolds(searcher[s], artifacts, overwritten) /\ searcher[s].pc = "open"
  BY DEF SearchersInv, StartSearch, Searching
<1>4. /\ DOMAIN held = SearcherFields /\ held.request = request /\ held.error = "none"
      /\ held.sparse = searcher[s].sparse /\ held.loaded = searcher[s].loaded
      /\ IsCorpus(held.sparse, artifacts, overwritten) /\ IsCorpus(held.loaded, artifacts, overwritten)
  BY <1>3 DEF SearchHolds, SearcherFields
<1>5. \/ request.method = "dense" /\ BecomesSearcher(s, [held EXCEPT !.pc = "dense"])
      \/ SearchFails(s, "invalid")
      \/ /\ request.method = "sparse"
         /\ \E ranking \in Rankings(ToSet(held.sparse), TopK) :
              BecomesSearcher(s, [held EXCEPT !.pc = "found", !.results = OnlySparse(ranking)])
      \/ \E ranking \in Rankings(ToSet(held.sparse), RouteLimit) :
           BecomesSearcher(s, [held EXCEPT !.pc = "dense", !.sparse_results = ranking])
  BY <1>2
<1> HIDE DEF held
<1>6. TopK \in Nat /\ RouteLimit \in Nat
  BY DocumentIndexAssumption
<1>7. CASE request.method = "dense" /\ BecomesSearcher(s, [held EXCEPT !.pc = "dense"])
  <2> DEFINE next == [held EXCEPT !.pc = "dense"]
  <2>1. /\ next.pc = "dense" /\ next.request = request /\ next.error = "none"
        /\ next.sparse = held.sparse /\ next.loaded = held.loaded /\ DOMAIN next = SearcherFields
    BY <1>4 DEF SearcherFields
  <2>2. BecomesSearcher(s, next)
    BY <1>7
  <2> HIDE DEF next
  <2>3. SearchHolds(next, artifacts, overwritten)
    BY <1>4, <1>7, <2>1 DEF SearchHolds, ErrorHolds
  <2> QED
    BY <1>1, <2>2, <2>3, SearcherMoves
<1>8. CASE SearchFails(s, "invalid")
  BY <1>1, <1>8, FailureHolds DEF ErrorHolds
<1>9. ASSUME request.method = "sparse", NEW ranking \in Rankings(ToSet(held.sparse), TopK),
             BecomesSearcher(s, [held EXCEPT !.pc = "found", !.results = OnlySparse(ranking)])
      PROVE  SearchersInv'
  <2> DEFINE next == [held EXCEPT !.pc = "found", !.results = OnlySparse(ranking)]
  <2>1. /\ next.pc = "found" /\ next.request = request /\ next.error = "none"
        /\ next.results = OnlySparse(ranking)
        /\ next.sparse = held.sparse /\ next.loaded = held.loaded /\ DOMAIN next = SearcherFields
    BY <1>4 DEF SearcherFields
  <2>2. BecomesSearcher(s, next)
    BY <1>9
  <2> HIDE DEF next
  <2>3. /\ RankingHolds(ranking, artifacts, overwritten) /\ IsInjective(ranking)
        /\ Len(ranking) <= TopK
    BY <1>4, <1>6, <1>9, SparseResultsHold
  <2>4. /\ OnlySparse(ranking) \in Seq(Entries(ranking, <<>>)) /\ HaveChunksOnce(OnlySparse(ranking))
        /\ Len(OnlySparse(ranking)) <= TopK
    BY <2>3, OneRouteHasChunksOnce DEF RankingHolds
  <2>5. \A n \in DOMAIN <<>> : request.source_type \in {"any", SourceTypes[DocumentOf(<<>>[n])]}
    BY NothingHolds
  <2>6. ResultsHold(OnlySparse(ranking), request.source_type, artifacts, overwritten)
    BY <2>3, <2>4, <2>5, NothingHolds, EntriesHold
  <2>7. SearchHolds(next, artifacts, overwritten)
    BY <1>4, <1>9, <2>1, <2>4, <2>6 DEF SearchHolds, ErrorHolds
  <2> QED
    BY <1>1, <2>2, <2>7, SearcherMoves
<1>10. ASSUME NEW ranking \in Rankings(ToSet(held.sparse), RouteLimit),
              BecomesSearcher(s, [held EXCEPT !.pc = "dense", !.sparse_results = ranking])
       PROVE  SearchersInv'
  <2> DEFINE next == [held EXCEPT !.pc = "dense", !.sparse_results = ranking]
  <2>1. /\ next.pc = "dense" /\ next.request = request /\ next.error = "none"
        /\ next.sparse_results = ranking
        /\ next.sparse = held.sparse /\ next.loaded = held.loaded /\ DOMAIN next = SearcherFields
    BY <1>4 DEF SearcherFields
  <2>2. BecomesSearcher(s, next)
    BY <1>10
  <2> HIDE DEF next
  <2>3. RankingHolds(ranking, artifacts, overwritten)
    BY <1>4, <1>6, <1>10, SparseResultsHold
  <2>4. SearchHolds(next, artifacts, overwritten)
    BY <1>4, <2>1, <2>3 DEF SearchHolds, ErrorHolds
  <2> QED
    BY <1>1, <2>2, <2>4, SearcherMoves
<1> QED
  BY <1>5, <1>7, <1>8, <1>9, <1>10

LEMMA SearchDenseHolds ==
  ASSUME SourcesInv, SearchersInv, NEW s \in Searchers, SearchDense(s)
  PROVE  SearchersInv'
<1> DEFINE held == searcher[s]
           method == held.request.method
           results(dense) == IF method = "dense" THEN OnlyDense(dense)
                             ELSE ReciprocalRankFusion(held.sparse_results, dense,
                                    IF method = "reranked" THEN RouteLimit ELSE TopK, RrfK)
           pc == IF method = "reranked" THEN "rerank" ELSE "found"
           next(dense) == [held EXCEPT !.dense_results = dense, !.results = results(dense), !.pc = pc]
<1>1. UNCHANGED disk /\ held.pc = "dense"
  BY DEF SearchDense, Searching
<1>2. CASE SearchFails(s, "vector_store")
  BY <1>1, <1>2, FailureHolds DEF ErrorHolds
<1>3. ASSUME NEW dense \in Rankings(MatchingPoints(held.request.source_type),
                                    IF method = "dense" THEN TopK ELSE RouteLimit),
             BecomesSearcher(s, next(dense))
      PROVE  SearchersInv'
  <2>1. /\ SearchHolds(held, artifacts, overwritten)
        /\ method # "dense" => RankingHolds(held.sparse_results, artifacts, overwritten)
    BY <1>1 DEF SearchersInv, SearchHolds
  <2> DEFINE found == next(dense)
             given == results(dense)
  <2>2. /\ found.pc = pc /\ found.request = held.request /\ found.error = held.error
        /\ found.results = given /\ found.dense_results = dense
        /\ found.sparse_results = held.sparse_results
        /\ found.sparse = held.sparse /\ found.loaded = held.loaded /\ DOMAIN found = SearcherFields
    BY <2>1 DEF SearchHolds, SearcherFields
  <2>3. BecomesSearcher(s, found)
    BY <1>3
  <2> HIDE DEF found
  <2>4. TopK \in Nat /\ RouteLimit \in Nat /\ RrfK \in Nat \ {0}
        /\ (IF method = "dense" THEN TopK ELSE RouteLimit) \in Nat
    BY DocumentIndexAssumption
  <2> DEFINE limit == IF method = "dense" THEN TopK ELSE RouteLimit
  <2>5. limit \in Nat /\ dense \in Rankings(MatchingPoints(held.request.source_type), limit)
        /\ (method = "dense" => limit = TopK)
    BY <1>3, <2>4
  <2> HIDE DEF limit
  <2>6. /\ RankingHolds(dense, artifacts, overwritten) /\ IsInjective(dense)
        /\ Len(dense) <= limit
        /\ \A n \in DOMAIN dense :
             held.request.source_type \in {"any", SourceTypes[DocumentOf(dense[n])]}
    BY <2>5, DenseResultsHold
  <2>7. CASE method = "dense"
    <3>1. given = OnlyDense(dense) /\ pc = "found"
      BY <2>7
    <3> HIDE DEF given, pc
    <3>2. /\ OnlyDense(dense) \in Seq(Entries(<<>>, dense)) /\ HaveChunksOnce(OnlyDense(dense))
          /\ Len(OnlyDense(dense)) <= TopK
      BY <2>5, <2>6, <2>7, OneRouteHasChunksOnce DEF RankingHolds
    <3>3. ResultsHold(OnlyDense(dense), held.request.source_type, artifacts, overwritten)
      BY <2>6, <3>2, NothingHolds, EntriesHold
    <3>4. SearchHolds(found, artifacts, overwritten)
      BY <2>1, <2>2, <2>7, <3>1, <3>2, <3>3 DEF SearchHolds
    <3> QED
      BY <1>1, <2>3, <3>4, SearcherMoves
  <2>8. CASE method # "dense"
    <3> DEFINE sparse == held.sparse_results
               most == IF method = "reranked" THEN RouteLimit ELSE TopK
    <3>1. given = ReciprocalRankFusion(sparse, dense, most, RrfK) /\ most \in Nat
      BY <2>4, <2>8
    <3>2. pc = "rerank" => method = "reranked"
      OBVIOUS
    <3>3. pc = "found" => most = TopK
      OBVIOUS
    <3>4. pc \in {"rerank", "found"}
      OBVIOUS
    <3> HIDE DEF given, pc, most
    <3>5. RankingHolds(sparse, artifacts, overwritten) /\ sparse \in Seq(Nat) /\ dense \in Seq(Nat)
      BY <2>1, <2>6, <2>8 DEF RankingHolds
    <3>6. given \in Seq(Entries(sparse, dense)) /\ Len(given) <= most /\ HaveChunksOnce(given)
      BY <2>4, <3>1, <3>5, FusionIsFair DEF HaveChunksOnce
    <3>7. ResultsHold(given, held.request.source_type, artifacts, overwritten)
      BY <2>6, <3>5, <3>6, EntriesHold
    <3>8. SearchHolds(found, artifacts, overwritten)
      BY <2>1, <2>2, <3>1, <3>2, <3>3, <3>4, <3>5, <3>6, <3>7 DEF SearchHolds
    <3> QED
      BY <1>1, <2>3, <3>8, SearcherMoves
  <2> QED
    BY <2>7, <2>8
<1> QED
  BY <1>2, <1>3 DEF SearchDense

LEMMA RerankHolds ==
  ASSUME SourcesInv, SearchersInv, NEW s \in Searchers, Rerank(s)
  PROVE  SearchersInv'
<1> DEFINE held == searcher[s]
<1>1. UNCHANGED disk /\ held.pc = "rerank"
  BY DEF Rerank, Searching
<1>2. CASE SearchFails(s, "reranking")
  BY <1>1, <1>2, FailureHolds DEF ErrorHolds
<1>3. ASSUME NEW score \in [{r.chunk : r \in ToSet(held.results)} -> 0..1],
             BecomesSearcher(s, [held EXCEPT
               !.pc = "found", !.results = ReorderRerankResults(held.results, score, TopK)])
      PROVE  SearchersInv'
  <2> DEFINE given == ReorderRerankResults(held.results, score, TopK)
             next == [held EXCEPT !.pc = "found", !.results = given]
             type == held.request.source_type
  <2>1. /\ SearchHolds(held, artifacts, overwritten) /\ held.request.method # "hybrid"
        /\ ResultsHold(held.results, type, artifacts, overwritten)
    BY <1>1 DEF SearchersInv, SearchHolds
  <2>2. /\ next.pc = "found" /\ next.request = held.request /\ next.error = held.error
        /\ next.results = given
        /\ next.sparse = held.sparse /\ next.loaded = held.loaded /\ DOMAIN next = SearcherFields
    BY <2>1 DEF SearchHolds, SearcherFields
  <2>3. BecomesSearcher(s, next)
    BY <1>3
  <2> HIDE DEF next
  <2>4. TopK \in Nat /\ held.results \in Seq(Entry) /\ HaveChunksOnce(held.results)
        /\ given = ReorderRerankResults(held.results, score, TopK)
    BY <2>1, DocumentIndexAssumption DEF ResultsHold
  <2> HIDE DEF given
  <2>5. /\ given \in Seq(Entry) /\ Len(given) <= TopK /\ HaveChunksOnce(given)
        /\ ToSet(given) \subseteq ToSet(held.results)
    BY <1>3, <2>4, RerankingKeeps
  <2>6. ASSUME NEW n \in DOMAIN given
        PROVE  Citable(given[n].chunk, artifacts, overwritten) /\ Matches(given[n], type)
    <3>1. given[n] \in ToSet(held.results)
      BY <2>5 DEF ToSet
    <3> QED
      BY <2>1, <3>1 DEF ResultsHold, ToSet
  <2>7. ResultsHold(given, type, artifacts, overwritten)
    BY <2>5, <2>6 DEF ResultsHold
  <2>8. SearchHolds(next, artifacts, overwritten)
    BY <2>1, <2>2, <2>5, <2>7 DEF SearchHolds
  <2> QED
    BY <1>1, <2>3, <2>8, SearcherMoves
<1> QED
  BY <1>2, <1>3 DEF Rerank

LEMMA ServeHolds ==
  ASSUME SourcesInv, SearchersInv, NEW s \in Searchers, Serve(s)
  PROVE  SearchersInv'
<1> DEFINE held == searcher[s]
           cited == {DocumentOf(r.chunk) : r \in ToSet(held.results)}
<1>1. UNCHANGED disk /\ held.pc = "found"
  BY DEF Serve, Searching
<1>2. cited \subseteq DOMAIN artifacts
  <2>1. ResultsHold(held.results, held.request.source_type, artifacts, overwritten)
    BY <1>1 DEF SearchersInv, SearchHolds
  <2>2. \A n \in DOMAIN held.results : DocumentOf(held.results[n].chunk) \in DOMAIN artifacts
    BY <2>1 DEF ResultsHold, Citable
  <2> QED
    BY <2>2 DEF ToSet
<1>3. SearchEnds(s)
  BY <1>2 DEF Serve
<1> QED
  BY <1>1, <1>3, EndHolds

LEMMA GrowthHolds ==
  ASSUME SourcesInv, SearchersInv, Ingest
  PROVE  SearchersInv'
<1>1. /\ Grown(artifacts, overwritten, artifacts', overwritten')
      /\ UNCHANGED searcher
  BY IngestGrows
<1>2. overwritten \subseteq overwritten' /\ DOMAIN artifacts \subseteq DOMAIN artifacts'
  BY <1>1 DEF Grown
<1>3. ASSUME NEW s \in Searchers
      PROVE  SearchHolds(searcher[s], artifacts', overwritten')
  <2> DEFINE held == searcher[s]
  <2>1. SearchHolds(held, artifacts, overwritten)
    BY DEF SearchersInv
  <2> HIDE DEF held
  <2>2. IsCorpus(held.sparse, artifacts', overwritten') /\ IsCorpus(held.loaded, artifacts', overwritten')
    BY <1>1, <2>1, CorpusStays DEF SearchHolds
  <2>3. ErrorHolds(held.error, overwritten')
    BY <1>2, <2>1 DEF SearchHolds, ErrorHolds
  <2>4. held.pc = "load" => LoadHolds(held, artifacts', overwritten')
    BY <1>2, <2>1 DEF SearchHolds, LoadHolds
  <2>5. held.pc = "dense" /\ held.request.method # "dense" =>
          RankingHolds(held.sparse_results, artifacts', overwritten')
    BY <1>1, <2>1, CitableStays DEF SearchHolds, RankingHolds
  <2>6. held.pc \in {"rerank", "found"} =>
          ResultsHold(held.results, held.request.source_type, artifacts', overwritten')
    BY <1>1, <2>1, CitableStays DEF SearchHolds, ResultsHold
  <2>7. SearchHolds(held, artifacts', overwritten')
    BY <2>1, <2>2, <2>3, <2>4, <2>5, <2>6 DEF SearchHolds
  <2> QED
    BY <2>7 DEF held
<1> QED
  BY <1>1, <1>3, Zenon DEF SearchersInv

(***************************************************************************)
(* The theorems                                                             *)
(***************************************************************************)

SearchInv == SourcesInv /\ SearchersInv

LEMMA SearchInit == Init => SearchInv
<1> SUFFICES ASSUME Init
             PROVE  SearchInv
  OBVIOUS
<1>1. IndexInv
  BY InitHolds
<1>2. /\ artifacts = <<>> /\ writes = 0 /\ overwritten = {} /\ snapshot = <<>> /\ snapshot_of = 0
      /\ points = {} /\ indexer = [i \in Indexers |-> NoIndexer]
      /\ searcher = [s \in Searchers |-> NoSearcher]
  BY DEF Init
<1>3. IsCorpus(<<>>, artifacts, overwritten) /\ ToSet(<<>>) = {}
  BY EmptyCorpus
<1>4. StoresInv
  <2>1. artifacts = [d \in DOMAIN artifacts |-> artifacts[d]]
    BY <1>2
  <2>2. MaxWrites \in Nat
    BY DocumentIndexAssumption
  <2> QED
    BY <1>2, <1>3, <2>1, <2>2, FS_EmptySet DEF StoresInv
<1>5. RunsInv
  <2>1. NoIndexer.corpus = <<>> /\ NoIndexer.began = 0 /\ NoIndexer.pc = "idle"
    BY DEF NoIndexer
  <2>2. RunHolds(NoIndexer, artifacts, overwritten, writes, collection)
    BY <1>2, <1>3, <2>1 DEF RunHolds
  <2> QED
    BY <1>2, <2>2 DEF RunsInv
<1>6. SearchersInv
  <2>1. /\ NoSearcher.pc = "idle" /\ NoSearcher.error = "none" /\ NoSearcher.sparse = <<>>
        /\ NoSearcher.loaded = <<>> /\ DOMAIN NoSearcher = SearcherFields
    BY DEF NoSearcher, SearcherFields
  <2>2. SearchHolds(NoSearcher, artifacts, overwritten)
    BY <1>3, <2>1, RestingHolds DEF ErrorHolds
  <2> QED
    BY <1>2, <2>2 DEF SearchersInv
<1> QED
  BY <1>1, <1>4, <1>5, <1>6 DEF SearchInv, SourcesInv

LEMMA SearchNext == SearchInv /\ [Next]_vars => SearchInv'
<1> SUFFICES ASSUME SearchInv, [Next]_vars
             PROVE  SearchInv'
  OBVIOUS
<1>1. ASSUME UNCHANGED <<disk, snapshot, snapshot_of, qdrant, indexer>>
      PROVE  SourcesInv'
  BY <1>1 DEF SearchInv, SourcesInv, IndexInv, StoresInv, RunsInv, disk, qdrant
<1>2. ASSUME UNCHANGED <<disk, searcher>>
      PROVE  SearchersInv'
  BY <1>2 DEF SearchInv, SearchersInv, disk
<1>3. CASE Ingest
  BY <1>3, IngestHolds, GrowthHolds DEF SearchInv
<1>4. ASSUME NEW i \in Indexers, Index(i)
      PROVE  SearchInv'
  <2>1. UNCHANGED <<disk, searcher>>
    BY <1>4 DEF Index, StartIndexing, ListArtifacts, ReadArtifact, CheckSnapshot, ReplaceSnapshot,
                EmbedBatch, CreateCollection, Upsert, Crash
  <2> QED
    BY <1>2, <1>4, <2>1, IndexHolds DEF SearchInv
<1>5. ASSUME NEW s \in Searchers, SearchStep(s)
      PROVE  SearchInv'
  <2>1. UNCHANGED <<disk, snapshot, snapshot_of, qdrant, indexer>>
    BY <1>5 DEF SearchStep, Open, Load, StartSearch, SearchDense, Rerank, Serve
  <2> QED
    BY <1>1, <1>5, <2>1, OpenHolds, LoadKeeps, StartSearchHolds, SearchDenseHolds, RerankHolds,
       ServeHolds DEF SearchInv, SearchStep
<1>6. CASE UNCHANGED vars
  BY <1>1, <1>2, <1>6 DEF vars, SearchInv
<1> QED
  BY <1>3, <1>4, <1>5, <1>6 DEF Next

LEMMA SearchInvHolds == Spec => []SearchInv
  BY SearchInit, SearchNext, PTL DEF Spec

\* In every state a corpus has no chunk twice and only chunks of documents on disk, and there
\* are points only in a compatible collection, for any number of indexers, searchers, documents
\* and chunks and any batch size (sparse_store.py write, bm25.py Bm25IndexBuilder,
\* qdrant_store.py upsert).
THEOREM TypesAreKept == Spec => []TypeOK
<1>1. SearchInv => TypeOK
  <2> SUFFICES ASSUME SearchInv
               PROVE  TypeOK
    OBVIOUS
  <2>1. artifacts \in UNION {[known -> Chunkings] : known \in SUBSET Documents}
    <3>1. artifacts = [d \in DOMAIN artifacts |-> artifacts[d]] /\ DOMAIN artifacts \in SUBSET Documents
          /\ \A d \in DOMAIN artifacts : artifacts[d] \in Chunkings
      BY DEF SearchInv, SourcesInv, StoresInv, IndexInv
    <3> DEFINE known == DOMAIN artifacts
    <3>2. artifacts \in [known -> Chunkings]
      BY <3>1
    <3> HIDE DEF known
    <3> QED
      BY <3>1, <3>2 DEF known
  <2>2. /\ writes \in 0..MaxWrites /\ overwritten \subseteq DOMAIN artifacts
        /\ snapshot_of \in 0..writes /\ (points # {} => collection = "compatible")
    BY DEF SearchInv, SourcesInv, StoresInv
  <2>3. ASSUME NEW corpus \in {snapshot} \cup {indexer[i].corpus : i \in Indexers}
                               \cup {searcher[s].sparse : s \in Searchers}
        PROVE  /\ IsInjective(corpus)
               /\ \A n \in DOMAIN corpus : DocumentOf(corpus[n]) \in DOMAIN artifacts
    <3>1. IsCorpus(corpus, artifacts, overwritten)
      BY DEF SearchInv, SourcesInv, StoresInv, RunsInv, RunHolds, SearchersInv, SearchHolds
    <3> QED
      BY <3>1 DEF IsCorpus, Citable
  <2> QED
    BY <2>1, <2>2, <2>3 DEF TypeOK
<1> QED
  BY <1>1, SearchInvHolds, PTL

\* What a search finds is found again under its identifier unless its document was overwritten,
\* once, within the limit and, where only the dense route found it, of the source type asked
\* for; a snapshot cannot be opened only after an overwriting (service.py, bm25.py
\* from_snapshot, hybrid.py, reranker.py reorder_rerank_results).
THEOREM ResultsAreKeptCitable == Spec => []ResultsAreCitable
<1>1. SearchInv => ResultsAreCitable
  <2> SUFFICES ASSUME SearchInv, NEW s \in Searchers
               PROVE  LET held == searcher[s] IN
                      /\ held.error = "unresolved_chunk" => overwritten # {}
                      /\ held.error # "artifact_not_found"
                      /\ held.pc = "found" =>
                           /\ Len(held.results) <= TopK
                           /\ IsInjective([n \in DOMAIN held.results |-> held.results[n].chunk])
                           /\ \A r \in ToSet(held.results) :
                                /\ OnDisk(r.chunk) \/ DocumentOf(r.chunk) \in overwritten
                                /\ r.sparse_rank = Missing
                                     => held.request.source_type
                                          \in {"any", SourceTypes[DocumentOf(r.chunk)]}
    BY DEF ResultsAreCitable
  <2> DEFINE held == searcher[s]
  <2>1. SearchHolds(held, artifacts, overwritten)
    BY DEF SearchInv, SearchersInv
  <2> HIDE DEF held
  <2>2. ErrorHolds(held.error, overwritten)
    BY <2>1 DEF SearchHolds
  <2>3. ASSUME held.pc = "found"
        PROVE  /\ Len(held.results) <= TopK
               /\ IsInjective([n \in DOMAIN held.results |-> held.results[n].chunk])
               /\ \A r \in ToSet(held.results) :
                    /\ OnDisk(r.chunk) \/ DocumentOf(r.chunk) \in overwritten
                    /\ r.sparse_rank = Missing
                         => held.request.source_type \in {"any", SourceTypes[DocumentOf(r.chunk)]}
    <3>1. Len(held.results) <= TopK
          /\ ResultsHold(held.results, held.request.source_type, artifacts, overwritten)
      BY <2>1, <2>3 DEF SearchHolds
    <3>2. IsInjective([n \in DOMAIN held.results |-> held.results[n].chunk])
      BY <3>1 DEF ResultsHold, HaveChunksOnce, IsInjective
    <3>3. ASSUME NEW r \in ToSet(held.results)
          PROVE  /\ OnDisk(r.chunk) \/ DocumentOf(r.chunk) \in overwritten
                 /\ Matches(r, held.request.source_type)
      <4>1. Citable(r.chunk, artifacts, overwritten) /\ Matches(r, held.request.source_type)
        BY <3>1 DEF ResultsHold, ToSet
      <4> QED
        BY <4>1 DEF Citable, OnDisk
    <3> QED
      BY <3>1, <3>2, <3>3 DEF Matches
  <2> QED
    BY <2>2, <2>3 DEF ErrorHolds, held
<1> QED
  BY <1>1, SearchInvHolds, PTL

\* The merged ranking agrees with its routes, however the scores tie: a chunk that both rank no
\* lower than another is before it and is not left out for it (hybrid.py
\* reciprocal_rank_fusion).
THEOREM FusionIsKeptFair == Spec => []FusionRespectsRoutes
<1>1. SearchInv => FusionRespectsRoutes
  <2> SUFFICES ASSUME SearchInv, NEW s \in Searchers,
                      searcher[s].pc = "found", searcher[s].request.method = "hybrid"
               PROVE  LET held == searcher[s] IN
                      \A n \in DOMAIN held.results :
                        \A c \in ToSet(held.sparse_results) \cup ToSet(held.dense_results) :
                          Dominates(Ranked(c, held.sparse_results, held.dense_results),
                                    held.results[n])
                            => \E m \in 1..(n - 1) : held.results[m].chunk = c
    BY DEF FusionRespectsRoutes
  <2> DEFINE sparse == searcher[s].sparse_results
             dense == searcher[s].dense_results
             results == searcher[s].results
  <2>1. SearchHolds(searcher[s], artifacts, overwritten)
    BY DEF SearchInv, SearchersInv
  <2>2. /\ sparse \in Seq(Nat) /\ dense \in Seq(Nat)
        /\ results = ReciprocalRankFusion(sparse, dense, TopK, RrfK)
    BY <2>1 DEF SearchHolds
  <2>3. TopK \in Nat /\ RrfK \in Nat \ {0}
    BY DocumentIndexAssumption
  <2> HIDE DEF sparse, dense, results
  <2>4. AgreesWithRoutes(results, sparse, dense)
    BY <2>2, <2>3, FusionIsFair, Zenon
  <2> QED
    BY <2>4 DEF AgreesWithRoutes, sparse, dense, results
<1> QED
  BY <1>1, SearchInvHolds, PTL

(***************************************************************************)
(* What a run reads while nothing is stored                                 *)
(***************************************************************************)

\* The chunks of the artifact of a document.
ChunksNow(stored, d) == ChunksOf[d][stored[d]]

\* The order in which the artifacts are read.
ChunkBefore(stored, c, e) ==
  \/ DocumentOf(c) < DocumentOf(e)
  \/ /\ DocumentOf(c) = DocumentOf(e)
     /\ \E m, n \in DOMAIN ChunksNow(stored, DocumentOf(c)) :
          m < n /\ ChunksNow(stored, DocumentOf(c))[m] = c /\ ChunksNow(stored, DocumentOf(c))[n] = e

IsInOrder(corpus, stored) ==
  \A m, n \in DOMAIN corpus : m < n => ChunkBefore(stored, corpus[m], corpus[n])

\* The corpus of some of the artifacts.
Reads(corpus, documents, stored) ==
  /\ corpus \in Seq(Nat) /\ IsInOrder(corpus, stored)
  /\ ToSet(corpus) = UNION {ToSet(ChunksNow(stored, d)) : d \in documents}

\* Nothing was stored since the run began.
RunIsFresh(run, stored, count) ==
  run.began = count =>
    /\ run.pc = "read" =>
         /\ \A m, n \in DOMAIN run.paths : m < n => run.paths[m] < run.paths[n]
         /\ \A d \in DOMAIN stored \ ToSet(run.paths), n \in DOMAIN run.paths : d < run.paths[n]
         /\ Reads(run.corpus, DOMAIN stored \ ToSet(run.paths), stored)
    /\ run.pc \in {"check", "replace"} => Reads(run.corpus, DOMAIN stored, stored)

FreshInv ==
  /\ snapshot # <<>> /\ snapshot_of = writes => Reads(snapshot, DOMAIN artifacts, artifacts)
  /\ \A i \in Indexers : RunIsFresh(indexer[i], artifacts, writes)

\* No chunk is before another that is before it.
LEMMA ChunksAreOrdered ==
  ASSUME NEW stored, \A d \in DOMAIN stored : d \in Documents /\ stored[d] \in Chunkings,
         NEW c, NEW e, DocumentOf(c) \in DOMAIN stored, DocumentOf(e) \in DOMAIN stored,
         ChunkBefore(stored, c, e), ChunkBefore(stored, e, c)
  PROVE  FALSE
<1>1. DocumentOf(c) \in Nat /\ DocumentOf(e) \in Nat
  BY DocumentIndexAssumption
<1>2. DocumentOf(c) = DocumentOf(e)
  BY <1>1 DEF ChunkBefore
<1> DEFINE chunks == ChunksNow(stored, DocumentOf(c))
<1>3. chunks \in Seq(Nat) /\ IsInjective(chunks)
  BY ChunksAreDistinct DEF ChunksNow
<1>4. /\ \E m, n \in DOMAIN chunks : m < n /\ chunks[m] = c /\ chunks[n] = e
      /\ \E m, n \in DOMAIN chunks : m < n /\ chunks[m] = e /\ chunks[n] = c
  BY <1>1, <1>2 DEF ChunkBefore
<1> HIDE DEF chunks
<1>5. DOMAIN chunks = 1..Len(chunks) /\ Len(chunks) \in Nat
  BY <1>3, LenProperties
<1>6. PICK m, n \in DOMAIN chunks : m < n /\ chunks[m] = c /\ chunks[n] = e
  BY <1>4
<1>7. PICK k, l \in DOMAIN chunks : k < l /\ chunks[k] = e /\ chunks[l] = c
  BY <1>4
<1>8. m = l /\ n = k
  BY <1>3, <1>6, <1>7 DEF IsInjective
<1> QED
  BY <1>5, <1>6, <1>7, <1>8

LEMMA LengthOfInjective ==
  ASSUME NEW T, NEW s \in Seq(T), IsInjective(s)
  PROVE  Len(s) = Cardinality(ToSet(s))
<1>1. DOMAIN s = 1..Len(s) /\ Len(s) \in Nat
  BY LenProperties
<1>2. s \in [1..Len(s) -> ToSet(s)] /\ \A x \in ToSet(s) : \E n \in 1..Len(s) : s[n] = x
  <2>1. s = [n \in 1..Len(s) |-> s[n]]
    BY <1>1
  <2>2. \A n \in 1..Len(s) : s[n] \in ToSet(s)
    BY <1>1 DEF ToSet
  <2> QED
    BY <1>1, <2>1, <2>2 DEF ToSet
<1>3. s \in Bijection(1..Len(s), ToSet(s))
  BY <1>1, <1>2 DEF Bijection, Injection, Surjection, IsInjective
<1>4. IsFiniteSet(1..Len(s)) /\ Cardinality(1..Len(s)) = Len(s)
  BY <1>1, FS_Interval
<1>5. ExistsBijection(1..Len(s), ToSet(s))
  BY <1>3 DEF ExistsBijection
<1> QED
  BY <1>4, <1>5, FS_Bijection

\* The chunks of the artifacts make one corpus only.
LEMMA CorpusIsUnique ==
  ASSUME NEW stored, \A d \in DOMAIN stored : d \in Documents /\ stored[d] \in Chunkings,
         NEW s, NEW t, Reads(s, DOMAIN stored, stored), Reads(t, DOMAIN stored, stored)
  PROVE  s = t
<1> DEFINE S == UNION {ToSet(ChunksNow(stored, d)) : d \in DOMAIN stored}
<1>1. \A c \in S : DocumentOf(c) \in DOMAIN stored
  BY ChunksTellDocuments DEF ChunksNow
<1>2. /\ s \in Seq(Nat) /\ t \in Seq(Nat) /\ ToSet(s) = S /\ ToSet(t) = S
      /\ IsInOrder(s, stored) /\ IsInOrder(t, stored)
  BY DEF Reads
<1> HIDE DEF S
<1>3. \A c, e \in S : ~(ChunkBefore(stored, c, e) /\ ChunkBefore(stored, e, c))
  BY <1>1, ChunksAreOrdered
<1>4. ASSUME NEW u, u \in Seq(Nat), ToSet(u) = S, IsInOrder(u, stored)
      PROVE  IsInjective(u) /\ DOMAIN u = 1..Len(u) /\ Len(u) \in Nat /\ Len(u) = Cardinality(S)
  <2>1. DOMAIN u = 1..Len(u) /\ Len(u) \in Nat
    BY <1>4, LenProperties
  <2>2. \A n \in DOMAIN u : u[n] \in S
    BY <1>4 DEF ToSet
  <2>3. ASSUME NEW m \in DOMAIN u, NEW n \in DOMAIN u, m < n
        PROVE  u[m] # u[n]
    <3>1. ChunkBefore(stored, u[m], u[n])
      BY <1>4, <2>3 DEF IsInOrder
    <3> QED
      BY <1>3, <2>2, <3>1
  <2>4. IsInjective(u)
    BY <2>1, <2>3 DEF IsInjective
  <2> QED
    BY <1>4, <2>1, <2>4, LengthOfInjective
<1>5. /\ IsInjective(s) /\ DOMAIN s = 1..Len(s) /\ Len(s) \in Nat /\ Len(s) = Cardinality(S)
      /\ IsInjective(t) /\ DOMAIN t = 1..Len(t) /\ Len(t) = Len(s) /\ DOMAIN t = DOMAIN s
  BY <1>2, <1>4
<1> DEFINE D == {k \in DOMAIN s : s[k] # t[k]}
<1>6. ASSUME D # {} PROVE FALSE
  <2> DEFINE k == Min(D)
  <2>1. D \subseteq Nat
    BY <1>5
  <2>2. k \in D /\ \A n \in D : k <= n
    <3> HIDE DEF D
    <3> QED
      BY <1>6, <2>1, LeastIsThere
  <2> HIDE DEF k
  <2>3. k \in DOMAIN s /\ s[k] # t[k] /\ \A n \in DOMAIN s : n < k => s[n] = t[n]
    <3>1. \A n \in DOMAIN s : n \in D \/ s[n] = t[n]
      OBVIOUS
    <3>2. \A n \in DOMAIN s : n < k => n \notin D
      BY <1>5, <2>1, <2>2
    <3> QED
      BY <2>2, <3>1, <3>2
  <2>4. ChunkBefore(stored, t[k], s[k])
    <3>1. PICK m \in DOMAIN t : t[m] = s[k]
      BY <1>2, <2>3 DEF ToSet
    <3>2. ~(m < k)
      BY <1>5, <2>3, <3>1 DEF IsInjective
    <3>3. k < m
      BY <1>5, <2>3, <3>1, <3>2
    <3> QED
      BY <1>2, <1>5, <2>3, <3>1, <3>3 DEF IsInOrder
  <2>5. ChunkBefore(stored, s[k], t[k])
    <3>1. PICK m \in DOMAIN s : s[m] = t[k]
      BY <1>2, <1>5, <2>3 DEF ToSet
    <3>2. ~(m < k)
      BY <1>5, <2>3, <3>1 DEF IsInjective
    <3>3. k < m
      BY <1>5, <2>3, <3>1, <3>2
    <3> QED
      BY <1>2, <1>5, <2>3, <3>1, <3>3 DEF IsInOrder
  <2>6. s[k] \in S /\ t[k] \in S
    BY <1>2, <1>5, <2>3 DEF ToSet
  <2> QED
    BY <1>3, <2>4, <2>5, <2>6
<1>7. \A k \in DOMAIN s : s[k] = t[k]
  BY <1>6
<1> QED
  BY <1>2, <1>5, <1>7

\* What two corpora say of their concatenation.
LEMMA Concatenated ==
  ASSUME NEW s \in Seq(Nat), NEW t \in Seq(Nat)
  PROVE  /\ s \o t \in Seq(Nat) /\ ToSet(s \o t) = ToSet(s) \cup ToSet(t)
         /\ \A m, n \in DOMAIN (s \o t) : m < n =>
              \/ m \in DOMAIN s /\ n \in DOMAIN s /\ (s \o t)[m] = s[m] /\ (s \o t)[n] = s[n]
              \/ \E i \in DOMAIN s, j \in DOMAIN t : (s \o t)[m] = s[i] /\ (s \o t)[n] = t[j]
              \/ \E i, j \in DOMAIN t : i < j /\ (s \o t)[m] = t[i] /\ (s \o t)[n] = t[j]
<1> DEFINE all == s \o t
           l == Len(s)
<1>1. /\ all \in Seq(Nat) /\ Len(all) = l + Len(t) /\ l \in Nat /\ Len(t) \in Nat
      /\ \A n \in 1..Len(all) : all[n] = IF n <= l THEN s[n] ELSE t[n - l]
      /\ DOMAIN all = 1..Len(all) /\ DOMAIN s = 1..l /\ DOMAIN t = 1..Len(t)
  BY ConcatProperties, LenProperties
<1> HIDE DEF all, l
<1>2. ASSUME NEW n \in DOMAIN all
      PROVE  \/ n <= l /\ n \in DOMAIN s /\ all[n] = s[n]
             \/ ~(n <= l) /\ n - l \in DOMAIN t /\ all[n] = t[n - l]
  BY <1>1
<1>3. \A n \in DOMAIN s : n \in DOMAIN all /\ all[n] = s[n]
  BY <1>1
<1>4. ASSUME NEW n \in DOMAIN t
      PROVE  \E k \in DOMAIN all : all[k] = t[n]
  <2>1. l + n \in DOMAIN all /\ ~(l + n <= l) /\ (l + n) - l = n
    BY <1>1
  <2>2. all[l + n] = t[n]
    BY <1>1, <2>1
  <2> QED
    BY <2>1, <2>2
<1>5. ToSet(all) = ToSet(s) \cup ToSet(t)
  <2>1. ToSet(all) \subseteq ToSet(s) \cup ToSet(t)
    BY <1>2 DEF ToSet
  <2>2. ToSet(s) \subseteq ToSet(all)
    BY <1>3 DEF ToSet
  <2>3. ToSet(t) \subseteq ToSet(all)
    BY <1>4 DEF ToSet
  <2> QED
    BY <2>1, <2>2, <2>3
<1>6. ASSUME NEW m \in DOMAIN all, NEW n \in DOMAIN all, m < n
      PROVE  \/ m \in DOMAIN s /\ n \in DOMAIN s /\ all[m] = s[m] /\ all[n] = s[n]
             \/ \E i \in DOMAIN s, j \in DOMAIN t : all[m] = s[i] /\ all[n] = t[j]
             \/ \E i, j \in DOMAIN t : i < j /\ all[m] = t[i] /\ all[n] = t[j]
  <2>1. CASE n <= l /\ n \in DOMAIN s /\ all[n] = s[n]
    <3>1. m <= l
      BY <1>1, <1>6, <2>1
    <3> QED
      BY <1>2, <2>1, <3>1
  <2>2. CASE n - l \in DOMAIN t /\ all[n] = t[n - l] /\ m \in DOMAIN s /\ all[m] = s[m]
    BY <2>2
  <2>3. CASE n - l \in DOMAIN t /\ all[n] = t[n - l] /\ m - l \in DOMAIN t /\ all[m] = t[m - l]
    <3>1. m - l < n - l
      BY <1>1, <1>6
    <3> QED
      BY <2>3, <3>1
  <2> QED
    BY <1>2, <2>1, <2>2, <2>3
<1> QED
  BY <1>1, <1>5, <1>6 DEF all

\* Reading the next artifact, in the order of the names.
LEMMA ReadingInOrder ==
  ASSUME NEW stored, \A d \in DOMAIN stored : d \in Documents /\ stored[d] \in Chunkings,
         NEW documents, documents \subseteq DOMAIN stored, NEW corpus, Reads(corpus, documents, stored),
         NEW d \in DOMAIN stored, \A e \in documents : e < d
  PROVE  Reads(corpus \o ChunksNow(stored, d), documents \cup {d}, stored)
<1> DEFINE chunks == ChunksNow(stored, d)
           all == corpus \o chunks
<1>1. chunks \in Seq(Nat) /\ IsInjective(chunks) /\ \A n \in DOMAIN chunks : DocumentOf(chunks[n]) = d
  <2>1. chunks \in Seq(Nat) /\ IsInjective(chunks)
    BY ChunksAreDistinct DEF ChunksNow
  <2>2. \A c \in ToSet(chunks) : DocumentOf(c) = d
    BY ChunksTellDocuments DEF ChunksNow
  <2> QED
    BY <2>1, <2>2 DEF ToSet
<1>2. /\ corpus \in Seq(Nat) /\ IsInOrder(corpus, stored)
      /\ ToSet(corpus) = UNION {ToSet(ChunksNow(stored, e)) : e \in documents}
  BY DEF Reads
<1>3. \A n \in DOMAIN corpus : DocumentOf(corpus[n]) < d
  <2>1. \A e \in documents : \A c \in ToSet(ChunksNow(stored, e)) : DocumentOf(c) = e
    BY ChunksTellDocuments DEF ChunksNow
  <2>2. \A n \in DOMAIN corpus : corpus[n] \in ToSet(corpus)
    BY DEF ToSet
  <2>3. \A n \in DOMAIN corpus : \E e \in documents : corpus[n] \in ToSet(ChunksNow(stored, e))
    BY <1>2, <2>2
  <2> QED
    BY <2>1, <2>3
<1>4. all \in Seq(Nat) /\ ToSet(all) = ToSet(corpus) \cup ToSet(chunks)
  BY <1>1, <1>2, Concatenated
<1>5. ASSUME NEW m \in DOMAIN all, NEW n \in DOMAIN all, m < n
      PROVE  ChunkBefore(stored, all[m], all[n])
  <2>1. \/ m \in DOMAIN corpus /\ n \in DOMAIN corpus /\ all[m] = corpus[m] /\ all[n] = corpus[n]
        \/ \E i \in DOMAIN corpus, j \in DOMAIN chunks : all[m] = corpus[i] /\ all[n] = chunks[j]
        \/ \E i, j \in DOMAIN chunks : i < j /\ all[m] = chunks[i] /\ all[n] = chunks[j]
    BY <1>1, <1>2, <1>5, Concatenated
  <2>2. CASE m \in DOMAIN corpus /\ n \in DOMAIN corpus /\ all[m] = corpus[m] /\ all[n] = corpus[n]
    BY <1>2, <1>5, <2>2 DEF IsInOrder
  <2>3. ASSUME NEW i \in DOMAIN corpus, NEW j \in DOMAIN chunks, all[m] = corpus[i], all[n] = chunks[j]
        PROVE  ChunkBefore(stored, all[m], all[n])
    <3>1. DocumentOf(all[m]) < DocumentOf(all[n])
      BY <1>1, <1>3, <2>3
    <3> QED
      BY <3>1 DEF ChunkBefore
  <2>4. ASSUME NEW i \in DOMAIN chunks, NEW j \in DOMAIN chunks, i < j,
               all[m] = chunks[i], all[n] = chunks[j]
        PROVE  ChunkBefore(stored, all[m], all[n])
    <3>1. DocumentOf(all[m]) = d /\ DocumentOf(all[n]) = d
      BY <1>1, <2>4
    <3> HIDE DEF all
    <3>2. \E k, l \in DOMAIN ChunksNow(stored, d) :
            k < l /\ ChunksNow(stored, d)[k] = all[m] /\ ChunksNow(stored, d)[l] = all[n]
      BY <2>4
    <3> QED
      BY <3>1, <3>2 DEF ChunkBefore
  <2> QED
    BY <2>1, <2>2, <2>3, <2>4
<1>6. ToSet(corpus) \cup ToSet(chunks)
        = UNION {ToSet(ChunksNow(stored, e)) : e \in documents \cup {d}}
  BY <1>2
<1> QED
  BY <1>4, <1>5, <1>6 DEF Reads, IsInOrder

LEMMA NothingIsRead ==
  ASSUME NEW stored
  PROVE  Reads(<<>>, {}, stored)
<1>1. <<>> \in Seq(Nat) /\ DOMAIN <<>> = {}
  BY EmptySeq
<1> QED
  BY <1>1, EmptyCorpus DEF Reads, IsInOrder

\* A run goes on to hold `run', while nothing is stored.
LEMMA FreshRunMoves ==
  ASSUME SourcesInv, FreshInv, NEW i \in Indexers, NEW run, BecomesIndexer(i, run),
         UNCHANGED disk, RunIsFresh(run, artifacts, writes),
         \/ UNCHANGED <<snapshot, snapshot_of>>
         \/ snapshot_of' = writes => Reads(snapshot', DOMAIN artifacts, artifacts)
  PROVE  FreshInv'
<1>1. indexer'[i] = run /\ \A j \in Indexers : j # i => indexer'[j] = indexer[j]
  BY DEF BecomesIndexer, SourcesInv, IndexInv
<1>2. UNCHANGED <<artifacts, writes>>
  BY DEF disk
<1>3. \A j \in Indexers : RunIsFresh(indexer'[j], artifacts, writes)
  BY <1>1 DEF FreshInv
<1>4. snapshot' # <<>> /\ snapshot_of' = writes => Reads(snapshot', DOMAIN artifacts, artifacts)
  BY DEF FreshInv
<1> QED
  BY <1>2, <1>3, <1>4 DEF FreshInv

\* A run that neither reads nor has read.
LEMMA OthersAreFresh ==
  ASSUME NEW run, run.pc \notin {"read", "check", "replace"}, NEW stored, NEW count
  PROVE  RunIsFresh(run, stored, count)
  BY DEF RunIsFresh

LEMMA ExitStaysFresh ==
  ASSUME SourcesInv, FreshInv, NEW i \in Indexers, NEW how, Exits(i, how), UNCHANGED disk,
         \/ UNCHANGED <<snapshot, snapshot_of>>
         \/ snapshot_of' = writes => Reads(snapshot', DOMAIN artifacts, artifacts)
  PROVE  FreshInv'
<1> DEFINE run == [NoIndexer EXCEPT !.pc = "exited", !.exit = how]
<1>1. BecomesIndexer(i, run) /\ run.pc = "exited"
  BY DEF Exits, NoIndexer
<1> HIDE DEF run
<1> QED
  BY <1>1, OthersAreFresh, FreshRunMoves

\* A run whose next step neither reads nor compares.
LEMMA StepStaysFresh ==
  ASSUME SourcesInv, FreshInv, NEW i \in Indexers, NEW run, BecomesIndexer(i, run), UNCHANGED disk,
         run.pc \notin {"read", "check", "replace"}, UNCHANGED <<snapshot, snapshot_of>>
  PROVE  FreshInv'
  BY OthersAreFresh, FreshRunMoves

LEMMA SparseDoneStaysFresh ==
  ASSUME SourcesInv, FreshInv, NEW i \in Indexers, SparseDone(i), UNCHANGED disk,
         \/ UNCHANGED <<snapshot, snapshot_of>>
         \/ snapshot_of' = writes => Reads(snapshot', DOMAIN artifacts, artifacts)
  PROVE  FreshInv'
<1>1. CASE "dense" \in indexer[i].build
  <2> DEFINE run == [indexer[i] EXCEPT !.pc = "list", !.build = {"dense"}]
  <2>1. BecomesIndexer(i, run)
    BY <1>1 DEF SparseDone
  <2>2. run.pc = "list"
    BY DEF SourcesInv, IndexInv, IsRun, Fields
  <2> HIDE DEF run
  <2> QED
    BY <2>1, <2>2, OthersAreFresh, FreshRunMoves
<1>2. CASE "dense" \notin indexer[i].build
  <2>1. Exits(i, "completed")
    BY <1>2 DEF SparseDone
  <2> QED
    BY <2>1, ExitStaysFresh
<1> QED
  BY <1>1, <1>2

LEMMA ListArtifactsStaysFresh ==
  ASSUME SourcesInv, FreshInv, NEW i \in Indexers, ListArtifacts(i)
  PROVE  FreshInv'
<1>1. UNCHANGED <<disk, snapshot, snapshot_of>>
  BY DEF ListArtifacts
<1>2. CASE DOMAIN artifacts = {}
  <2>1. Exits(i, "no_artifacts")
    BY <1>2 DEF ListArtifacts
  <2> QED
    BY <1>1, <2>1, ExitStaysFresh
<1>3. CASE DOMAIN artifacts # {}
  <2>1. PICK paths \in Paths(DOMAIN artifacts) : BecomesIndexer(i, Reading(indexer[i], paths))
    BY <1>3 DEF ListArtifacts
  <2>2. DOMAIN artifacts \in SUBSET Documents /\ IsFiniteSet(DOMAIN artifacts)
    BY DEF SourcesInv, IndexInv
  <2>3. ToSet(paths) = DOMAIN artifacts
    BY <1>3, <2>2, PathsListAll
  <2>4. \A m, n \in DOMAIN paths : m < n => paths[m] < paths[n]
    BY DEF Paths
  <2> DEFINE run == Reading(indexer[i], paths)
  <2>5. run.pc = "read" /\ run.paths = paths /\ run.corpus = <<>>
    BY DEF SourcesInv, IndexInv, IsRun, Fields, Reading
  <2>6. BecomesIndexer(i, run)
    BY <2>1
  <2> HIDE DEF run
  <2>7. DOMAIN artifacts \ ToSet(run.paths) = {}
    BY <2>3, <2>5
  <2>8. RunIsFresh(run, artifacts, writes)
    BY <2>4, <2>5, <2>7, NothingIsRead DEF RunIsFresh
  <2> QED
    BY <1>1, <2>6, <2>8, FreshRunMoves
<1> QED
  BY <1>2, <1>3

LEMMA ReadArtifactStaysFresh ==
  ASSUME SourcesInv, FreshInv, NEW i \in Indexers, ReadArtifact(i)
  PROVE  FreshInv'
<1> DEFINE held == indexer[i]
           d == Head(held.paths)
           rest == Tail(held.paths)
           chunks == ChunksOf[d][artifacts[d]]
           run == [held EXCEPT !.corpus = @ \o chunks, !.paths = rest, !.at = 0,
                               !.pc = IF rest # <<>> THEN "read"
                                      ELSE IF "sparse" \in held.build THEN "check" ELSE "batch"]
<1>1. UNCHANGED <<disk, snapshot, snapshot_of>> /\ BecomesIndexer(i, run) /\ held.pc = "read"
  BY DEF ReadArtifact, Indexing
<1>2. /\ held.paths \in Seq(Documents) /\ held.paths # <<>> /\ ToSet(held.paths) \subseteq DOMAIN artifacts
      /\ IsInjective(held.paths) /\ IsRun(held)
  BY <1>1 DEF SourcesInv, IndexInv, RunKeeps, IsRun, RunsInv, RunHolds
<1>3. RunIsFresh(held, artifacts, writes)
  BY DEF FreshInv
<1>4. /\ run.corpus = held.corpus \o chunks /\ run.paths = rest /\ run.began = held.began
      /\ run.pc = "read" => rest # <<>>
      /\ run.pc \in {"check", "replace"} => rest = <<>>
  BY <1>2 DEF IsRun, Fields
<1>5. chunks = ChunksNow(artifacts, d)
  BY DEF ChunksNow
<1> DEFINE paths == held.paths
<1>6. paths \in Seq(Documents) /\ paths # <<>> /\ IsInjective(paths)
  BY <1>2
<1>7. d = Head(paths) /\ rest = Tail(paths) /\ held.paths = paths
  OBVIOUS
<1> HIDE DEF run, chunks, rest, d, paths, held
<1>8. /\ d \in Documents /\ rest \in Seq(Documents) /\ d \notin ToSet(rest)
      /\ ToSet(paths) = {d} \cup ToSet(rest)
  BY <1>6, <1>7, FirstAndRest
<1>9. /\ DOMAIN paths = 1..Len(paths) /\ Len(paths) \in Nat /\ Len(paths) # 0 /\ d = paths[1]
      /\ DOMAIN rest = 1..(Len(paths) - 1) /\ \A n \in 1..(Len(paths) - 1) : rest[n] = paths[n + 1]
  <2>1. Len(paths) \in Nat /\ Len(paths) # 0 /\ DOMAIN paths = 1..Len(paths)
    BY <1>6, EmptySeq, LenProperties
  <2>2. /\ Head(paths) = paths[1] /\ Len(Tail(paths)) = Len(paths) - 1
        /\ \A n \in 1..Len(Tail(paths)) : Tail(paths)[n] = paths[n + 1]
    BY <1>6, HeadTailProperties
  <2>3. DOMAIN rest = 1..Len(rest)
    BY <1>8, LenProperties
  <2> QED
    BY <1>7, <2>1, <2>2, <2>3
<1>10. \A e \in DOMAIN artifacts : e \in Documents /\ artifacts[e] \in Chunkings
  BY DEF SourcesInv, IndexInv
<1>11. ASSUME run.began = writes
       PROVE  /\ \A m, n \in DOMAIN rest : m < n => rest[m] < rest[n]
              /\ \A e \in DOMAIN artifacts \ ToSet(rest), n \in DOMAIN rest : e < rest[n]
              /\ Reads(run.corpus, DOMAIN artifacts \ ToSet(rest), artifacts)
  <2> DEFINE documents == DOMAIN artifacts \ ToSet(paths)
  <2>1. /\ \A m, n \in DOMAIN paths : m < n => paths[m] < paths[n]
        /\ \A e \in documents, n \in DOMAIN paths : e < paths[n]
        /\ Reads(held.corpus, documents, artifacts)
    BY <1>1, <1>3, <1>4, <1>7, <1>11 DEF RunIsFresh
  <2>2. d \in DOMAIN artifacts /\ DOMAIN artifacts \ ToSet(rest) = documents \cup {d}
        /\ documents \subseteq DOMAIN artifacts
    BY <1>2, <1>7, <1>8
  <2> HIDE DEF documents
  <2>3. \A e \in documents : e < d
    BY <1>9, <2>1
  <2>4. Reads(held.corpus \o ChunksNow(artifacts, d), documents \cup {d}, artifacts)
    BY <1>10, <2>1, <2>2, <2>3, ReadingInOrder
  <2>5. Reads(run.corpus, DOMAIN artifacts \ ToSet(rest), artifacts)
    BY <1>4, <1>5, <2>2, <2>4
  <2>6. \A n \in DOMAIN rest : n + 1 \in DOMAIN paths /\ rest[n] = paths[n + 1]
    BY <1>9
  <2>7. \A m, n \in DOMAIN rest : m < n => rest[m] < rest[n]
    <3>1. \A m, n \in DOMAIN rest : m < n => m + 1 < n + 1
      BY <1>9
    <3> QED
      BY <2>1, <2>6, <3>1
  <2>8. ASSUME NEW e \in documents \cup {d}, NEW n \in DOMAIN rest
        PROVE  e < rest[n]
    <3>1. 1 < n + 1 /\ 1 \in DOMAIN paths
      BY <1>9
    <3> QED
      BY <1>9, <2>1, <2>6, <2>8, <3>1
  <2> QED
    BY <2>2, <2>5, <2>7, <2>8
<1>12. rest = <<>> => DOMAIN artifacts \ ToSet(rest) = DOMAIN artifacts
  BY EmptyCorpus
<1>13. RunIsFresh(run, artifacts, writes)
  BY <1>4, <1>11, <1>12 DEF RunIsFresh
<1> QED
  BY <1>1, <1>13, FreshRunMoves

Refuses(i) == indexer'[i].exit = "already_exists" /\ indexer[i].exit # "already_exists"

RefusalsAreOfNews ==
  \A i \in Indexers : Refuses(i) => writes > Min({snapshot_of, indexer[i].began})

\* A run that goes on, or exits otherwise.
LEMMA OthersDoNotRefuse ==
  ASSUME IndexInv, NEW i \in Indexers, NEW run, BecomesIndexer(i, run),
         run.exit = indexer[i].exit \/ run.exit # "already_exists"
  PROVE  RefusalsAreOfNews
<1>1. indexer'[i] = run /\ \A j \in Indexers : j # i => indexer'[j] = indexer[j]
  BY DEF BecomesIndexer, IndexInv
<1> QED
  BY <1>1 DEF RefusalsAreOfNews, Refuses

LEMMA ExitDoesNotRefuse ==
  ASSUME IndexInv, NEW i \in Indexers, NEW how, how # "already_exists", Exits(i, how)
  PROVE  RefusalsAreOfNews
<1> DEFINE run == [NoIndexer EXCEPT !.pc = "exited", !.exit = how]
<1>1. BecomesIndexer(i, run) /\ run.exit = how
  BY DEF Exits, NoIndexer
<1> HIDE DEF run
<1> QED
  BY <1>1, OthersDoNotRefuse

LEMMA SparseDoneDoesNotRefuse ==
  ASSUME IndexInv, NEW i \in Indexers, SparseDone(i)
  PROVE  RefusalsAreOfNews
<1>1. CASE "dense" \in indexer[i].build
  <2> DEFINE run == [indexer[i] EXCEPT !.pc = "list", !.build = {"dense"}]
  <2>1. BecomesIndexer(i, run)
    BY <1>1 DEF SparseDone
  <2>2. run.exit = indexer[i].exit
    BY DEF IndexInv, IsRun, Fields
  <2> HIDE DEF run
  <2> QED
    BY <2>1, <2>2, OthersDoNotRefuse
<1>2. CASE "dense" \notin indexer[i].build
  <2>1. Exits(i, "completed")
    BY <1>2 DEF SparseDone
  <2> QED
    BY <2>1, ExitDoesNotRefuse
<1> QED
  BY <1>1, <1>2

LEMMA StartIndexingStays ==
  ASSUME SourcesInv, FreshInv, NEW i \in Indexers, StartIndexing(i)
  PROVE  FreshInv' /\ RefusalsAreOfNews
<1>1. UNCHANGED <<disk, snapshot, snapshot_of>>
  BY DEF StartIndexing
<1>2. PICK build :
        BecomesIndexer(i, [NoIndexer EXCEPT !.pc = "list", !.build = build, !.began = writes,
                                            !.known = DOMAIN artifacts])
  BY DEF StartIndexing
<1> DEFINE run == [NoIndexer EXCEPT !.pc = "list", !.build = build, !.began = writes,
                                    !.known = DOMAIN artifacts]
<1>3. BecomesIndexer(i, run) /\ run.pc = "list" /\ run.exit = "none"
  BY <1>2 DEF NoIndexer
<1> HIDE DEF run
<1>4. RefusalsAreOfNews
  BY <1>3, OthersDoNotRefuse DEF SourcesInv
<1> QED
  BY <1>1, <1>3, <1>4, StepStaysFresh

LEMMA ListArtifactsStays ==
  ASSUME SourcesInv, FreshInv, NEW i \in Indexers, ListArtifacts(i)
  PROVE  FreshInv' /\ RefusalsAreOfNews
<1>1. ASSUME NEW paths, BecomesIndexer(i, Reading(indexer[i], paths))
      PROVE  RefusalsAreOfNews
  <2> DEFINE run == Reading(indexer[i], paths)
  <2>1. run.exit = indexer[i].exit
    BY DEF SourcesInv, IndexInv, IsRun, Fields, Reading
  <2>2. BecomesIndexer(i, run)
    BY <1>1
  <2> HIDE DEF run
  <2> QED
    BY <2>1, <2>2, OthersDoNotRefuse DEF SourcesInv
<1>2. Exits(i, "no_artifacts") \/ \E paths : BecomesIndexer(i, Reading(indexer[i], paths))
  BY DEF ListArtifacts
<1> QED
  BY <1>1, <1>2, ExitDoesNotRefuse, ListArtifactsStaysFresh DEF SourcesInv

LEMMA ReadArtifactStays ==
  ASSUME SourcesInv, FreshInv, NEW i \in Indexers, ReadArtifact(i)
  PROVE  FreshInv' /\ RefusalsAreOfNews
<1> DEFINE held == indexer[i]
           d == Head(held.paths)
           rest == Tail(held.paths)
           run == [held EXCEPT !.corpus = @ \o ChunksOf[d][artifacts[d]], !.paths = rest, !.at = 0,
                               !.pc = IF rest # <<>> THEN "read"
                                      ELSE IF "sparse" \in held.build THEN "check" ELSE "batch"]
<1>1. BecomesIndexer(i, run)
  BY DEF ReadArtifact
<1>2. run.exit = held.exit
  BY DEF SourcesInv, IndexInv, IsRun, Fields
<1> HIDE DEF run
<1> QED
  BY <1>1, <1>2, OthersDoNotRefuse, ReadArtifactStaysFresh DEF SourcesInv

\* A run that repeats another finds the snapshot that it would write.
LEMMA CheckSnapshotStays ==
  ASSUME SourcesInv, FreshInv, NEW i \in Indexers, CheckSnapshot(i)
  PROVE  FreshInv' /\ RefusalsAreOfNews
<1>1. UNCHANGED <<disk, snapshot, snapshot_of>> /\ indexer[i].pc = "check"
  BY DEF CheckSnapshot, Indexing
<1>2. \/ BecomesIndexer(i, [indexer[i] EXCEPT !.pc = "replace"])
      \/ SparseDone(i)
      \/ snapshot # <<>> /\ snapshot # indexer[i].corpus /\ Exits(i, "already_exists")
  BY DEF CheckSnapshot
<1>3. CASE BecomesIndexer(i, [indexer[i] EXCEPT !.pc = "replace"])
  <2> DEFINE run == [indexer[i] EXCEPT !.pc = "replace"]
  <2>1. /\ BecomesIndexer(i, run) /\ run.pc = "replace" /\ run.exit = indexer[i].exit
        /\ run.corpus = indexer[i].corpus /\ run.began = indexer[i].began
    BY <1>3 DEF SourcesInv, IndexInv, IsRun, Fields
  <2> HIDE DEF run
  <2>2. RunIsFresh(indexer[i], artifacts, writes)
    BY DEF FreshInv
  <2>3. RunIsFresh(run, artifacts, writes)
    BY <1>1, <2>1, <2>2 DEF RunIsFresh
  <2> QED
    BY <1>1, <2>1, <2>3, FreshRunMoves, OthersDoNotRefuse DEF SourcesInv
<1>4. CASE SparseDone(i)
  BY <1>1, <1>4, SparseDoneStaysFresh, SparseDoneDoesNotRefuse DEF SourcesInv
<1>5. CASE snapshot # <<>> /\ snapshot # indexer[i].corpus /\ Exits(i, "already_exists")
  <2>1. FreshInv'
    BY <1>1, <1>5, ExitStaysFresh
  <2>2. snapshot_of \in 0..writes /\ indexer[i].began \in 0..writes /\ writes \in Nat
    BY DEF SourcesInv, StoresInv, RunsInv, RunHolds, IndexInv
  <2>3. ~(snapshot_of = writes /\ indexer[i].began = writes)
    <3>1. \A d \in DOMAIN artifacts : d \in Documents /\ artifacts[d] \in Chunkings
      BY DEF SourcesInv, IndexInv
    <3>2. snapshot_of = writes => Reads(snapshot, DOMAIN artifacts, artifacts)
      BY <1>5 DEF FreshInv
    <3>3. indexer[i].began = writes => Reads(indexer[i].corpus, DOMAIN artifacts, artifacts)
      BY <1>1 DEF FreshInv, RunIsFresh
    <3> QED
      BY <1>5, <3>1, <3>2, <3>3, CorpusIsUnique
  <2>4. Min({snapshot_of, indexer[i].began})
          = IF snapshot_of <= indexer[i].began THEN snapshot_of ELSE indexer[i].began
    BY <2>2, MinOfTwo
  <2>5. writes > Min({snapshot_of, indexer[i].began})
    BY <2>2, <2>3, <2>4
  <2>6. \A j \in Indexers : j # i => indexer'[j] = indexer[j]
    BY <1>5 DEF Exits, BecomesIndexer, SourcesInv, IndexInv
  <2>7. RefusalsAreOfNews
    BY <2>5, <2>6 DEF RefusalsAreOfNews, Refuses
  <2> QED
    BY <2>1, <2>7
<1> QED
  BY <1>2, <1>3, <1>4, <1>5

LEMMA ReplaceSnapshotStays ==
  ASSUME SourcesInv, FreshInv, NEW i \in Indexers, ReplaceSnapshot(i)
  PROVE  FreshInv' /\ RefusalsAreOfNews
<1>1. /\ UNCHANGED disk /\ SparseDone(i) /\ indexer[i].pc = "replace"
      /\ snapshot' = indexer[i].corpus /\ snapshot_of' = indexer[i].began
  BY DEF ReplaceSnapshot, Indexing
<1>2. snapshot_of' = writes => Reads(snapshot', DOMAIN artifacts, artifacts)
  BY <1>1 DEF FreshInv, RunIsFresh
<1> QED
  BY <1>1, <1>2, SparseDoneStaysFresh, SparseDoneDoesNotRefuse DEF SourcesInv

\* The steps of the dense part.
LEMMA DensePartStays ==
  ASSUME SourcesInv, FreshInv, NEW i \in Indexers,
         EmbedBatch(i) \/ CreateCollection(i) \/ Upsert(i) \/ Crash(i)
  PROVE  FreshInv' /\ RefusalsAreOfNews
<1>1. UNCHANGED <<disk, snapshot, snapshot_of>>
  BY DEF EmbedBatch, CreateCollection, Upsert, Crash
<1>2. \/ \E how \in {"failed", "completed", "crashed"} : Exits(i, how)
      \/ BecomesIndexer(i, [indexer[i] EXCEPT !.pc = "create"])
      \/ BecomesIndexer(i, [indexer[i] EXCEPT !.pc = "upsert"])
      \/ BecomesIndexer(i, [indexer[i] EXCEPT !.pc = "batch", !.at = indexer[i].at + BatchSize])
  BY DEF EmbedBatch, CreateCollection, Upsert, Crash
<1>3. DOMAIN indexer[i] = Fields
  BY DEF SourcesInv, IndexInv, IsRun
<1>4. ASSUME NEW run, BecomesIndexer(i, run), run.pc \in {"create", "upsert", "batch"},
             run.exit = indexer[i].exit
      PROVE  FreshInv' /\ RefusalsAreOfNews
  BY <1>1, <1>4, StepStaysFresh, OthersDoNotRefuse DEF SourcesInv
<1>5. ASSUME NEW to \in {"create", "upsert"}, BecomesIndexer(i, [indexer[i] EXCEPT !.pc = to])
      PROVE  FreshInv' /\ RefusalsAreOfNews
  <2> DEFINE run == [indexer[i] EXCEPT !.pc = to]
  <2>1. BecomesIndexer(i, run) /\ run.pc = to /\ run.exit = indexer[i].exit
    BY <1>3, <1>5 DEF Fields
  <2> HIDE DEF run
  <2> QED
    BY <1>4, <2>1
<1>6. ASSUME BecomesIndexer(i, [indexer[i] EXCEPT !.pc = "batch", !.at = indexer[i].at + BatchSize])
      PROVE  FreshInv' /\ RefusalsAreOfNews
  <2> DEFINE run == [indexer[i] EXCEPT !.pc = "batch", !.at = indexer[i].at + BatchSize]
  <2>1. BecomesIndexer(i, run) /\ run.pc = "batch" /\ run.exit = indexer[i].exit
    BY <1>3, <1>6 DEF Fields
  <2> HIDE DEF run
  <2> QED
    BY <1>4, <2>1
<1>7. ASSUME NEW how \in {"failed", "completed", "crashed"}, Exits(i, how)
      PROVE  FreshInv' /\ RefusalsAreOfNews
  BY <1>1, <1>7, ExitStaysFresh, ExitDoesNotRefuse DEF SourcesInv
<1> QED
  BY <1>2, <1>5, <1>6, <1>7

LEMMA FreshInit == Init => FreshInv
<1> SUFFICES ASSUME Init
             PROVE  FreshInv
  OBVIOUS
<1>1. snapshot = <<>> /\ \A i \in Indexers : indexer[i] = NoIndexer
  BY DEF Init
<1>2. NoIndexer.pc = "idle"
  BY DEF NoIndexer
<1> QED
  BY <1>1, <1>2, OthersAreFresh DEF FreshInv

LEMMA FreshNext == SearchInv /\ FreshInv /\ [Next]_vars => FreshInv' /\ RefusalsAreOfNews
<1> SUFFICES ASSUME SearchInv, FreshInv, [Next]_vars
             PROVE  FreshInv' /\ RefusalsAreOfNews
  OBVIOUS
<1>1. SourcesInv
  BY DEF SearchInv
<1>2. ASSUME UNCHANGED <<disk, snapshot, snapshot_of, indexer>>
      PROVE  FreshInv' /\ RefusalsAreOfNews
  BY <1>2 DEF FreshInv, disk, RefusalsAreOfNews, Refuses
<1>3. CASE Ingest
  <2>1. /\ writes' = writes + 1 /\ writes \in Nat /\ UNCHANGED <<snapshot, snapshot_of, indexer>>
    BY <1>1, <1>3, IngestGrows
  <2>2. snapshot_of # writes' /\ \A i \in Indexers : indexer[i].began # writes'
    <3>1. snapshot_of \in 0..writes /\ \A i \in Indexers : indexer[i].began \in 0..writes
      BY <1>1 DEF SourcesInv, StoresInv, RunsInv, RunHolds
    <3> QED
      BY <2>1, <3>1
  <2> QED
    BY <2>1, <2>2 DEF FreshInv, RunIsFresh, RefusalsAreOfNews, Refuses
<1>4. ASSUME NEW i \in Indexers, Index(i)
      PROVE  FreshInv' /\ RefusalsAreOfNews
  BY <1>1, <1>4, StartIndexingStays, ListArtifactsStays, ReadArtifactStays, CheckSnapshotStays,
     ReplaceSnapshotStays, DensePartStays DEF Index
<1>5. ASSUME NEW s \in Searchers, SearchStep(s)
      PROVE  FreshInv' /\ RefusalsAreOfNews
  <2>1. UNCHANGED <<disk, snapshot, snapshot_of, indexer>>
    BY <1>5 DEF SearchStep, Open, Load, StartSearch, SearchDense, Rerank, Serve
  <2> QED
    BY <1>2, <2>1
<1>6. CASE UNCHANGED vars
  BY <1>2, <1>6 DEF vars
<1> QED
  BY <1>3, <1>4, <1>5, <1>6 DEF Next

\* Whatever completed, failed or crashed before, a run of evidenceops-index that repeats its
\* work finds the snapshot it would write: it is only refused when artifacts were stored since
\* it, or the run that wrote the snapshot, began (sparse_store.py write, bm25.py
\* Bm25IndexBuilder.build).
THEOREM RetriesAreAccepted == Spec => RetriesAreNotRefused
<1>1. RefusalsAreOfNews =>
        \A i \in Indexers :
          indexer'[i].exit = "already_exists" /\ indexer[i].exit # "already_exists"
            => writes > Min({snapshot_of, indexer[i].began})
  BY DEF RefusalsAreOfNews, Refuses
<1> QED
  BY <1>1, SearchInvHolds, FreshInit, FreshNext, PTL DEF Spec, RetriesAreNotRefused
=============================================================================
