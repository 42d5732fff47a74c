-------------------------- MODULE TextChunker_proofs --------------------------
(***************************************************************************)
(* Whatever the text, the limits and the sizes of its segments, the chunks  *)
(* of plain text lose nothing, overlap, and are bounded.                    *)
(***************************************************************************)
EXTENDS TextChunker, WellFoundedInduction, SequenceTheorems, TLAPS

-----------------------------------------------------------------------------
(* Words of an interval of segments.                                        *)

\* A set of numbers with an upper bound has a largest: the one nearest to the bound.
LEMMA LargestIsThere ==
  ASSUME NEW from \in Nat, NEW to \in Nat, NEW S \in SUBSET (from..to), S # {}
  PROVE  \E i \in S : \A k \in S : k <= i
<1> DEFINE Distances == {to - i : i \in S}
<1>1. Distances \subseteq Nat /\ Distances # {}
  OBVIOUS
<1>2. \E x \in Distances : \A y \in Distances : ~(<<y, x>> \in OpToRel(<, Nat))
  BY <1>1, NatLessThanWellFounded, WFMin, Zenon
<1>3. PICK x \in Distances : \A y \in Distances : ~(<<y, x>> \in OpToRel(<, Nat))
  BY <1>2
<1>4. \A y \in Distances : ~(y < x)
  BY <1>1, <1>3, Zenon DEF OpToRel
<1>5. PICK i \in S : x = to - i
  OBVIOUS
<1>6. \A k \in S : ~(to - k < to - i)
  BY <1>4, <1>5
<1> QED
  BY <1>6

\* Each segment has words, and no more than leave room for an overlap.
SegmentsFit(ends) ==
  /\ ends \in Seq(Nat)
  /\ \A i \in 1..Len(ends) : ends[i] - WordsBefore(ends, i) \in 1..(MaxWords - OverlapWords)

LEMMA Limits ==
  /\ TargetWords \in Nat /\ MaxWords \in Nat /\ OverlapWords \in Nat
  /\ 1 <= OverlapWords /\ OverlapWords < TargetWords /\ TargetWords <= MaxWords
  /\ \A size \in SegmentSizes : size \in Nat /\ 1 <= size /\ size <= MaxWords - OverlapWords
BY ChunkerAssumption DEF ChunkerAssumption

LEMMA WordsAreIntegers ==
  ASSUME NEW ends \in Seq(Nat), NEW from \in Nat, NEW to \in Nat,
         1 <= from, from <= Len(ends) + 1, 1 <= to, to <= Len(ends)
  PROVE  /\ WordsBefore(ends, from) \in Nat /\ ends[to] \in Nat
         /\ WordsIn(ends, from, to) \in Int
<1>1. Len(ends) \in Nat /\ \A i \in 1..Len(ends) : ends[i] \in Nat
  OBVIOUS
<1>2. CASE from = 1
  BY <1>1, <1>2 DEF WordsBefore, WordsIn
<1>3. CASE from # 1
  <2>1. from - 1 \in 1..Len(ends)
    BY <1>1, <1>3
  <2> QED
    BY <1>1, <1>3, <2>1 DEF WordsBefore, WordsIn
<1> QED
  BY <1>2, <1>3

\* Words are counted from one segment to the next.
LEMMA WordsOfTheRest ==
  ASSUME NEW ends \in Seq(Nat), NEW from \in Nat, NEW to \in Nat,
         1 <= from, from < to, to <= Len(ends)
  PROVE  WordsIn(ends, from, to) = ends[from] - WordsBefore(ends, from) + WordsIn(ends, from + 1, to)
<1>1. from + 1 # 1 /\ (from + 1) - 1 = from
  OBVIOUS
<1>2. Len(ends) \in Nat /\ from <= Len(ends) /\ from <= Len(ends) + 1 /\ 1 <= to
  OBVIOUS
<1>3. ends[from] \in Nat /\ ends[to] \in Nat
  BY <1>2
<1>4. WordsBefore(ends, from) \in Nat
  BY <1>2, WordsAreIntegers
<1>5. WordsBefore(ends, from + 1) = ends[from]
  BY <1>1 DEF WordsBefore
<1> QED
  BY <1>3, <1>4, <1>5 DEF WordsIn

\* _overlap (text_chunker.py 96-104): what a chunk hands on is the end of it, all of it or at
\* least OverlapWords words, and never as much as MaxWords unless the chunk is.
LEMMA OverlapIsAnEnd ==
  ASSUME NEW ends, SegmentsFit(ends), NEW to \in 1..Len(ends), NEW from \in 1..to,
         NEW i, i = OverlapStart(ends, from, to)
  PROVE  /\ i \in from..to
         /\ i = from \/ WordsIn(ends, i, to) >= OverlapWords
         /\ WordsIn(ends, i, to) < MaxWords
<1> DEFINE enough == {k \in from..to : WordsIn(ends, k, to) >= OverlapWords}
<1> USE Limits
<1>0. ends \in Seq(Nat) /\ Len(ends) \in Nat /\ from \in Nat /\ to \in Nat
  BY DEF SegmentsFit
<1>w. \A k \in from..to : WordsIn(ends, k, to) \in Int
  <2>1. \A k \in from..to : k \in Nat /\ 1 <= k /\ k <= Len(ends) + 1
    BY <1>0
  <2> QED
    BY <1>0, <2>1, WordsAreIntegers
<1>1. CASE enough = {}
  <2>1. i = from
    BY <1>1 DEF OverlapStart
  <2>2. WordsIn(ends, from, to) < OverlapWords
    <3>1. from \in from..to /\ from \notin enough
      BY <1>0, <1>1
    <3> QED
      BY <1>w, <3>1
  <2> QED
    BY <1>0, <1>w, <2>1, <2>2
<1>2. CASE enough # {}
  <2>1. i \in enough /\ \A k \in enough : k <= i
    <3>1. \E k \in enough : \A l \in enough : l <= k
      BY <1>0, <1>2, LargestIsThere
    <3>2. i = CHOOSE k \in enough : \A l \in enough : l <= k
      BY <1>2 DEF OverlapStart
    <3> HIDE DEF enough
    <3> QED
      BY <3>1, <3>2
  <2>2. i \in from..to /\ WordsIn(ends, i, to) >= OverlapWords
    BY <2>1
  <2>3. i \in 1..Len(ends) /\ i \in Nat
    BY <1>0, <2>2
  <2>4. ends[i] - WordsBefore(ends, i) \in 1..(MaxWords - OverlapWords)
    BY <2>3 DEF SegmentsFit
  <2>w. WordsIn(ends, i, to) \in Int /\ WordsBefore(ends, i) \in Nat /\ ends[i] \in Nat
    BY <1>0, <1>w, <2>2, <2>3, WordsAreIntegers
  <2>5. CASE i = to
    BY <2>w, <2>4, <2>5, <2>2 DEF WordsIn
  <2>6. CASE i < to
    <3>1. i + 1 \in from..to /\ i + 1 \notin enough
      <4>1. i + 1 \in from..to
        BY <1>0, <2>2, <2>6
      <4>2. ~(i + 1 <= i)
        BY <2>3
      <4> QED
        BY <2>1, <4>1, <4>2
    <3>2. WordsIn(ends, i + 1, to) < OverlapWords /\ WordsIn(ends, i + 1, to) \in Int
      BY <1>w, <3>1
    <3>3. WordsIn(ends, i, to) = ends[i] - WordsBefore(ends, i) + WordsIn(ends, i + 1, to)
      BY <1>0, <2>3, <2>6, WordsOfTheRest
    <3>4. ends[i] - WordsBefore(ends, i) <= MaxWords - OverlapWords
      BY <2>4
    <3>5. WordsIn(ends, i, to) < MaxWords
      BY <2>w, <3>2, <3>3, <3>4
    <3> QED
      BY <2>2, <3>5
  <2>7. i = to \/ i < to
    BY <1>0, <2>2
  <2> QED
    BY <2>5, <2>6, <2>7
<1> QED
  BY <1>1, <1>2

-----------------------------------------------------------------------------
(* The inductive invariant.                                                 *)

\* begin is in the chunk, and takes the end of it over.
TakesOver(ends, chunk, begin) ==
  /\ chunk.from <= begin /\ begin <= chunk.to
  /\ begin = chunk.from \/ WordsIn(ends, begin, chunk.to) >= OverlapWords

InChunk(k, chunks) == \E i \in 1..Len(chunks) : chunks[i].from <= k /\ k <= chunks[i].to

\* The chunks of a text, each of which takes over from the one before; and what is
\* gathered next begins where it takes over from the last.
ChunksAreGathered(ends, chunks) ==
  /\ chunks \in Seq([from : Nat, to : Nat])
  /\ \A i \in 1..Len(chunks) :
       /\ 1 <= chunks[i].from /\ chunks[i].from <= chunks[i].to /\ chunks[i].to <= Len(ends)
       /\ WordsIn(ends, chunks[i].from, chunks[i].to) < 2 * MaxWords - OverlapWords
  /\ \A i, j \in 1..Len(chunks) : j = i + 1 =>
       TakesOver(ends, chunks[i], chunks[j].from) /\ chunks[i].to <= chunks[j].to

BeginsAt(ends, chunks, begin) ==
  /\ 1 <= begin /\ begin <= Len(ends) + 1
  /\ chunks # <<>> => TakesOver(ends, chunks[Len(chunks)], begin)
  /\ \A k \in 1..Len(ends) : k < begin => InChunk(k, chunks)

Gathered(ends, chunks, begin) ==
  SegmentsFit(ends) /\ ChunksAreGathered(ends, chunks) /\ BeginsAt(ends, chunks, begin)

\* What is gathered stays below the maximum, as long as there is something.
ChunkerInvariant ==
  /\ first \in Nat
  /\ Gathered(segments, groups, first)
  /\ segments = <<>> => groups = <<>>
  /\ segments # <<>> => first <= Len(segments) /\ WordsIn(segments, first, Len(segments)) < MaxWords
  /\ done => \A k \in 1..Len(segments) : InChunk(k, groups)

\* A chunk is closed, and the next one takes over from it.
LEMMA ChunkIsClosed ==
  ASSUME NEW ends, NEW chunks, NEW begin \in Nat, NEW next \in Nat, NEW n \in Nat,
         Gathered(ends, chunks, begin), n = Len(ends), begin <= n,
         WordsIn(ends, begin, n) < 2 * MaxWords - OverlapWords,
         TakesOver(ends, Chunk(begin, n), next)
  PROVE  Gathered(ends, Append(chunks, Chunk(begin, n)), next)
<1> DEFINE closed == Append(chunks, Chunk(begin, n))
           m == Len(chunks)
<1>1. chunks \in Seq([from : Nat, to : Nat]) /\ Chunk(begin, n) \in [from : Nat, to : Nat]
  BY DEF Gathered, ChunksAreGathered, Chunk
<1>2. /\ closed \in Seq([from : Nat, to : Nat])
      /\ Len(closed) = m + 1 /\ m \in Nat
      /\ closed[m + 1] = Chunk(begin, n)
      /\ \A i \in 1..m : closed[i] = chunks[i]
  BY <1>1
<1>2b. \A i \in 1..m : i \in 1..Len(closed) /\ closed[i] = chunks[i]
  BY <1>2
<1>3. Chunk(begin, n).from = begin /\ Chunk(begin, n).to = n
  BY DEF Chunk
<1>4. 1 <= begin /\ begin <= next /\ next <= n
  BY <1>3 DEF Gathered, BeginsAt, TakesOver
<1>5. \A i \in 1..m :
        /\ 1 <= chunks[i].from /\ chunks[i].from <= chunks[i].to /\ chunks[i].to <= n
        /\ WordsIn(ends, chunks[i].from, chunks[i].to) < 2 * MaxWords - OverlapWords
  BY DEF Gathered, ChunksAreGathered
<1> HIDE DEF closed
<1>6. \A i \in 1..(m + 1) :
        /\ 1 <= closed[i].from /\ closed[i].from <= closed[i].to /\ closed[i].to <= n
        /\ WordsIn(ends, closed[i].from, closed[i].to) < 2 * MaxWords - OverlapWords
  <2> SUFFICES ASSUME NEW i \in 1..(m + 1)
               PROVE  /\ 1 <= closed[i].from /\ closed[i].from <= closed[i].to /\ closed[i].to <= n
                      /\ WordsIn(ends, closed[i].from, closed[i].to) < 2 * MaxWords - OverlapWords
    OBVIOUS
  <2>1. i \in 1..m \/ i = m + 1
    BY <1>2
  <2>2. CASE i = m + 1
    BY <1>2, <1>3, <1>4, <2>2
  <2> QED
    BY <1>2, <1>5, <2>1, <2>2
<1>7. ASSUME NEW i \in 1..(m + 1), NEW j \in 1..(m + 1), j = i + 1
      PROVE  TakesOver(ends, closed[i], closed[j].from) /\ closed[i].to <= closed[j].to
  <2>1. i \in 1..m
    BY <1>2, <1>7
  <2>2. CASE j \in 1..m
    BY <1>2, <1>7, <2>1, <2>2 DEF Gathered, ChunksAreGathered
  <2>3. CASE j = m + 1
    <3>1. i = m /\ chunks # <<>>
      BY <1>2, <1>7, <2>1, <2>3
    <3>2. TakesOver(ends, chunks[i], begin)
      BY <3>1 DEF Gathered, BeginsAt
    <3> QED
      BY <1>2, <1>3, <1>5, <2>1, <2>3, <3>2
  <2> QED
    BY <1>2, <2>2, <2>3
<1>8. ASSUME NEW k \in 1..n
      PROVE  InChunk(k, closed)
  <2>1. CASE k < begin
    <3>1. PICK i \in 1..m : chunks[i].from <= k /\ k <= chunks[i].to
      BY <2>1 DEF Gathered, BeginsAt, InChunk
    <3>2. i \in 1..Len(closed) /\ closed[i] = chunks[i]
      BY <1>2b
    <3> QED
      BY <3>1, <3>2 DEF InChunk
  <2>2. CASE begin <= k
    <3>1. m + 1 \in 1..Len(closed)
      BY <1>2
    <3> QED
      BY <1>2, <1>3, <2>2, <3>1 DEF InChunk
  <2> QED
    BY <2>1, <2>2
<1>9. BeginsAt(ends, closed, next)
  BY <1>2, <1>4, <1>8 DEF BeginsAt
<1>10. ChunksAreGathered(ends, closed)
  BY <1>2, <1>6, <1>7 DEF ChunksAreGathered
<1> QED
  BY <1>9, <1>10 DEF Gathered, closed

\* A segment is added to the n seen: the words of the others are what they were.
WithSegment(ends, size) == Append(ends, WordsBefore(ends, Len(ends) + 1) + size)

OneMore(ends, more, n, size) ==
  /\ SegmentsFit(more) /\ Len(more) = n + 1
  /\ WordsBefore(ends, n + 1) \in Nat
  /\ \A k \in 1..n : more[k] = ends[k]
  /\ \A k \in 1..(n + 1) : WordsBefore(more, k) = WordsBefore(ends, k)
  /\ more[n + 1] = WordsBefore(ends, n + 1) + size

LEMMA SegmentIsAdded ==
  ASSUME NEW ends, SegmentsFit(ends), NEW size \in SegmentSizes
  PROVE  OneMore(ends, WithSegment(ends, size), Len(ends), size)
<1> DEFINE n == Len(ends)
           more == WithSegment(ends, size)
<1>0. n \in Nat /\ more = Append(ends, WordsBefore(ends, n + 1) + size)
  BY DEF SegmentsFit, WithSegment
<1> HIDE DEF n, more
<1>1. ends \in Seq(Nat) /\ size \in Nat /\ 1 <= size /\ size <= MaxWords - OverlapWords
  BY Limits DEF SegmentsFit
<1>2. WordsBefore(ends, n + 1) \in Nat
  <2>1. CASE n = 0
    BY <2>1 DEF WordsBefore
  <2>2. CASE n # 0
    <3>1. (n + 1) - 1 = n /\ n \in 1..Len(ends) /\ n + 1 # 1
      BY <1>0, <2>2 DEF n
    <3>2. ends[n] \in Nat
      BY <1>1, <3>1
    <3> QED
      BY <3>1, <3>2 DEF WordsBefore
  <2> QED
    BY <2>1, <2>2
<1>3. /\ more \in Seq(Nat) /\ Len(more) = n + 1
      /\ \A k \in 1..n : more[k] = ends[k]
      /\ more[n + 1] = WordsBefore(ends, n + 1) + size
  BY <1>0, <1>1, <1>2 DEF n
<1>4. ASSUME NEW k \in 1..(n + 1)
      PROVE  WordsBefore(more, k) = WordsBefore(ends, k)
  <2>1. k # 1 => k - 1 \in 1..n
    BY <1>0
  <2> QED
    BY <1>3, <2>1 DEF WordsBefore
<1>5. ASSUME NEW k \in 1..(n + 1)
      PROVE  more[k] - WordsBefore(more, k) \in 1..(MaxWords - OverlapWords)
  <2>1. CASE k \in 1..n
    <3>1. more[k] = ends[k] /\ WordsBefore(more, k) = WordsBefore(ends, k)
      BY <1>3, <1>4, <2>1
    <3> QED
      BY <2>1, <3>1 DEF SegmentsFit, n
  <2>2. CASE k = n + 1
    <3>1. more[k] - WordsBefore(more, k) = size
      BY <1>0, <1>1, <1>2, <1>3, <1>4, <2>2
    <3> QED
      BY <1>1, <3>1, Limits
  <2> QED
    <3>1. k \in 1..n \/ k = n + 1
      BY <1>0
    <3> QED
      BY <2>1, <2>2, <3>1
<1> QED
  BY <1>2, <1>3, <1>4, <1>5 DEF SegmentsFit, OneMore, n, more

\* The chunks and where the next begins are what they were, with a segment more.
LEMMA GatheredWithMore ==
  ASSUME NEW ends, NEW chunks, NEW begin \in Nat, Gathered(ends, chunks, begin),
         NEW size \in SegmentSizes, begin <= Len(ends) \/ (chunks = <<>> /\ begin = 1)
  PROVE  Gathered(WithSegment(ends, size), chunks, begin)
<1> DEFINE n == Len(ends)
           more == WithSegment(ends, size)
<1>0. n \in Nat
  BY DEF Gathered, SegmentsFit
<1> HIDE DEF n, more
<1>1. /\ SegmentsFit(more) /\ Len(more) = n + 1
      /\ \A k \in 1..n : more[k] = ends[k]
      /\ \A k \in 1..(n + 1) : WordsBefore(more, k) = WordsBefore(ends, k)
  <2>1. SegmentsFit(ends)
    BY DEF Gathered
  <2> QED
    BY <2>1, SegmentIsAdded DEF OneMore, n, more
<1>2. \A from, to \in 1..n : WordsIn(more, from, to) = WordsIn(ends, from, to)
  BY <1>0, <1>1 DEF WordsIn
<1> DEFINE m == Len(chunks)
<1>3. chunks \in Seq([from : Nat, to : Nat]) /\ m \in Nat
  BY DEF Gathered, ChunksAreGathered, n
<1>4. \A i \in 1..m : chunks[i].from \in 1..n /\ chunks[i].to \in 1..n /\ chunks[i] \in [from : Nat, to : Nat]
  <2> SUFFICES ASSUME NEW i \in 1..m
               PROVE  chunks[i].from \in 1..n /\ chunks[i].to \in 1..n /\ chunks[i] \in [from : Nat, to : Nat]
    OBVIOUS
  <2>1. chunks[i] \in [from : Nat, to : Nat]
    BY <1>3, ElementOfSeq
  <2>2. 1 <= chunks[i].from /\ chunks[i].from <= chunks[i].to /\ chunks[i].to <= n
    BY DEF Gathered, ChunksAreGathered, n
  <2> QED
    BY <1>0, <2>1, <2>2
<1>5. ASSUME NEW i \in 1..m, NEW at \in 1..n, TakesOver(ends, chunks[i], at)
      PROVE  TakesOver(more, chunks[i], at)
  BY <1>2, <1>4, <1>5 DEF TakesOver
<1>6. ChunksAreGathered(more, chunks)
  <2>1. \A i \in 1..m :
          /\ 1 <= chunks[i].from /\ chunks[i].from <= chunks[i].to /\ chunks[i].to <= n + 1
          /\ WordsIn(more, chunks[i].from, chunks[i].to) < 2 * MaxWords - OverlapWords
    BY <1>2, <1>4 DEF Gathered, ChunksAreGathered, n
  <2>2. \A i, j \in 1..m : j = i + 1 =>
          TakesOver(more, chunks[i], chunks[j].from) /\ chunks[i].to <= chunks[j].to
    BY <1>4, <1>5 DEF Gathered, ChunksAreGathered, n
  <2> QED
    BY <1>1, <1>3, <2>1, <2>2 DEF ChunksAreGathered
<1>7. BeginsAt(more, chunks, begin)
  <2>1. 1 <= begin /\ begin <= n + 1
    BY DEF Gathered, BeginsAt, n
  <2>2. chunks # <<>> => TakesOver(more, chunks[m], begin)
    <3>1. chunks # <<>> => m \in 1..m /\ begin \in 1..n
      <4>1. chunks # <<>> => m \in 1..m
        BY <1>3
      <4>2. chunks # <<>> => begin \in 1..n
        BY <1>0, <2>1 DEF n
      <4> QED
        BY <4>1, <4>2
    <3> QED
      BY <1>5, <3>1 DEF Gathered, BeginsAt, n
  <2>3. \A k \in 1..(n + 1) : k < begin => InChunk(k, chunks)
    <3>1. \A k \in 1..(n + 1) : k < begin => k \in 1..n
      BY <1>0, <2>1
    <3> QED
      BY <3>1 DEF Gathered, BeginsAt, n
  <2> QED
    BY <1>1, <2>1, <2>2, <2>3 DEF BeginsAt
<1> QED
  BY <1>1, <1>6, <1>7 DEF Gathered, more

LEMMA FirstState == Init => ChunkerInvariant
BY DEF Init, ChunkerInvariant, Gathered, SegmentsFit, ChunksAreGathered, BeginsAt

LEMMA TakeKeeps ==
  ASSUME ChunkerInvariant, NEW size \in SegmentSizes, Take(size)
  PROVE  ChunkerInvariant'
<1> DEFINE last   == Len(segments)
           closed == IF Overflows(size) THEN Append(groups, Chunk(first, last)) ELSE groups
           begin  == IF Overflows(size) THEN OverlapStart(segments, first, last) ELSE first
           ends   == Append(segments, WordsBefore(segments, last + 1) + size)
<1>0. ends = WithSegment(segments, size)
  BY DEF WithSegment
<1>1. /\ first \in Nat /\ 1 <= first /\ last \in Nat /\ first <= last + 1
      /\ segments \in Seq(Nat) /\ SegmentsFit(segments) /\ Gathered(segments, groups, first)
  BY DEF ChunkerInvariant, Gathered, SegmentsFit, BeginsAt
<1>2. size \in Nat /\ 1 <= size /\ size <= MaxWords - OverlapWords
  BY Limits
<1>3. CurrentIsEmpty => segments = <<>> /\ groups = <<>> /\ first = 1
  <2>1. CurrentIsEmpty => segments = <<>>
    BY <1>1 DEF CurrentIsEmpty, ChunkerInvariant
  <2> QED
    BY <1>1, <2>1 DEF ChunkerInvariant
<1>4. ~CurrentIsEmpty => /\ first <= last /\ segments # <<>>
                         /\ WordsIn(segments, first, last) < MaxWords
                         /\ WordsIn(segments, first, last) \in Int
  <2> SUFFICES ASSUME ~CurrentIsEmpty
               PROVE  /\ first <= last /\ segments # <<>>
                      /\ WordsIn(segments, first, last) < MaxWords
                      /\ WordsIn(segments, first, last) \in Int
    OBVIOUS
  <2>1. first <= last /\ 1 <= last
    BY <1>1 DEF CurrentIsEmpty
  <2>2. segments # <<>>
    BY <2>1
  <2> QED
    BY <1>1, <2>1, <2>2, WordsAreIntegers DEF ChunkerInvariant
<1>5. ~CurrentIsEmpty /\ Overflows(size) =>
        /\ begin \in first..last /\ WordsIn(segments, begin, last) < MaxWords
        /\ TakesOver(segments, Chunk(first, last), begin)
  <2> SUFFICES ASSUME ~CurrentIsEmpty, Overflows(size)
               PROVE  /\ begin \in first..last /\ WordsIn(segments, begin, last) < MaxWords
                      /\ TakesOver(segments, Chunk(first, last), begin)
    OBVIOUS
  <2>1. begin = OverlapStart(segments, first, last) /\ last \in 1..last /\ first \in 1..last
    BY <1>1, <1>4
  <2> HIDE DEF begin, last
  <2>2. /\ begin \in first..last
        /\ begin = first \/ WordsIn(segments, begin, last) >= OverlapWords
        /\ WordsIn(segments, begin, last) < MaxWords
    BY <1>1, <2>1, OverlapIsAnEnd DEF last
  <2> QED
    BY <1>1, <2>2 DEF TakesOver, Chunk
<1>6. /\ begin \in Nat /\ 1 <= begin /\ begin <= last + 1
      /\ begin <= last \/ (closed = <<>> /\ begin = 1)
      /\ Gathered(segments, closed, begin)
  <2>1. CASE Overflows(size)
    <3>1. ~CurrentIsEmpty
      BY <2>1 DEF Overflows
    <3>2. begin \in Nat /\ 1 <= begin /\ begin <= last
      BY <1>1, <1>5, <2>1, <3>1
    <3>3. WordsIn(segments, first, last) < 2 * MaxWords - OverlapWords
      BY <1>4, <3>1, Limits
    <3> HIDE DEF begin
    <3>4. Gathered(segments, Append(groups, Chunk(first, last)), begin)
      BY <1>1, <1>4, <1>5, <2>1, <3>1, <3>2, <3>3, ChunkIsClosed
    <3> QED
      BY <1>1, <2>1, <3>2, <3>4
  <2>2. CASE ~Overflows(size)
    BY <1>1, <1>3, <1>4, <2>2
  <2> QED
    BY <2>1, <2>2
<1>7. /\ SegmentsFit(ends) /\ Len(ends) = last + 1 /\ ends # <<>>
      /\ WordsIn(ends, begin, last + 1)
           = (IF CurrentIsEmpty THEN 0 ELSE WordsIn(segments, begin, last)) + size
  <2> HIDE DEF begin, last, ends
  <2>1. /\ SegmentsFit(ends) /\ Len(ends) = last + 1
        /\ \A k \in 1..(last + 1) : WordsBefore(ends, k) = WordsBefore(segments, k)
        /\ WordsBefore(segments, last + 1) \in Nat
        /\ ends[last + 1] = WordsBefore(segments, last + 1) + size
    BY <1>1, <1>0, SegmentIsAdded DEF OneMore, last
  <2>2. ends # <<>>
    BY <1>1, <2>1
  <2>3. WordsBefore(ends, begin) = WordsBefore(segments, begin)
    BY <1>1, <1>6, <2>1
  <2>4. CASE CurrentIsEmpty
    <3>1. last = 0 /\ begin = 1
      BY <1>3, <2>4 DEF begin, last, Overflows
    <3> QED
      BY <1>2, <2>1, <2>2, <2>4, <3>1 DEF WordsIn, WordsBefore
  <2>5. CASE ~CurrentIsEmpty
    <3>1. last + 1 # 1 /\ (last + 1) - 1 = last /\ last \in 1..Len(segments)
      BY <1>1, <1>4, <2>5 DEF last
    <3>2. WordsBefore(segments, last + 1) = segments[last] /\ segments[last] \in Nat
      BY <1>1, <3>1 DEF WordsBefore
    <3>3. WordsBefore(segments, begin) \in Nat
      BY <1>1, <1>6, <3>1, WordsAreIntegers DEF last
    <3> QED
      BY <1>2, <2>1, <2>2, <2>3, <2>5, <3>2, <3>3 DEF WordsIn
  <2> QED
    BY <2>4, <2>5, <2>1, <2>2
<1>8. /\ WordsIn(ends, begin, last + 1) \in Int
      /\ WordsIn(ends, begin, last + 1) < 2 * MaxWords - OverlapWords
  <2>1. CASE CurrentIsEmpty
    BY <1>2, <1>7, <2>1, Limits
  <2>2. CASE ~CurrentIsEmpty
    <3>1. begin <= last /\ 1 <= last
      BY <1>1, <1>4, <1>5, <2>2
    <3>2. WordsIn(segments, begin, last) < MaxWords
      BY <1>4, <1>5, <2>2
    <3>3. WordsIn(segments, begin, last) \in Int
      BY <1>1, <1>6, <3>1, WordsAreIntegers
    <3> QED
      BY <1>2, <1>7, <2>2, <3>2, <3>3, Limits
  <2> QED
    BY <2>1, <2>2
<1>9. Gathered(ends, closed, begin)
  <2> HIDE DEF begin, closed, last, ends
  <2> QED
    BY <1>0, <1>1, <1>6, GatheredWithMore DEF last
<1>10. segments' = ends /\ ~done /\ ~done'
  BY DEF Take
<1>11. CASE WordsIn(ends, begin, last + 1) >= TargetWords
  <2>1. groups' = Append(closed, Chunk(begin, last + 1)) /\ first' = OverlapStart(ends, begin, last + 1)
    BY <1>11 DEF Take
  <2> HIDE DEF begin, closed, last, ends
  <2>2. /\ first' \in begin..(last + 1) /\ WordsIn(ends, first', last + 1) < MaxWords
        /\ first' = begin \/ WordsIn(ends, first', last + 1) >= OverlapWords
    BY <1>1, <1>6, <1>7, <2>1, OverlapIsAnEnd
  <2>3. TakesOver(ends, Chunk(begin, last + 1), first') /\ first' \in Nat /\ first' <= last + 1
    BY <1>1, <1>6, <2>2 DEF TakesOver, Chunk
  <2>4. Gathered(ends, groups', first')
    BY <1>1, <1>6, <1>7, <1>8, <1>9, <2>1, <2>3, ChunkIsClosed
  <2> QED
    BY <1>7, <1>10, <2>2, <2>3, <2>4 DEF ChunkerInvariant
<1>12. CASE ~(WordsIn(ends, begin, last + 1) >= TargetWords)
  <2>1. groups' = closed /\ first' = begin
    BY <1>12 DEF Take
  <2> HIDE DEF begin, closed, last, ends
  <2> QED
    BY <1>6, <1>7, <1>8, <1>9, <1>10, <1>12, <2>1, Limits DEF ChunkerInvariant
<1> QED
  BY <1>11, <1>12

LEMMA FinishKeeps ==
  ASSUME ChunkerInvariant, Finish
  PROVE  ChunkerInvariant'
<1> DEFINE last == Len(segments)
           rest == Chunk(first, last)
<1>1. /\ first \in Nat /\ last \in Nat /\ 1 <= first /\ first <= last /\ segments # <<>>
      /\ segments \in Seq(Nat) /\ Gathered(segments, groups, first)
      /\ WordsIn(segments, first, last) < MaxWords
      /\ UNCHANGED <<segments, first>> /\ groups \in Seq([from : Nat, to : Nat])
  BY DEF ChunkerInvariant, Finish, Gathered, SegmentsFit, BeginsAt, ChunksAreGathered
<1>2. rest.from = first /\ rest.to = last
  BY DEF Chunk
<1>3. groups' = Append(groups, rest) \/ (groups' = groups /\ groups # <<>> /\ groups[Len(groups)] = rest)
  BY DEF Finish
<1>4. Gathered(segments, groups', first)
  <2>1. TakesOver(segments, rest, first)
    BY <1>1, <1>2 DEF TakesOver
  <2>2. WordsIn(segments, first, last) < 2 * MaxWords - OverlapWords
    <3>0. first <= last + 1 /\ 1 <= last /\ segments \in Seq(Nat) /\ last \in Nat
      BY <1>1
    <3>1. WordsIn(segments, first, last) \in Int
      BY <1>1, <3>0, WordsAreIntegers
    <3> QED
      BY <1>1, <3>1, Limits
  <2> QED
    BY <1>1, <1>3, <2>1, <2>2, ChunkIsClosed
<1>5. groups' \in Seq([from : Nat, to : Nat]) /\ groups' # <<>> /\ groups'[Len(groups')] = rest
  <2>1. rest \in [from : Nat, to : Nat]
    BY <1>1 DEF Chunk
  <2>2. CASE groups' = Append(groups, rest)
    <3>1. groups \in Seq([from : Nat, to : Nat])
      BY <1>1
    <3> HIDE DEF rest
    <3> QED
      BY <2>1, <2>2, <3>1
  <2>3. CASE groups' = groups /\ groups # <<>> /\ groups[Len(groups)] = rest
    BY <1>1, <2>3
  <2> QED
    BY <1>3, <2>2, <2>3
<1>6. ASSUME NEW k \in 1..last
      PROVE  InChunk(k, groups')
  <2>1. CASE k < first
    BY <1>4, <2>1 DEF Gathered, BeginsAt
  <2>2. CASE first <= k
    <3>1. Len(groups') \in 1..Len(groups')
      BY <1>5
    <3> QED
      BY <1>2, <1>5, <2>2, <3>1 DEF InChunk
  <2> QED
    BY <1>1, <2>1, <2>2
<1> QED
  BY <1>1, <1>4, <1>6 DEF ChunkerInvariant

LEMMA ChunkerInvariantHolds == Spec => []ChunkerInvariant
<1>1. ChunkerInvariant /\ [Next]_vars => ChunkerInvariant'
  <2>1. ChunkerInvariant /\ UNCHANGED vars => ChunkerInvariant'
    BY DEF vars, ChunkerInvariant
  <2> QED
    BY <2>1, TakeKeeps, FinishKeeps DEF Next
<1> QED
  BY <1>1, FirstState, PTL DEF Spec

-----------------------------------------------------------------------------
\* Nothing of a text is lost (text_chunker.py 62-76): each of its segments is in a chunk or is
\* being gathered, and in a chunk at the end, for a text of any length.
THEOREM TextIsKept == Spec => []NothingIsLost
<1>1. ASSUME ChunkerInvariant PROVE NothingIsLost
  <2> DEFINE last == Len(segments)
             chunks == ToSet(groups) \cup (IF done THEN {} ELSE {Open})
  <2>1. /\ groups \in Seq([from : Nat, to : Nat]) /\ last \in Nat /\ first \in Nat /\ 1 <= first
        /\ \A i \in 1..Len(groups) : 1 <= groups[i].from /\ groups[i].to <= last
        /\ DOMAIN groups = 1..Len(groups)
    BY <1>1 DEF ChunkerInvariant, Gathered, SegmentsFit, ChunksAreGathered, BeginsAt
  <2>2. Open.from = first /\ Open.to = last
    BY DEF Open, Chunk
  <2>3. \A c \in chunks : (c.from)..(c.to) \subseteq 1..last
    <3> SUFFICES ASSUME NEW c \in chunks PROVE (c.from)..(c.to) \subseteq 1..last
      OBVIOUS
    <3>1. CASE c = Open
      BY <2>1, <2>2, <3>1
    <3>2. ASSUME NEW i \in 1..Len(groups), c = groups[i]
          PROVE  (c.from)..(c.to) \subseteq 1..last
      <4>1. groups[i] \in [from : Nat, to : Nat]
        BY <2>1, ElementOfSeq
      <4>2. c.from \in Nat /\ c.to \in Nat /\ 1 <= c.from /\ c.to <= last
        BY <2>1, <3>2, <4>1
      <4> HIDE DEF last
      <4> QED
        BY <2>1, <4>2
    <3> QED
      BY <2>1, <3>1, <3>2 DEF ToSet
  <2>4. ASSUME NEW k \in 1..last
        PROVE  \E c \in chunks : k \in (c.from)..(c.to)
    <3>1. CASE InChunk(k, groups)
      <4>1. PICK i \in 1..Len(groups) : groups[i].from <= k /\ k <= groups[i].to
        BY <3>1 DEF InChunk
      <4>2. groups[i] \in chunks /\ groups[i] \in [from : Nat, to : Nat]
        BY <2>1, ElementOfSeq DEF ToSet
      <4>3. k \in (groups[i].from)..(groups[i].to)
        BY <4>1, <4>2
      <4> QED
        BY <4>2, <4>3
    <3>2. CASE ~InChunk(k, groups)
      <4>1. ~done /\ first <= k
        BY <1>1, <2>1, <3>2 DEF ChunkerInvariant, Gathered, BeginsAt
      <4>2. Open \in chunks /\ k \in (Open.from)..(Open.to)
        BY <2>1, <2>2, <4>1
      <4> QED
        BY <4>2
    <3> QED
      BY <3>1, <3>2
  <2>5. Covered(chunks) = 1..last
    <3> HIDE DEF chunks
    <3> QED
      BY <2>3, <2>4 DEF Covered
  <2> QED
    BY <2>5 DEF NothingIsLost
<1> QED
  BY <1>1, ChunkerInvariantHolds, PTL

\* Consecutive chunks overlap (text_chunker.py 63-74, 96-104): a chunk begins in the one before,
\* with at least overlap_words words of it or with all of it.
THEOREM ConsecutiveChunksOverlap == Spec => []ChunksOverlap
<1>1. ASSUME ChunkerInvariant, NEW i \in 1..(Len(groups) - 1)
      PROVE  LET one == groups[i]  next == groups[i + 1]
             IN  /\ one.from <= next.from /\ one.to <= next.to
                 /\ next.from <= one.to
                 /\ \/ next.from = one.from
                    \/ WordsIn(segments, next.from, one.to) >= OverlapWords
  <2>1. i \in 1..Len(groups) /\ i + 1 \in 1..Len(groups)
    BY <1>1 DEF ChunkerInvariant, Gathered, ChunksAreGathered
  <2> QED
    BY <1>1, <2>1 DEF ChunkerInvariant, Gathered, ChunksAreGathered, TakesOver
<1>2. ChunkerInvariant => ChunksOverlap
  BY <1>1 DEF ChunksOverlap
<1> QED
  BY <1>2, ChunkerInvariantHolds, PTL

\* However long the text and however its paragraphs fall, no chunk reaches twice max_words less
\* an overlap (text_chunker.py 62-76): the overlap stays below max_words, and is followed by a
\* single segment at most when that exceeds the maximum.
THEOREM ChunksStayBelowTwiceTheMaximum == Spec => []ChunksAreBounded
<1>1. ChunkerInvariant => ChunksAreBounded
  <2> SUFFICES ASSUME ChunkerInvariant, NEW i \in DOMAIN groups
               PROVE  Words(groups[i]) < 2 * MaxWords - OverlapWords
    BY DEF ChunksAreBounded, ToSet
  <2>1. DOMAIN groups = 1..Len(groups)
    BY DEF ChunkerInvariant, Gathered, ChunksAreGathered
  <2> QED
    BY <2>1 DEF ChunkerInvariant, Gathered, ChunksAreGathered, Words
<1> QED
  BY <1>1, ChunkerInvariantHolds, PTL

=============================================================================
