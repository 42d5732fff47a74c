----------------------------- MODULE TextChunker -----------------------------
(***************************************************************************)
(* PlainTextChunker.chunk (src/evidenceops/ingestion/text_chunker.py): a    *)
(* text is cut into segments, and segments are gathered into chunks that    *)
(* overlap.  Segments are numbered, and of each it is known how many words  *)
(* the segments up to its end have; since what a chunk takes over from the  *)
(* one before is the end of it, a chunk is an interval of segments.  One    *)
(* step is one turn of the loop; the text that is still to come is open.    *)
(***************************************************************************)
EXTENDS Integers, Sequences, SequencesExt

CONSTANTS
  TargetWords, MaxWords, OverlapWords,
  SegmentSizes,   \* numbers of words of a segment
  MaxSegments     \* bound on the segments of a text

\* The constructor checks the order of the three; their ranges are 350..600 and 50..80.
ASSUME ChunkerAssumption ==
  /\ TargetWords \in Nat /\ MaxWords \in Nat /\ OverlapWords \in Nat \ {0}
  /\ OverlapWords < TargetWords /\ TargetWords <= MaxWords
  \* a paragraph is split at max_words - overlap_words tokens
  /\ SegmentSizes \subseteq 1..(MaxWords - OverlapWords)
  /\ MaxSegments \in Nat \ {0}

VARIABLES
  segments,   \* of each segment seen so far, the words of the text up to its end
  first,      \* the segment `current' begins with; it ends with the last one seen
  groups,     \* the chunks so far
  done

vars == <<segments, first, groups, done>>

Chunk(from, to) == [from |-> from, to |-> to]

WordsBefore(ends, i) == IF i = 1 THEN 0 ELSE ends[i - 1]
WordsIn(ends, from, to) == ends[to] - WordsBefore(ends, from)

\* Mutated: the whole chunk is taken over.
OverlapStartAll(ends, from, to) == from

\* Mutated: nothing is taken over.
OverlapStartNone(ends, from, to) == to + 1

\* _overlap: the shortest end of a chunk with OverlapWords words, or all of it.
OverlapStart(ends, from, to) ==
  LET enough == {i \in from..to : WordsIn(ends, i, to) >= OverlapWords}
  IN  IF enough = {} THEN from ELSE CHOOSE i \in enough : \A k \in enough : k <= i

Init ==
  /\ segments = <<>>
  /\ first = 1
  /\ groups = <<>>
  /\ done = FALSE

CurrentIsEmpty == first > Len(segments)

\* `current' is closed when it cannot take the segment ...
Overflows(size) ==
  ~CurrentIsEmpty /\ WordsIn(segments, first, Len(segments)) + size > MaxWords

\* ... and when it has reached the target with it.
Take(size) ==
  LET last   == Len(segments)
      closed == IF Overflows(size) THEN Append(groups, Chunk(first, last)) ELSE groups
      begin  == IF Overflows(size) THEN OverlapStart(segments, first, last) ELSE first
      ends   == Append(segments, WordsBefore(segments, last + 1) + size)
  IN  /\ ~done
      /\ segments' = ends
      /\ IF WordsIn(ends, begin, last + 1) >= TargetWords
         THEN /\ groups' = Append(closed, Chunk(begin, last + 1))
              /\ first' = OverlapStart(ends, begin, last + 1)
         ELSE groups' = closed /\ first' = begin
      /\ UNCHANGED done

\* Mutated: what is left at the end is dropped once there are chunks.
FinishDropsRest ==
  /\ ~done /\ segments # <<>>
  /\ done' = TRUE
  /\ groups' = IF groups = <<>> THEN <<Chunk(first, Len(segments))>> ELSE groups
  /\ UNCHANGED <<segments, first>>

Finish ==
  /\ ~done /\ segments # <<>>
  /\ done' = TRUE
  /\ LET rest == Chunk(first, Len(segments))
     IN  groups' = IF groups = <<>> \/ groups[Len(groups)] # rest
                   THEN Append(groups, rest) ELSE groups
  /\ UNCHANGED <<segments, first>>

Next ==
  \/ Len(segments) < MaxSegments /\ \E size \in SegmentSizes : Take(size)
  \/ Finish
  \/ done /\ UNCHANGED vars

Spec == Init /\ [][Next]_vars
-----------------------------------------------------------------------------
(* Properties.                                                              *)

Open == Chunk(first, Len(segments))
Covered(chunks) == UNION {c.from..c.to : c \in chunks}
Words(chunk) == WordsIn(segments, chunk.from, chunk.to)

\* No text is lost: every segment is in a chunk, or in the one being filled, and at
\* the end in a chunk.
NothingIsLost ==
  Covered(ToSet(groups) \cup (IF done THEN {} ELSE {Open})) = 1..Len(segments)

\* Chunks go forward through the text, and each takes over the end of the one before
\* it: at least OverlapWords words, or all there are.
ChunksOverlap ==
  \A i \in 1..(Len(groups) - 1) :
    LET one == groups[i]  next == groups[i + 1]
    IN  /\ one.from <= next.from /\ one.to <= next.to
        /\ next.from <= one.to
        /\ \/ next.from = one.from
           \/ WordsIn(segments, next.from, one.to) >= OverlapWords

\* However long the text, a chunk stays below twice the maximum less an overlap.
ChunksAreBounded == \A c \in ToSet(groups) : Words(c) < 2 * MaxWords - OverlapWords

\* test_text_chunker.py:49: no chunk has more than 600 words.
ChunksFit == \A c \in ToSet(groups) : Words(c) <= MaxWords
=============================================================================
