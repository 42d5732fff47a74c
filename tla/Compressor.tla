------------------------------ MODULE Compressor ------------------------------
(***************************************************************************)
(* Extractive compression of a context package and the quality controls it  *)
(* must pass (src/evidenceops/bridge/compressor.py, quality_controls.py).   *)
(* The controls parse the compressed excerpt again with the same parser, so *)
(* what the parser makes of clauses that were not neighbours before decides *)
(* whether a compression is accepted.                                       *)
(***************************************************************************)
EXTENDS ContextBuilder

(***************************************************************************)
(* parse_sentence_boundaries                                                *)
(***************************************************************************)

BlockStart(text, i) ==
  Max({1} \cup {j \in 2..i : text[j - 1].sep = "paragraph"})
BlockEnd(text, i) ==
  Min({Len(text)} \cup {j \in i..Len(text) : text[j].sep = "paragraph"})

\* A paragraph of several lines, one of which starts as a list item, is cut into items.
Bulleted(text, i) ==
  LET first == BlockStart(text, i)
      last == BlockEnd(text, i)
  IN  /\ \E j \in first..last :
           text[j].bullet /\ (j = first \/ text[j - 1].sep = "line")
      /\ \E j \in first..(last - 1) : text[j].sep = "line"

\* A boundary ends with its paragraph, before a list item, or with its sentence.
EndsBoundary(text, i) ==
  \/ i = BlockEnd(text, i)
  \/ IF Bulleted(text, i) THEN text[i].sep = "line" /\ text[i + 1].bullet
                          ELSE text[i].ends /\ text[i + 1].capital

WithSeparator(clauses, sep) ==
  [i \in DOMAIN clauses |-> IF i = Len(clauses) THEN [clauses[i] EXCEPT !.sep = sep]
                                                ELSE clauses[i]]

ParseSentenceBoundaries(text) ==
  LET ends == InOrder({i \in DOMAIN text : EndsBoundary(text, i)})
      starts == [k \in DOMAIN ends |-> IF k = 1 THEN 1 ELSE ends[k - 1] + 1]
  IN  [k \in DOMAIN ends |->
         [text |-> WithSeparator(SubSeq(text, starts[k], ends[k]), "end"),
          separator |-> text[ends[k]].sep]]

\* Boundaries joined by the separators that followed them in the original.
Joined(boundaries) ==
  FlattenSeq([k \in DOMAIN boundaries |->
    WithSeparator(boundaries[k].text,
                  IF k = Len(boundaries) THEN "end"
                  ELSE IF boundaries[k].separator = "end" THEN "space"
                  ELSE boundaries[k].separator)])

(***************************************************************************)
(* compress_context_package                                                 *)
(***************************************************************************)

WithinCeilings(chars, policy) ==
  /\ policy.target_max_context_chars = NoCeiling \/ chars <= policy.target_max_context_chars
  /\ policy.target_max_estimated_tokens = NoCeiling
       \/ EstimateTokens(chars) <= policy.target_max_estimated_tokens

\* Mutated: two copies are told apart by their document alone.
FingerprintOfDocument(record) == <<record.source_id, record.source_kind, record.document_id>>

Fingerprint(record) ==
  <<record.source_id, record.source_kind, record.document_id, record.chunk_id, record.excerpt>>

DuplicateOf(evidence, i) ==
  {j \in 1..(i - 1) : Fingerprint(evidence[j]) = Fingerprint(evidence[i])}

\* Copies go only if the policy allows both to drop evidence and to remove copies.
IsDroppedCopy(evidence, i, policy) ==
  /\ policy.deduplicate_exact_retrieval_copies /\ policy.allow_evidence_drop
  /\ DuplicateOf(evidence, i) # {}

OverlapScore(boundary) == SumOver(LAMBDA c : c.hits, boundary.text)

\* The boundaries that share most words with the query; of equals, the earlier ones.
TopBoundaries(boundaries, n) ==
  {i \in DOMAIN boundaries :
     Cardinality({j \in DOMAIN boundaries :
       \/ OverlapScore(boundaries[j]) > OverlapScore(boundaries[i])
       \/ OverlapScore(boundaries[j]) = OverlapScore(boundaries[i]) /\ j < i}) < n}

ExtractedExcerpt(text, policy) ==
  LET boundaries == ParseSentenceBoundaries(text)
      chosen == TopBoundaries(boundaries, policy.max_sentences_per_evidence)
  IN  IF Len(boundaries) <= policy.max_sentences_per_evidence THEN text
      ELSE Joined(Places(boundaries, chosen))

\* Evidence is dropped from the end until it fits, but never all of it.
KeptCount(records, policy) ==
  IF ~policy.allow_evidence_drop THEN Len(records)
  ELSE Max({1} \cup {n \in DOMAIN records :
                       WithinCeilings(ContextChars(SubSeq(records, 1, n)), policy)})

TraceEntry(record, action, kept) ==
  [evidence_id |-> record.evidence_id, citation_id |-> record.citation_id, action |-> action,
   retained_chars |-> TextChars(kept)]

Report(outcome, trace) == [outcome |-> outcome, trace |-> trace]

\* An empty package, or one that fits, is returned as it is.
Unreduced(package) ==
  [package EXCEPT !.compression_report =
     Report("no_reduction",
            [i \in DOMAIN package.evidence |->
               TraceEntry(package.evidence[i], "kept_whole", package.evidence[i].excerpt)])]

Reduced(package, policy) ==
  LET evidence == package.evidence
      distinct == InOrder({i \in DOMAIN evidence : ~IsDroppedCopy(evidence, i, policy)})
      extracted == [k \in DOMAIN distinct |->
                      [evidence[distinct[k]] EXCEPT
                         !.excerpt = ExtractedExcerpt(evidence[distinct[k]].excerpt, policy)]]
      kept == SubSeq(extracted, 1, KeptCount(extracted, policy))
      chars == ContextChars(kept)
      Action(i) ==
        IF IsDroppedCopy(evidence, i, policy) THEN "dropped_duplicate"
        ELSE IF ~\E k \in DOMAIN kept : distinct[k] = i THEN "dropped_for_target"
        ELSE IF Len(ParseSentenceBoundaries(evidence[i].excerpt)) <= policy.max_sentences_per_evidence
             THEN "kept_whole"
        ELSE "extracted"
      Kept(i) == IF \E k \in DOMAIN kept : distinct[k] = i
                 THEN kept[CHOOSE k \in DOMAIN kept : distinct[k] = i].excerpt ELSE <<>>
  IN  [package EXCEPT
         !.evidence = kept, !.context_text = RenderContextText(kept),
         !.context_chars = chars, !.estimated_tokens = EstimateTokens(chars),
         !.compression_report =
           Report(IF WithinCeilings(chars, policy) THEN "reduced" ELSE "target_unachievable",
                  [i \in DOMAIN evidence |-> TraceEntry(evidence[i], Action(i), Kept(i))])]

CompressContextPackage(package, policy) ==
  IF package.evidence = <<>> \/ WithinCeilings(package.context_chars, policy)
  THEN Unreduced(package) ELSE Reduced(package, policy)

(***************************************************************************)
(* quality_controls.py                                                      *)
(***************************************************************************)

\* For each parsed boundary the first original one after the last match that has its text.
IsFirstMatch(originals, parsed, matched) ==
  \A k \in DOMAIN parsed :
    LET after == IF k = 1 THEN 0 ELSE matched[k - 1]
    IN  /\ matched[k] > after /\ originals[matched[k]].text = parsed[k].text
        /\ \A i \in (after + 1)..(matched[k] - 1) : originals[i].text # parsed[k].text

\* _verify_ordered_boundary_concatenation
OrderedConcatenation(original, compressed) ==
  LET originals == ParseSentenceBoundaries(original)
      parsed == ParseSentenceBoundaries(compressed)
  IN  \E matched \in [DOMAIN parsed -> DOMAIN originals] :
        /\ IsFirstMatch(originals, parsed, matched)
        /\ compressed = Joined([k \in DOMAIN matched |-> originals[matched[k]]])

ById(package, id) == CHOOSE r \in ToSet(package.evidence) : r.evidence_id = id
EvidenceIds(package) == {r.evidence_id : r \in ToSet(package.evidence)}
CitationNumbers(package) == {r.citation_id : r \in ToSet(package.evidence)}

UniqueIds(package) ==
  /\ IsInjective([i \in DOMAIN package.evidence |-> package.evidence[i].evidence_id])
  /\ IsInjective([i \in DOMAIN package.evidence |-> package.evidence[i].citation_id])

SameProvenance(original, compressed) ==
  \A r \in ToSet(compressed.evidence) :
    /\ r.evidence_id \in EvidenceIds(original)
    /\ LET o == ById(original, r.evidence_id)
       IN  /\ [r EXCEPT !.excerpt = o.excerpt] = o
           /\ r.excerpt # <<>>
           /\ r.excerpt # o.excerpt => OrderedConcatenation(o.excerpt, r.excerpt)

DropsAuthorised(original, compressed, policy) ==
  LET dropped == EvidenceIds(original) \ EvidenceIds(compressed)
  IN  dropped # {} =>
        /\ policy.allow_evidence_drop
        /\ \A id \in dropped : \E t \in ToSet(compressed.compression_report.trace) :
             t.evidence_id = id /\ t.action \in {"dropped_duplicate", "dropped_for_target"}

RenderedConsistently(package) ==
  /\ package.context_text = RenderContextText(package.evidence)
  /\ package.context_chars = ContextChars(package.evidence)
  /\ package.estimated_tokens - EstimateTokens(package.context_chars) \in -1..1

\* Every [Cn] in the rendered text, in an excerpt or a title too, is a label of evidence that
\* is there.
LabelsMapToEvidence(package) ==
  \A i \in DOMAIN package.context_text :
    /\ package.context_text[i].label \in CitationNumbers(package)
    /\ package.context_text[i].mentions \subseteq CitationNumbers(package)

RetrievalUnaltered(original, compressed) ==
  \A field \in {"planner_decision", "budget_used", "retrieval_calls", "web_calls", "stop_reason"} :
    original[field] = compressed[field]

TargetReallyMet(package, policy) ==
  package.compression_report.outcome # "target_unachievable"
    => WithinCeilings(package.context_chars, policy)

\* verify_compressed_package_quality
QualityControlsPass(original, compressed, policy) ==
  /\ original.evidence # <<>> => compressed.evidence # <<>>
  /\ UniqueIds(compressed)
  /\ SameProvenance(original, compressed)
  /\ DropsAuthorised(original, compressed, policy)
  /\ RenderedConsistently(compressed)
  /\ LabelsMapToEvidence(compressed)
  /\ RetrievalUnaltered(original, compressed)
  /\ TargetReallyMet(compressed, policy)
=============================================================================
