---------------------------- MODULE ContextBuilder ----------------------------
(***************************************************************************)
(* From candidates to a context package                                     *)
(* (src/evidenceops/bridge/context_builder.py).  A text is a sequence of    *)
(* clauses, the pieces the sentence parser may cut it into; a clause is     *)
(*   [words, chars, hits, capital, ends, bullet, mentions, sep]             *)
(* where `words' names it, `hits' counts the words it shares with the       *)
(* query, `capital' says whether it starts the way a sentence does, `ends'  *)
(* whether a full stop that is no abbreviation's ends it, `bullet' whether  *)
(* it starts as a list item, `mentions' are the numbers n of the labels     *)
(* [Cn] in it, and `sep' is what follows: a space, a line or a paragraph    *)
(* break, or nothing at the end.                                            *)
(***************************************************************************)
EXTENDS BridgeContracts

Separators == {"space", "line", "paragraph", "end"}
SeparatorChars == [space |-> 1, line |-> 1, paragraph |-> 2, end |-> 0]

ClauseFields == {"words", "chars", "hits", "capital", "ends", "bullet", "mentions", "sep"}

\* A text ends with its last clause.
IsText(text) ==
  /\ text \in Seq(ToSet(text))
  /\ \A i \in DOMAIN text :
       /\ text[i] = [f \in ClauseFields |-> text[i][f]]
       /\ text[i].chars \in Nat /\ text[i].hits \in Nat /\ text[i].sep \in Separators
       /\ text[i].sep = "end" <=> i = Len(text)

SumOver(f(_), seq) ==
  LET sum[i \in 0..Len(seq)] == IF i = 0 THEN 0 ELSE sum[i - 1] + f(seq[i])
  IN  sum[Len(seq)]
TextChars(text) == SumOver(LAMBDA c : c.chars + SeparatorChars[c.sep], text)
Mentions(text) == UNION {text[i].mentions : i \in DOMAIN text}

HeaderChars == 61   \* UNTRUSTED_HEADER

\* estimate_tokens: a quarter of the characters, rounded up.
EstimateTokens(chars) == (chars + 3) \div 4

\* A rendered block: its label, its frame of source, title, section and address, its excerpt.
BlockChars(record) == record.frame_chars + TextChars(record.excerpt)

\* The numbers of the labels that a block has besides its own.
BlockMentions(record) == record.frame_mentions \cup Mentions(record.excerpt)

\* render_context_text: the header and every block, each after an empty line.
ContextChars(records) ==
  IF records = <<>> THEN 0 ELSE HeaderChars + SumOver(LAMBDA r : 2 + BlockChars(r), records)
RenderContextText(records) ==
  [i \in DOMAIN records |->
     [label |-> records[i].citation_id, content |-> records[i].excerpt,
      mentions |-> BlockMentions(records[i])]]

EvidenceRecord(candidate, n) ==
  [evidence_id |-> candidate.candidate_id, citation_id |-> n, source_kind |-> candidate.source_kind,
   source_id |-> candidate.source_id, document_id |-> candidate.document_id,
   chunk_id |-> candidate.chunk_id, url |-> candidate.url, frame_chars |-> candidate.frame_chars,
   frame_mentions |-> candidate.frame_mentions, excerpt |-> candidate.text]

FitsPolicy(records, policy) ==
  /\ ContextChars(records) <= policy.max_context_chars
  /\ EstimateTokens(ContextChars(records)) <= policy.max_estimated_tokens

\* The candidates of a set, in order, each with the next citation number.
RecordsOf(candidates, taken) ==
  [n \in DOMAIN InOrder(taken) |-> EvidenceRecord(candidates[InOrder(taken)[n]], n)]

\* Mutated: the number of items is left to the retriever.
HasRoomUncounted(candidates, taken, i, policy) ==
  FitsPolicy(RecordsOf(candidates, {j \in taken : j < i} \cup {i}), policy)

\* Whether candidate i can be added to those taken before it.
HasRoom(candidates, taken, i, policy) ==
  LET before == {j \in taken : j < i}
  IN  /\ Cardinality(before) < policy.max_evidence_items
      /\ FitsPolicy(RecordsOf(candidates, before \cup {i}), policy)

\* Candidates are taken whole, in order; one that does not fit is passed over.
SelectRecords(candidates, policy) ==
  RecordsOf(candidates,
            CHOOSE taken \in SUBSET DOMAIN candidates :
              taken = {i \in DOMAIN candidates : HasRoom(candidates, taken, i, policy)})

NoReport == [outcome |-> "not_requested", trace |-> <<>>]

\* build_context_package, with the records that were selected
BuildContextPackage(policy, batch, records, decision, budget_used) ==
  [effective_policy |-> policy, evidence |-> records,
   context_text |-> RenderContextText(records), context_chars |-> ContextChars(records),
   estimated_tokens |-> EstimateTokens(ContextChars(records)),
   retrieval_calls |-> batch.retrieval_calls, web_calls |-> batch.web_calls,
   stop_reason |-> IF batch.candidates = <<>> THEN "no_evidence"
                   ELSE IF Len(records) < Len(batch.candidates) THEN "budget_exceeded"
                   ELSE "success",
   planner_decision |-> decision, budget_used |-> budget_used,
   compression_report |-> NoReport]

Given(decision, reasons) == \E i \in DOMAIN decision.reason_codes :
                               decision.reason_codes[i] \in reasons

BlockedStopReason(decision) ==
  IF Given(decision, {"invalid_profile"}) THEN "unsupported_profile"
  ELSE IF Given(decision, {"retrieval_budget_exhausted", "web_call_budget_exhausted",
                           "external_cost_budget_exhausted"})
       THEN "budget_exceeded"
  ELSE IF Given(decision, {"local_source_unavailable", "web_source_unavailable"})
       THEN "source_unavailable"
  ELSE IF Given(decision, {"external_query_not_allowed"}) THEN "unsupported_profile"
  ELSE "budget_exceeded"

\* build_blocked_context_package: nothing was retrieved, nothing was spent.
BuildBlockedContextPackage(policy, decision) ==
  [effective_policy |-> policy, evidence |-> <<>>, context_text |-> <<>>,
   context_chars |-> 0, estimated_tokens |-> 0, retrieval_calls |-> 0, web_calls |-> 0,
   stop_reason |-> BlockedStopReason(decision), planner_decision |-> decision,
   budget_used |-> [estimated_external_cost_microusd |-> 0, retrieval_calls |-> 0,
                    wall_clock_ms |-> 0, web_calls |-> 0],
   compression_report |-> NoReport]
=============================================================================
