----------------------------- MODULE MCLiteBridge -----------------------------
(***************************************************************************)
(* Small deployments of LiteBridge.  Each asks one question: which source   *)
(* is planned, what compression keeps, who may be sent what, and what       *)
(* happens to handles and cached results when requests interleave.          *)
(***************************************************************************)
EXTENDS LiteBridgeProperties

CONSTANTS c1, c2

(***************************************************************************)
(* Texts                                                                    *)
(***************************************************************************)

Clause(words, chars, hits, sep) ==
  [words |-> words, chars |-> chars, hits |-> hits, capital |-> TRUE, ends |-> TRUE,
   bullet |-> FALSE, mentions |-> {}, sep |-> sep]

\* Three sentences, the middle one the best match, the last one citing another block.
Sentences ==
  <<Clause("s1", 60, 0, "space"), Clause("s2", 50, 3, "space"),
    [Clause("s3", 40, 1, "end") EXCEPT !.mentions = {2}]>>

\* Two sentences on a line, followed by two list items.
BulletList ==
  <<Clause("b1", 30, 2, "space"), Clause("b2", 30, 1, "line"),
    [Clause("b3", 20, 0, "line") EXCEPT !.bullet = TRUE, !.ends = FALSE],
    [Clause("b4", 20, 0, "end") EXCEPT !.bullet = TRUE, !.ends = FALSE]>>

\* A heading without a full stop, a paragraph that goes on in lower case, another paragraph.
Paragraphs ==
  <<[Clause("p1", 20, 1, "paragraph") EXCEPT !.ends = FALSE], Clause("p2", 40, 0, "space"),
    [Clause("p3", 30, 1, "paragraph") EXCEPT !.capital = FALSE], Clause("p4", 30, 2, "end")>>

OneSentence == <<Clause("w1", 40, 1, "end")>>

Retrieved(kind, source, url, id, document, chunk, text) ==
  [candidate_id |-> id, source_kind |-> kind, source_id |-> source, document_id |-> document,
   chunk_id |-> chunk, url |-> url, frame_chars |-> 60, frame_mentions |-> {}, text |-> text]

Local(id, document, chunk, text) ==
  Retrieved("local_document", "evidenceops_local_docs", "none", id, document, chunk, text)
Web(id, url) ==
  Retrieved("web_search_snippet", "tavily_web_search", url, id, id, id,
            <<Clause("snippet", 40, 1, "end")>>)

(***************************************************************************)
(* Requests                                                                 *)
(***************************************************************************)

Query(text) ==
  [text |-> text, blank |-> FALSE, single_character |-> FALSE, has_freshness_cue |-> FALSE,
   has_local_reference_cue |-> FALSE]
Plain == Query("plain")
Fresh == [Query("fresh") EXCEPT !.has_freshness_cue = TRUE]
Queries ==
  {Plain, Fresh, [Query("local") EXCEPT !.has_local_reference_cue = TRUE],
   [Query("blank") EXCEPT !.blank = TRUE], [Query("x") EXCEPT !.single_character = TRUE]}

Policy(profile, items, chars, tokens, web) ==
  [execution_profile |-> profile, max_evidence_items |-> items, max_context_chars |-> chars,
   max_estimated_tokens |-> tokens, web |-> web, budget |-> DefaultBudget(profile, web)]
LocalPolicy == Policy("local_only", 6, 24000, 6000, NoWebPolicy)
HybridPolicy(items) == Policy("hybrid", items, 24000, 6000, WebPolicy(TRUE))

Policies ==
  {LocalPolicy, HybridPolicy(6), Policy("hosted", 6, 24000, 6000, NoWebPolicy),
   Policy("hybrid", 6, 24000, 6000, WebPolicy(FALSE)),
   Policy("hybrid", 6, 24000, 6000, NoWebPolicy),
   Policy("local_only", 6, 24000, 6000, WebPolicy(TRUE)),
   [LocalPolicy EXCEPT !.budget.max_retrieval_calls = 0],
   [HybridPolicy(6) EXCEPT !.budget.max_web_calls = 0],
   [HybridPolicy(6) EXCEPT !.budget.max_estimated_external_cost_microusd = 7999]}

Prepare(query, policy, source) ==
  [op |-> "prepare", query |-> query, policy |-> policy, source |-> source]

\* A request to a server, which makes the policy itself.
Ask(query, profile, items, external) ==
  [op |-> "prepare", query |-> query, source |-> "none", execution_profile |-> profile,
   allow_external_query |-> external, max_evidence_items |-> items,
   max_context_chars |-> 24000, max_estimated_tokens |-> 6000]

Get == [op |-> "get"]

Compress(chars, tokens, sentences, dedup, drop) ==
  [op |-> "compress",
   policy |-> [target_max_context_chars |-> chars, target_max_estimated_tokens |-> tokens,
               max_sentences_per_evidence |-> sentences,
               deduplicate_exact_retrieval_copies |-> dedup, allow_evidence_drop |-> drop]]

AnswerWith(provider, generation, export) ==
  [op |-> "answer", provider_id |-> provider, max_output_tokens |-> 512,
   allow_external_generation |-> generation, allow_private_evidence_export |-> export]

Consents == {<<FALSE, FALSE>>, <<TRUE, FALSE>>, <<TRUE, TRUE>>}

(***************************************************************************)
(* Deployments                                                              *)
(***************************************************************************)

Loopback ==
  [scheme |-> "http", valid_port |-> TRUE, credentials |-> FALSE, query |-> FALSE,
   fragment |-> FALSE, subpath |-> FALSE, host |-> "127.0.0.1", resolves_to_loopback |-> FALSE]

Settings(retrieval, generation, export, web) ==
  [allow_external_retrieval |-> retrieval, allow_external_generation |-> generation,
   allow_private_evidence_export |-> export, enable_tavily_web |-> web, tavily_api_key |-> TRUE,
   web_max_results |-> 5,
   enabled_providers |-> {"local_ollama", "hosted_openai"},
   configured_providers |-> {"local_ollama", "hosted_openai"}, base_url |-> Loopback]

\* An application with one thread and the sources and providers it is built with.
Application(registry, requests, each) ==
  [kind |-> "sdk", callers |-> {c1}, requests_each |-> each, requests |-> requests, ticks |-> 0,
   registry |-> registry, providers |-> {}, settings |-> Settings(TRUE, TRUE, TRUE, TRUE),
   local_results |-> {<<>>, <<Local("a", "d1", "k1", OneSentence)>>},
   web_results |-> {<<>>, <<[complete |-> TRUE, candidate |-> Web("h1", "canonical")],
                            [complete |-> FALSE, candidate |-> Web("h2", "canonical")],
                            [complete |-> TRUE, candidate |-> Web("h3", "canonical")]>>},
   own_retriever |-> FALSE, elapsed |-> {10}, responses |-> {[cites |-> {1}, malformed |-> FALSE]}]

Server(kind, settings, requests, each) ==
  [Application(BuiltRegistry(settings), requests, each) EXCEPT
     !.kind = kind, !.settings = settings, !.providers = BuiltProviders(settings)]

Together(deployed_alone, ticks) ==
  [deployed_alone EXCEPT !.callers = {c1, c2}, !.ticks = ticks]

Both == {"local_only", "hybrid"}
Registries ==
  {Registry(<<LocalSource(Both), WebSource>>, FALSE), Registry(<<WebSource, LocalSource(Both)>>, FALSE),
   Registry(<<LocalSource({"local_only"})>>, FALSE), Registry(<<LocalSource(Both)>>, TRUE),
   Registry(<<[LocalSource(Both) EXCEPT !.enabled = FALSE], WebSource>>, FALSE),
   Registry(<<LocalSource(Both), [WebSource EXCEPT !.enabled = FALSE]>>, FALSE)}

\* Every way to plan, with every answer of the web search.
Planning ==
  {[Application(registry,
                {Prepare(q, p, s) : q \in Queries, p \in Policies, s \in SourcePolicy}, 1) EXCEPT
      !.web_results = @ \cup {<<[complete |-> TRUE, candidate |-> Web("h1", "not_canonical")]>>},
      !.settings.web_max_results = 2, !.elapsed = {10, 10001}] : registry \in Registries}

\* A retriever that returns copies, of which the package may take some only.
Compressing ==
  LET a == Local("a", "d1", "k1", Sentences)
      copy == Local("a2", "d1", "k1", Sentences)
      other == Local("b", "d1", "k2", OneSentence)
      citing == [a EXCEPT !.frame_mentions = {3}]   \* its title has [C3]
  IN  {[Application(Registry(<<LocalSource(Both)>>, TRUE),
          {Prepare(Plain, LocalPolicy, "none"),
           Prepare(Plain, Policy("local_only", 2, 24000, 6000, NoWebPolicy), "none"),
           Prepare(Plain, Policy("local_only", 6, 350, 6000, NoWebPolicy), "none"), Get}
          \cup {Compress(chars, tokens, n, dedup, drop) :
                  chars \in {NoCeiling, 300, 400}, tokens \in {NoCeiling, 40}, n \in {1, 2},
                  dedup \in BOOLEAN, drop \in BOOLEAN}, 3) EXCEPT
          !.own_retriever = TRUE,
          !.local_results = {<<a, copy, other>>, <<a, other, Local("c", "d2", "k3", BulletList)>>,
                             <<citing, other, Local("p", "d3", "k4", Paragraphs)>>, <<Web("h", "canonical")>>}]}

\* Every consent of a client and of a server, for local documents, web snippets and neither.
Answering ==
  {[Server(kind, Settings(TRUE, s[1], s[2], TRUE),
      {Ask(Plain, "local_only", 6, FALSE), Ask(Fresh, "hybrid", 6, TRUE),
       Ask(Plain, "local_only", 7, FALSE), Compress(120, NoCeiling, 1, TRUE, TRUE)}
        \cup {AnswerWith(p, c[1], c[2]) : p \in {"local_ollama", "hosted_openai"}, c \in Consents},
      3) EXCEPT
      !.web_results = {<<[complete |-> TRUE, candidate |-> Web("h1", "canonical")]>>},
      !.responses = {[cites |-> {1}, malformed |-> FALSE], [cites |-> {1, 2}, malformed |-> FALSE],
                     [cites |-> {}, malformed |-> TRUE]}] :
     kind \in {"api", "mcp"}, s \in Consents}

\* An application that brings its own retriever, and every provider there is.
AnsweringDirectly ==
  {[Application(Registry(<<LocalSource(Both)>>, TRUE),
      {Prepare(Plain, LocalPolicy, "none")}
        \cup {AnswerWith(p, c[1], c[2]) : c \in Consents,
                p \in {"none", "local_ollama", "local_openai_compatible", "hosted_openai",
                       "hosted_anthropic", "hosted_gemini", "unknown"}}, 2) EXCEPT
      !.providers = {Provider("local_ollama", TRUE), Provider("local_openai_compatible", FALSE),
                     Provider("hosted_openai", TRUE), Provider("hosted_anthropic", TRUE),
                     Provider("hosted_gemini", TRUE)}]}

\* A server whose settings do not let it be built.
Misconfigured ==
  {Server("api", settings, {Ask(Plain, "local_only", 6, FALSE), Get}, 2) :
     settings \in {[Settings(TRUE, TRUE, TRUE, TRUE) EXCEPT !.tavily_api_key = FALSE],
                   [Settings(TRUE, TRUE, TRUE, TRUE) EXCEPT !.configured_providers = {}],
                   [Settings(TRUE, TRUE, TRUE, TRUE) EXCEPT !.base_url.host = "example.org"]}}

\* Two first requests to a server, with what they depend on still to be built.
Starting ==
  {[Together(Server("api", Settings(FALSE, FALSE, FALSE, FALSE),
                    {Ask(Plain, "local_only", 6, FALSE), Get}, 2), 1) EXCEPT
      !.local_results = {<<Local("a", "d1", "k1", OneSentence)>>}]}

\* Two threads that share a store of two packages.
Storing ==
  {[Together(Application(Registry(<<LocalSource(Both)>>, TRUE),
                         {Prepare(Plain, LocalPolicy, "none"), Get}, 2), 2) EXCEPT
      !.local_results = {<<Local("a", "d1", "k1", OneSentence)>>, <<>>}]}

\* Two threads that share a cache of one result, with different limits.
Caching ==
  {[Together(Application(Registry(<<LocalSource(Both), WebSource>>, FALSE),
                         {Prepare(Fresh, HybridPolicy(1), "none"),
                          Prepare(Fresh, HybridPolicy(6), "none"),
                          Prepare(Plain, HybridPolicy(6), "tavily_web_search")}, 2), 1) EXCEPT
      !.web_results = @ \ {<<>>}]}

Deployments ==
  Planning \cup Compressing \cup Answering \cup AnsweringDirectly \cup Misconfigured
    \cup Starting \cup Storing \cup Caching
=============================================================================
