---------------------------- MODULE BridgeAdapters ----------------------------
(***************************************************************************)
(* What LiteBridge's adapters make of the outside world                     *)
(* (src/evidenceops/bridge/adapters): the local search, the web search with *)
(* its cache, and the generation providers.  Each definition says what the  *)
(* adapter returns, or which of LiteBridge's errors it raises, for one      *)
(* outcome of the call it makes.  The errors are named by their default     *)
(* codes (src/evidenceops/bridge/errors.py).                                *)
(***************************************************************************)
EXTENDS BridgePlanner

Answer(candidates) == [error |-> "none", candidates |-> candidates]
Raises(error) == [error |-> error, candidates |-> <<>>]
Shortened(seq, n) == SubSeq(seq, 1, Min({Len(seq), n}))

(***************************************************************************)
(* evidenceops_local.py: the local documentation search                     *)
(***************************************************************************)

\* Queries of one character do not pass the search's own validation.
LocalRetrieve(query, policy, ranked) ==
  IF query.single_character THEN Raises("retrieval_error")
  ELSE Answer(Shortened(ranked, policy.max_evidence_items))

LocalFailures == {"timeout_error", "retrieval_error"}

(***************************************************************************)
(* tavily_search.py and web_retriever.py: the web search                    *)
(***************************************************************************)

\* What the caller asks for, up to what the adapter is configured to.
EffectiveResults(policy, max_configured_results) ==
  Min({policy.web.max_search_results, max_configured_results, policy.max_evidence_items})

\* Results without an address or a text are skipped; the others keep their order.
TavilySearch(results, max_results) ==
  LET shown == Shortened(results, max_results)
  IN  Places(shown, {i \in DOMAIN shown : shown[i].complete})

\* Refused credentials are a source error, everything else that goes wrong a retrieval error.
SearchFailures == {"timeout_error", "retrieval_error", "source_error"}

\* One hit whose address is not canonical fails the whole retrieval.
WebCandidates(hits) ==
  IF \E i \in DOMAIN hits : ~ValidProvenance(hits[i].candidate)
  THEN Raises("retrieval_error")
  ELSE Answer([i \in DOMAIN hits |-> hits[i].candidate])

(***************************************************************************)
(* web_cache.py: a sequence of entries, the least recently used one first   *)
(***************************************************************************)

CacheKey(source, query, web) ==
  <<source, query.text, web.allow_external_query, web.max_search_results>>

Position(cache, key) == SelectInSeq(cache, LAMBDA e : e.key = key)
Without(cache, key) ==
  IF Position(cache, key) = 0 THEN cache ELSE RemoveAt(cache, Position(cache, key))
CacheHit(cache, key, now) ==
  LET i == Position(cache, key) IN i # 0 /\ now < cache[i].expiry_time

\* get(): an entry found becomes the most recent one, an expired one is removed.
CacheAfterGet(cache, key, now) ==
  IF CacheHit(cache, key, now)
  THEN Append(Without(cache, key), cache[Position(cache, key)]) ELSE Without(cache, key)

\* Mutated: nothing makes room for a new key.
CacheAfterPutGrowing(cache, key, candidates, expiry, max_entries) ==
  Append(Without(cache, key), [key |-> key, candidates |-> candidates, expiry_time |-> expiry])

\* put(): a new key pushes the least recent entry out of a full cache.
CacheAfterPut(cache, key, candidates, expiry, max_entries) ==
  LET kept == IF Position(cache, key) = 0 /\ Len(cache) >= max_entries THEN Tail(cache)
              ELSE Without(cache, key)
  IN  Append(kept, [key |-> key, candidates |-> candidates, expiry_time |-> expiry])

(***************************************************************************)
(* The generation providers.  An exchange is what comes of one HTTP call.   *)
(***************************************************************************)

Exchanges ==
  {"timeout", "unreachable", "transport_error", "bad_request", "unauthorized", "rate_limited",
   "other_status", "malformed", "answer"}

\* None of the adapters tries again.
Generated(exchange, authentication, rate_limit) ==
  CASE exchange \in {"timeout", "unreachable"} -> "provider_unavailable"
    [] exchange \in authentication -> "provider_auth_error"
    [] exchange \in rate_limit -> "provider_rate_limit"
    [] exchange = "answer" -> "none"
    [] OTHER -> "provider_error"

OllamaGenerate(exchange) == Generated(exchange, {}, {})
OpenAICompatibleLocalGenerate(exchange) == Generated(exchange, {}, {})
OpenAIGenerate(exchange) == Generated(exchange, {"unauthorized"}, {"rate_limited"})
AnthropicGenerate(exchange) == Generated(exchange, {"unauthorized"}, {"rate_limited"})
GeminiGenerate(exchange) == Generated(exchange, {"bad_request", "unauthorized"}, {"rate_limited"})

\* GenerationProvider.generate: "none" stands for a response.
Generate(provider_id, exchange) ==
  CASE provider_id = "local_ollama" -> OllamaGenerate(exchange)
    [] provider_id = "local_openai_compatible" -> OpenAICompatibleLocalGenerate(exchange)
    [] provider_id = "hosted_openai" -> OpenAIGenerate(exchange)
    [] provider_id = "hosted_anthropic" -> AnthropicGenerate(exchange)
    [] provider_id = "hosted_gemini" -> GeminiGenerate(exchange)

\* The capability each adapter registers; a local one only ever talks to a loopback address.
Provider(provider_id, enabled) ==
  [provider_id |-> provider_id, enabled |-> enabled,
   location |-> IF provider_id \in {"local_ollama", "local_openai_compatible"}
                THEN "local" ELSE "hosted"]

(***************************************************************************)
(* factory.py: what build_litebridge registers for some settings            *)
(***************************************************************************)

\* loopback.py: plain http to a loopback host, with nothing but a port besides.
ValidLoopback(url) ==
  /\ url.scheme = "http" /\ url.valid_port
  /\ ~url.credentials /\ ~url.query /\ ~url.fragment /\ ~url.subpath
  /\ url.host \in {"127.0.0.1", "::1"} \/ url.resolves_to_loopback

\* An enabled source without its key, or a provider without its model, key or loopback
\* address, stops the construction; "none" when nothing does.
BuildError(settings) ==
  IF settings.enable_tavily_web /\ ~settings.tavily_api_key THEN "source_error"
  ELSE IF ~settings.enabled_providers \subseteq settings.configured_providers THEN "validation_error"
  ELSE IF \E p \in settings.enabled_providers :
            Provider(p, TRUE).location = "local" /\ ~ValidLoopback(settings.base_url)
       THEN "validation_error"
  ELSE "none"

BuiltRegistry(settings) ==
  Registry(<<LocalSource({"local_only", "hybrid"})>>
             \o (IF settings.enable_tavily_web THEN <<WebSource>> ELSE <<>>), FALSE)

BuiltProviders(settings) == {Provider(p, TRUE) : p \in settings.enabled_providers}
=============================================================================
