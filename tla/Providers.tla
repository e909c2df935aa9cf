------------------------------- MODULE Providers -------------------------------
(***************************************************************************)
(* The clients of the model providers (packages/analyzers/src): what they  *)
(* send, what they make of an answer and of the usage it reports, which    *)
(* provider an environment selects, which of two models a call is routed   *)
(* to; and the prices and trace backends that an environment configures.   *)
(*                                                                         *)
(* A text is its length.  A field of an answer is [kind, n]: a number, a   *)
(* string that reads as one, or something else.                            *)
(***************************************************************************)
EXTENDS Integers, Sequences, FiniteSets, SequencesExt, FiniteSetsExt

CONSTANTS
  TOKEN_ESTIMATE_CHARS_PER_TOKEN,
  DEFAULT_MAX_TOKENS,        \* of an answer, where the request says nothing
  EMBED_MAX_BATCH,           \* texts in one embedding request
  ESCALATE_AT,               \* the complexity a specialist's call escalates at
  WIDTH                      \* a provider's default embedding width

Absent == -1

----------------------------------------------------------------------------
(* Token usage (tokens.ts)                                                  *)

estimateTokens(length) ==
  (length + TOKEN_ESTIMATE_CHARS_PER_TOKEN - 1) \div TOKEN_ESTIMATE_CHARS_PER_TOKEN

usageNumber(field) == IF field.kind \in {"number", "string"} /\ field.n >= 0 THEN field.n ELSE Absent

estimatedUsage(input, output) ==
  [input |-> estimateTokens(input), output |-> estimateTokens(output), measured |-> FALSE, cached |-> 0]
measuredUsage(input, output, cached) ==
  [input |-> input, output |-> output, measured |-> TRUE, cached |-> Max({0, cached})]

\* One estimated part makes the sum an estimate.
sumUsage(parts) ==
  LET Sum(Of(_)) == FoldLeft(LAMBDA sum, p : sum + Of(p), 0, parts)
  IN [input |-> Sum(LAMBDA p : p.input), output |-> Sum(LAMBDA p : p.output),
      measured |-> \A i \in DOMAIN parts : parts[i].measured, cached |-> Sum(LAMBDA p : p.cached)]

----------------------------------------------------------------------------
(* Chat clients (llmClient.ts): a request is [prefix, system, prompt,       *)
(* maxTokens], an answer [ok, texts, input, output, cached]                 *)

\* The stable prefix leads, and what is empty is not sent.
systemOf(request) == SelectSeq(<<request.prefix, request.system>>, LAMBDA x : x > 0)

\* Gemini sends no limit unless it is asked to.
bodyOf(provider, request) ==
  [system |-> systemOf(request), prompt |-> request.prompt,
   maxTokens |-> IF request.maxTokens # Absent \/ provider = "gemini" THEN request.maxTokens ELSE DEFAULT_MAX_TOKENS]

Failure == [failed |-> TRUE]

\* An answer without text is a failure.  Anthropic's usage is taken when both
\* counters are there; the others' when the input is, a missing output being 0.
completionOf(request, answer, measured) ==
  LET length == FoldLeft(LAMBDA n, t : n + t, 0, answer.texts)
  IN IF ~answer.ok \/ length = 0 THEN Failure
     ELSE [failed |-> FALSE, text |-> length,
           usage |-> IF measured
                     THEN measuredUsage(usageNumber(answer.input), Max({0, usageNumber(answer.output)}), usageNumber(answer.cached))
                     ELSE estimatedUsage(request.prefix + request.system + 1 + request.prompt, length)]

completeAnthropic(request, answer) ==
  completionOf(request, answer, Absent \notin {usageNumber(answer.input), usageNumber(answer.output)})
completeGemini(request, answer) == completionOf(request, answer, usageNumber(answer.input) # Absent)
completeOpenAi(request, answer) == completionOf(request, answer, usageNumber(answer.input) # Absent)

complete(provider, request, answer) ==
  IF provider = "anthropic" THEN completeAnthropic(request, answer)
  ELSE IF provider = "gemini" THEN completeGemini(request, answer) ELSE completeOpenAi(request, answer)

----------------------------------------------------------------------------
(* Embedding clients (embeddingClient.ts): an answer to a request is [ok,   *)
(* data, total], its data a list of [index, vector]; vector 0 is none       *)

\* Mutant: vectors in the order of the answer.
alignedAsAnswered(data) == [i \in DOMAIN data |-> data[i].vector]

\* Vectors by the index they came with (from 0), or their place; the last of
\* one index stays, and an index nobody gave is a hole.
aligned(data) ==
  LET At(i) == IF data[i].index = Absent THEN i ELSE data[i].index + 1
      length == Max({Len(data)} \cup {At(i) : i \in DOMAIN data})
      given == [k \in 1..length |-> {i \in DOMAIN data : At(i) = k}]
  IN [k \in 1..length |-> IF given[k] = {} THEN 0 ELSE data[Max(given[k])].vector]

\* One batch: as many vectors as texts, each of them a vector.  Gemini's come
\* without an index.
batchOf(texts, answer, provider) ==
  IF ~answer.ok \/ Len(answer.data) # Len(texts) \/ \E e \in ToSet(answer.data) : e.vector = 0 THEN Failure
  ELSE LET total == usageNumber(answer.total)
       IN [failed |-> FALSE,
           vectors |-> IF provider = "gemini" THEN [i \in DOMAIN texts |-> answer.data[i].vector] ELSE aligned(answer.data),
           usage |-> IF total # Absent THEN measuredUsage(total, 0, 0)
                     ELSE estimatedUsage(FoldLeft(LAMBDA n, t : n + t, Len(texts) - 1, texts), 0)]

\* Texts go in requests of at most so many, each answered; one that fails fails
\* them all.
embedInBatches(texts, answers, maxBatch, provider) ==
  LET count == (Len(texts) + maxBatch - 1) \div maxBatch
      batches == [b \in 1..count |-> SubSeq(texts, (b - 1) * maxBatch + 1, Min({b * maxBatch, Len(texts)}))]
      made == [b \in DOMAIN batches |-> batchOf(batches[b], answers[batches[b]], provider)]
  IN IF \E b \in DOMAIN made : made[b].failed THEN Failure
     ELSE [failed |-> FALSE, vectors |-> FlattenSeq([b \in DOMAIN made |-> made[b].vectors]),
           usage |-> sumUsage([b \in DOMAIN made |-> made[b].usage])]

embedVoyage(texts, answers) == embedInBatches(texts, answers, Max({1, Len(texts)}), "voyage")
embedOpenAi(texts, answers) == embedInBatches(texts, answers, EMBED_MAX_BATCH, "openai")
embedGemini(texts, answers) == embedInBatches(texts, answers, EMBED_MAX_BATCH, "gemini")

----------------------------------------------------------------------------
(* The provider an environment selects (providers.ts): an environment is    *)
(* [keys, chat, embedding, dim, wide]: the providers whose key is set, what *)
(* LLM_PROVIDER and EMBEDDING_PROVIDER name, and the overrides of the width *)

CHAT_PROVIDERS == {"anthropic", "gemini", "openai"}
EMBEDDING_PROVIDERS == {"voyage", "gemini", "openai"}

selectProvider(table, keys, explicit) ==
  IF explicit # "" THEN IF explicit \in table THEN explicit ELSE "invalid"
  ELSE IF Cardinality(keys \cap table) > 1 THEN "ambiguous"
  ELSE IF keys \cap table = {} THEN "none" ELSE CHOOSE p \in table : p \in keys

resolveChatProvider(env) == selectProvider(CHAT_PROVIDERS, env.keys, env.chat)
resolveEmbeddingProvider(env) == selectProvider(EMBEDDING_PROVIDERS, env.keys, env.embedding)

\* A client of the selected provider if its key is set.
createLlmClientFromEnv(env) ==
  LET p == resolveChatProvider(env) IN IF p \in CHAT_PROVIDERS /\ p \notin env.keys THEN "none" ELSE p

\* An override is [kind, n]: a whole number, a fraction, or none that reads as one.
positiveInt(raw) == IF raw.kind = "integer" /\ raw.n > 0 THEN raw.n ELSE Absent

openAiEmbeddingDimension(wide) == IF wide THEN 2 * WIDTH ELSE WIDTH

Or(n, default) == IF n = Absent THEN default ELSE n

\* Gemini's client takes any number that is not zero.
createEmbeddingClientFromEnv(env) ==
  LET p == resolveEmbeddingProvider(env)
  IN IF p \notin EMBEDDING_PROVIDERS THEN [provider |-> p, dimension |-> Absent]
     ELSE IF p \notin env.keys THEN [provider |-> "none", dimension |-> Absent]
     ELSE [provider |-> p,
           dimension |-> IF p = "voyage" THEN WIDTH
                         ELSE IF p = "openai" THEN Or(positiveInt(env.dim), openAiEmbeddingDimension(env.wide))
                         ELSE IF env.dim.kind \in {"integer", "fraction"} /\ env.dim.n # 0 THEN env.dim.n ELSE WIDTH]

resolveEmbeddingDimension(env) ==
  LET p == resolveEmbeddingProvider(env)
  IN IF p = "openai" THEN Or(positiveInt(env.dim), openAiEmbeddingDimension(env.wide))
     ELSE IF p = "gemini" THEN Or(positiveInt(env.dim), WIDTH)
     ELSE IF p = "voyage" THEN WIDTH ELSE Absent

----------------------------------------------------------------------------
(* Model routing (modelRouter.ts): a client is [provider, model], a hint    *)
(* [task, complexity], and a call without one has none                      *)

FastTasks == {"specialist", "classification"}

routeTier(hint) ==
  IF hint = <<>> THEN "frontier"
  ELSE IF hint[1].task = "specialist" /\ hint[1].complexity >= ESCALATE_AT THEN "frontier"
  ELSE IF hint[1].task \in FastTasks THEN "fast" ELSE "frontier"

\* Clients are lists of at most one.  A router is known by its frontier client,
\* and names the fast model too.
createRoutedLlmClient(fast, frontier) ==
  [provider |-> frontier.provider,
   model |-> IF fast.model = frontier.model THEN <<frontier.model>> ELSE <<frontier.model, fast.model>>,
   tier |-> [fast |-> fast, frontier |-> frontier]]
Unrouted(client) ==
  [provider |-> client.provider, model |-> <<client.model>>, tier |-> [fast |-> client, frontier |-> client]]

maybeRouted(fast, frontier) ==
  IF fast = <<>> /\ frontier = <<>> THEN <<>>
  ELSE IF fast = <<>> \/ frontier = <<>> \/ fast = frontier THEN <<Unrouted((frontier \o fast)[1])>>
  ELSE <<createRoutedLlmClient(fast[1], frontier[1])>>

\* The client a call goes to, with what is written in the log.
decide(routed, hint) ==
  LET tier == routeTier(hint) IN [tier |-> tier, client |-> routed.tier[tier], task |-> IF hint = <<>> THEN "synthesis" ELSE hint[1].task]

----------------------------------------------------------------------------
(* Prices and trace backends (exporters.ts, traceExport.ts)                 *)

\* LLM_PRICING as it reads: "blank", "broken", a value that is "no object", or
\* entries [model, input, output] with prices or Absent.
pricingFromEnv(raw) ==
  LET usable == {e \in raw.entries : e.input # Absent /\ e.output # Absent}
  IN IF raw.kind # "entries" THEN [priced |-> {}, errors |-> IF raw.kind = "blank" THEN 0 ELSE 1]
     ELSE [priced |-> {e.model : e \in usable}, errors |-> Cardinality(raw.entries \ usable)]

exportersFromEnv(env) ==
  (IF {"LANGFUSE_HOST", "LANGFUSE_PUBLIC_KEY", "LANGFUSE_SECRET_KEY"} \subseteq env THEN {"langfuse"} ELSE {})
    \cup (IF "HELICONE_API_KEY" \in env THEN {"helicone"} ELSE {})

\* The replay buffer is always there.
resolveTraceExport(env, raw) ==
  [exporters |-> {"buffer"} \cup exportersFromEnv(env), remoteConfigured |-> exportersFromEnv(env) # {},
   pricing |-> pricingFromEnv(raw)]

----------------------------------------------------------------------------
(* What must hold of them                                                   *)

\* A completion has text and a usage; it is measured only if the provider said
\* what went in, and an estimate bills what was sent, the prefix included.
CompletionsAreBilled(provider, request, answer) ==
  LET made == complete(provider, request, answer)
  IN ~made.failed =>
       /\ made.text > 0
       /\ made.usage.measured => made.usage.input = answer.input.n
       /\ ~made.usage.measured =>
            /\ made.usage.input * TOKEN_ESTIMATE_CHARS_PER_TOKEN > FoldLeft(LAMBDA n, x : n + x, request.prompt, bodyOf(provider, request).system)
            /\ made.usage.output > 0
       /\ provider = "anthropic" /\ made.usage.measured => made.usage.output = answer.output.n

\* A provider that answers each text once, in whatever order and with its index
\* (or in order, without), gets each its own vector; a short answer fails; and
\* the usage is measured if every batch's is.  A text's vector is its length.
VectorsAlign(texts, order, indexed, reports, short) ==
  LET Answer(batch) ==
        LET at == SelectSeq(IF indexed THEN order ELSE [i \in DOMAIN texts |-> i], LAMBDA i : i <= Len(batch))
            data == [k \in DOMAIN at |-> [index |-> IF indexed THEN at[k] - 1 ELSE Absent, vector |-> batch[at[k]]]]
        IN [ok |-> TRUE, data |-> IF short /\ Len(batch) > 1 THEN Tail(data) ELSE data,
            total |-> IF reports /\ Len(batch) > 1 THEN [kind |-> "number", n |-> 5] ELSE [kind |-> "other", n |-> 0]]
      answers == [batch \in {SubSeq(texts, i, k) : i, k \in DOMAIN texts} |-> Answer(batch)]
      Right(made, sizes) ==
        IF made.failed THEN short /\ \E n \in sizes : n > 1
        ELSE made.vectors = texts /\ (made.usage.measured <=> reports /\ \A n \in sizes : n > 1)
      sizes == {Min({EMBED_MAX_BATCH, Len(texts) - from}) : from \in {k \in 0..(Len(texts) - 1) : k % EMBED_MAX_BATCH = 0}}
  IN IF texts = <<>> THEN embedVoyage(texts, answers).vectors = <<>> /\ embedGemini(texts, answers).usage.input = 0
     ELSE /\ Right(embedVoyage(texts, answers), {Len(texts)}) /\ Right(embedOpenAi(texts, answers), sizes)
          /\ ~indexed => Right(embedGemini(texts, answers), sizes)

\* Which provider pays is never guessed, and one more key changes it to an error
\* at most.  The width that is told is that of the client, but for a Gemini
\* override that is no positive whole number.
ProvidersAreMeant(env) ==
  LET Chosen(p) == p \notin {"none", "ambiguous", "invalid"}
      chat == createLlmClientFromEnv(env)
      client == createEmbeddingClientFromEnv(env)
  IN /\ Chosen(chat) => chat \in env.keys /\ env.chat \in {"", chat}
     /\ Chosen(client.provider) => client.provider \in env.keys /\ env.embedding \in {"", client.provider}
     /\ \A key \in CHAT_PROVIDERS \cup EMBEDDING_PROVIDERS :
          LET more == [env EXCEPT !.keys = @ \cup {key}]
          IN /\ Chosen(chat) => createLlmClientFromEnv(more) \in {chat, "ambiguous"}
             /\ Chosen(client.provider) => createEmbeddingClientFromEnv(more).provider \in {client.provider, "ambiguous"}
     /\ Chosen(client.provider) =>
          \/ resolveEmbeddingDimension(env) = client.dimension
          \/ client.provider = "gemini" /\ positiveInt(env.dim) = Absent /\ env.dim.n # 0

\* A call nobody hinted at, or on a complex community, is not downgraded; one
\* client is never wrapped; and a router is not known by the name of either
\* model unless both have it.
RoutingNeverDowngrades(fast, frontier, hint) ==
  LET routed == maybeRouted(fast, frontier)
  IN routed # <<>> =>
       /\ LET made == decide(routed[1], hint)
          IN frontier # <<>> /\ (hint = <<>> \/ hint[1].task \notin FastTasks \/ (hint[1].complexity >= ESCALATE_AT /\ hint[1].task = "specialist"))
               => made.client = frontier[1]
       /\ fast = <<>> \/ frontier = <<>> => routed[1].model = <<(frontier \o fast)[1].model>>
       /\ fast # <<>> /\ frontier # <<>> /\ fast[1].model # frontier[1].model =>
            routed[1].model \notin {<<fast[1].model>>, <<frontier[1].model>>}

\* A model is priced by what could be read of it, and what could not is told.
PricesAreTold(raw, env) ==
  LET found == resolveTraceExport(env, raw)
  IN /\ \A e \in raw.entries : raw.kind = "entries" => (e.model \in found.pricing.priced <=> e.input # Absent /\ e.output # Absent)
     /\ found.pricing.priced = {} => found.pricing.errors > 0 \/ raw.kind = "blank" \/ raw.entries = {}
     /\ "buffer" \in found.exporters /\ (found.remoteConfigured <=> Cardinality(found.exporters) > 1)
=============================================================================
