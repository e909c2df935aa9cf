------------------------------ MODULE Algorithms ------------------------------
(***************************************************************************)
(* The code's pure algorithms, asked over bounded inputs: those a run is   *)
(* made of, and what the system makes of an analysis for those who read it *)
(* (the knowledge base, the views of the graph and the report of a run),   *)
(* what it reads (the answers of providers, and source files), and how it  *)
(* is graded.  A behaviour is either a detection of communities, step by   *)
(* step, or one question put to one of the other algorithms: the question  *)
(* is all there is to its state, and the properties compare the answer     *)
(* with what it should be.                                                 *)
(***************************************************************************)
EXTENDS Communities, ChunkPlan, CodeGraph, Retrieval

CONSTANTS
  WindowLines, ChunkCap,     \* of the chunk plan, in lines and in tokens
  MaxTexts, MaxTokens,       \* of an embedding request
  SourceFiles,               \* [lines, symbols]
  Repos,                     \* [nodes, edges, cpgEdges]
  Requests,                  \* of a file by name: [nodes, endingIn, remembered]
  ToolUses,                  \* [tools, usage]
  Trees,                     \* [files, rules]
  Manifests,                 \* [pkg, others, workspaceFile, named]
  Declarations,              \* [declared, exports]
  CodeBases,                 \* the files Connect is given
  Searches,                  \* [docs, query]
  Rankings,                  \* the lists of two arms
  Reranks,                   \* [candidates, answer]: the model's scores
  ChoiceLists,               \* candidates of the diverse choice
  Comments,                  \* the lines above a declaration
  KB_MAX_POINTS_PER_COMMUNITY, KB_MAX_COMMUNITIES, KB_MAX_KEY_FILES, KB_MAX_DETAIL_CHARS, KB_MAX_FAQ,
  LANE_MAX_MODULES, LANE_MAX_HEADLINES, SUPERVISOR_MAX_FINDINGS, DEFAULT_MAX_VERSIONS,
  VERDICT_CHIP_CAP, SAFE_TO_CHANGE_MAX_AFFECTED, RADIAL_RINGS, RADIAL_LABELS, RADIAL_MAX_NODES,
  MIN_FILES_FOR_SHARE, HIGH_DEGREE, LONG_CYCLE, LATENCY_WINDOW,
  TOKEN_ESTIMATE_CHARS_PER_TOKEN, DEFAULT_MAX_TOKENS, EMBED_MAX_BATCH, ESCALATE_AT, WIDTH,
  HookNames, ComponentNames, RoutePaths,
  Boards,                    \* [result, findings]: what a fan-out posted
  Lookups,                   \* [entries, query]
  Histories,                 \* reads and writes of a blackboard
  Drawings,                  \* [nodes, edges, cycles, entryPoints]
  Measures,                  \* metrics of a run
  Outcomes,                  \* results of runs, with their scope
  Plans,                     \* [stages, reads]
  Latencies,                 \* sequences of [ms, answered]
  Completions,               \* [provider, request, answer]
  Embeddings,                \* [texts, order, indexed, reports, short]
  Environments,              \* [keys, chat, embedding, dim, wide]
  Routings,                  \* [fast, frontier, hint]
  Prices,                    \* [raw, env]
  Clauses,                   \* of imports
  SourceModules,             \* sequences of statements
  CallSites,                 \* [callee, literal, new]
  Decorators,                \* [attribute, path, methods]
  PythonFiles,               \* lines
  PythonImports,             \* [import, root]
  Evaluations,               \* a data set, a result and what answers and judges
  LabelSets,                 \* how often people and a judge said what
  ArenaWorlds,               \* an output and what it is graded against
  Flywheels,                 \* [repo, limits, space]
  Corpora,                   \* sequences of [expected, core, found]
  ArmTrials,                 \* sequences of [expected, enriched, raw]
  McpSessions,               \* [words, provider, repo, limit, calls]
  LocalRuns,                 \* [disk, before, last]: commands on one directory
  CommandLines,              \* [command, words, first, between, last]
  Listings                   \* [entries, other]: a directory, listed twice

VARIABLES kind, question

K == INSTANCE Knowledge
R == INSTANCE RunReport
P == INSTANCE Providers
G == INSTANCE Parsing
E == INSTANCE Scoring
O == INSTANCE LocalTools

allVars == <<vars, kind, question>>

\* The detection over the graph without edges, which has ended.
NoDetection ==
  /\ pc = "done"
  /\ base = projectUndirected(<<>>) /\ level = base
  /\ order = [u \in Units(level) |-> u]
  /\ at = 1 /\ moved = FALSE /\ pass = 1
  /\ communityOf = [u \in Units(level) |-> u]
  /\ communityDegree = [u \in Units(level) |-> 0]
  /\ report = finalize(base, groupByCommunity(base.n, communityOf))

Ask(k, questions) == kind = k /\ question \in questions

AlgorithmsInit ==
  \/ Init /\ kind = "communities" /\ question = <<>>
  \/ /\ NoDetection
     /\ \/ Ask("file", SourceFiles)
        \/ Ask("repo", Repos)
        \/ Ask("request", Requests)
        \/ Ask("tools", ToolUses)
        \/ Ask("tree", Trees)
        \/ Ask("manifest", Manifests)
        \/ Ask("declarations", Declarations)
        \/ Ask("code", CodeBases)
        \/ Ask("search", Searches)
        \/ Ask("ranking", Rankings)
        \/ Ask("rerank", Reranks)
        \/ Ask("choice", ChoiceLists)
        \/ Ask("comment", Comments)
        \/ Ask("board", Boards)
        \/ Ask("lookup", Lookups)
        \/ Ask("history", Histories)
        \/ Ask("drawing", Drawings)
        \/ Ask("metrics", Measures)
        \/ Ask("outcome", Outcomes)
        \/ Ask("plan", Plans)
        \/ Ask("latency", Latencies)
        \/ Ask("completion", Completions)
        \/ Ask("embedding", Embeddings)
        \/ Ask("environment", Environments)
        \/ Ask("routing", Routings)
        \/ Ask("prices", Prices)
        \/ Ask("clause", Clauses)
        \/ Ask("module", SourceModules)
        \/ Ask("call", CallSites)
        \/ Ask("decorator", Decorators)
        \/ Ask("python", PythonFiles)
        \/ Ask("pythonImport", PythonImports)
        \/ Ask("evaluation", Evaluations)
        \/ Ask("labels", LabelSets)
        \/ Ask("arena", ArenaWorlds)
        \/ Ask("flywheel", Flywheels)
        \/ Ask("parity", Corpora)
        \/ Ask("arms", ArmTrials)
        \/ Ask("mcp", McpSessions)
        \/ Ask("local", LocalRuns)
        \/ Ask("command", CommandLines)
        \/ Ask("listing", Listings)

AlgorithmsSpec ==
  AlgorithmsInit /\ [][Next /\ UNCHANGED <<kind, question>>]_allVars /\ WF_allVars(Next /\ UNCHANGED <<kind, question>>)

----------------------------------------------------------------------------
(* The chunk plan and its requests                                          *)

Chunks == planSourceFile(question.lines, question.symbols, WindowLines, ChunkCap)

\* Whatever a file's symbols, nested or overlapping or without an end, its
\* chunks follow one another from the first line to the last (rag.ts:538-551).
FilesAreTiled ==
  kind = "file" => Tiles(Chunks, Len(question.lines))

\* Only a line too long by itself makes a chunk over the cap (rag.ts:577-606).
ChunksFitTheCap ==
  kind = "file" => OnlyLinesExceed(question.lines, Chunks, ChunkCap)

\* The chunks' texts are sent once each, in order, in requests within the
\* provider's limits (rag.ts:701-717).
RequestsFit ==
  kind = "file" =>
    LET tokens == [i \in DOMAIN Chunks |-> tokenCount(question.lines, Chunks[i])]
        indices == [i \in DOMAIN Chunks |-> i]
    IN BatchesAreSound(batchIndices(indices, tokens, MaxTexts, MaxTokens), indices, tokens, MaxTexts, MaxTokens)

----------------------------------------------------------------------------
(* The graph                                                                *)

ImportGraph == buildImportGraph(question.nodes, question.edges)
PropertyGraph == buildCodePropertyGraph(question.nodes, question.edges, question.cpgEdges)
Options(g) == [maxDepth : {0, 1, AnyDepth(g)}, minConfidence : {0}, includeTypes : {{}, ImportKinds}]

\* A traversal finds what is reachable within its options, nearest first, and
\* by which edge (traversal.ts:24-59).
TraversalFindsTheNearest ==
  kind = "repo" =>
    \A start \in Ids(PropertyGraph), forward \in BOOLEAN, opts \in Options(PropertyGraph) :
      FindsTheNearest(PropertyGraph, start, forward, opts)

\* Every cycle reported is one, and a graph that has one has one reported
\* (cycles.ts:3-37).
CyclesAreFound ==
  kind = "repo" => CyclesAreReal(ImportGraph) /\ CyclesAreReal(PropertyGraph)

\* "import-only traversal is still available by filtering edge types"
\* (codePropertyGraph.ts:27-28): it finds what the import graph has.
ImportsCanStillBeTraversed ==
  kind = "repo" =>
    \A start \in Ids(ImportGraph), forward \in BOOLEAN :
      LET Found(g, types) == {[node |-> r.node, depth |-> r.depth] :
            r \in Range(traverse(g, start, forward, [maxDepth |-> AnyDepth(g), minConfidence |-> 0, includeTypes |-> types]))}
      IN Found(PropertyGraph, ImportKinds) = Found(ImportGraph, {})

\* A drawing cut to its caps is still a graph, of the most connected files
\* (serialization.ts:41-63).
DrawingsAreGraphs ==
  kind = "repo" =>
    \A maxNodes \in 1..3, maxLinks \in {1, 3} :
      DrawingIsSound(PropertyGraph,
        serializeGraphForUI(PropertyGraph, maxNodes, maxLinks,
                            [incoming |-> 2, outgoing |-> 2, totalDegree |-> 3, blastRadius |-> 2]),
        maxNodes, maxLinks)

\* An agent that reads the answer off the metrics, the tools and the cycles
\* passes the oracle, and no file is asked for as an answer about itself where
\* it is not one (graphOracle.ts:33-136).
OracleGradesItsTruth ==
  kind = "repo" =>
    \A id \in Ids(ImportGraph), k \in {"imports-of", "who-calls", "blast-radius", "cycle-through"} :
      LET truth == truthFor(k, question, id)
      IN /\ verify(truth, truth, Ids(ImportGraph)).passed
         /\ k \in {"blast-radius", "cycle-through"} => id \notin truth
         /\ k = "cycle-through" => truth \subseteq Cyclic(ImportGraph)

\* A name two files end in is not taken for either: the file is the one
\* remembered, or none (graphTools.ts:37-59).
AmbiguityIsNotGuessed ==
  kind = "request" =>
    LET r == resolveFileArg(question.nodes, question.requested, question.endingIn, question.remembered)
    IN r.fileId # Absent =>
         \/ r.fileId = question.requested /\ r.fileId \in question.nodes
         \/ question.endingIn = {r.fileId}
         \/ r.fromMemory /\ r.fileId = question.remembered

\* Every tool is offered or left out with its reason; one that came back empty
\* twice is left out; nothing that matches makes room for what does not
\* (toolRouter.ts:74-117).
ToolsAreAccountedFor ==
  kind = "tools" =>
    LET curated == curateTools(question.tools, question.usage, 2)
        kept == {t.id : t \in Range(curated.kept)}
        omitted == {o.id : o \in curated.omitted}
    IN /\ kept \cap omitted = {} /\ kept \cup omitted = {t.id : t \in Range(question.tools)}
       /\ Cardinality(curated.omitted) = Cardinality(omitted)
       /\ \A id \in kept : question.usage.empties[id] < 2
       /\ \A t \in Range(question.tools) :
            t.id \in omitted /\ question.usage.empties[t.id] < 2 =>
              \A u \in Range(curated.kept) : u.matches >= t.matches

----------------------------------------------------------------------------
(* The deterministic stages                                                 *)

\* Without a pattern that brings a directory back, the files kept are those
\* Git keeps (mapStructure.ts:123-153, :335-342).
IgnoresLikeGit ==
  kind = "tree" =>
    walk(question.files, question.rules) = {f \in question.files : GitKeeps(f, question.rules)}

\* What Inventory calls a command-line tool on hard evidence, Orient called
\* one too, unless it is a monorepo (orient.ts:258-268, inventory.ts:369-374).
ProjectTypesAgree ==
  kind = "manifest" =>
    (deriveProjectTypeSignal(detectEntryPoints(question.pkg, question.named, {})) = "cli"
       => detectOrientation(question.pkg, question.others, question.workspaceFile) \in {"cli", "monorepo"})

\* An export reaches every declaration of its name, and each name that is
\* exported is a symbol (inventory.ts:202-250).
ExportsReachEveryDeclaration ==
  kind = "declarations" =>
    LET symbols == collectSymbols(question.declared, question.exports)
    IN /\ \A i \in DOMAIN symbols : symbols[i].name \in Range(question.exports) => symbols[i].exported
       /\ Range(question.exports) \subseteq {symbols[i].name : i \in DOMAIN symbols}
       /\ \A i \in DOMAIN symbols : i > Len(question.declared) =>
            \A k \in DOMAIN symbols : k # i => symbols[k].name # symbols[i].name

\* A specifier that leads from one file to another is resolved to a file of
\* that place and name (connect.ts:292-303, :343-351).
RelativeSpecifiersResolve ==
  kind = "code" =>
    \A from, to \in DOMAIN question :
      question[from].ext # ".py" /\ question[to].ext # ".py" =>
        LET found == resolveJsImport(question, from, Relative(question[from].dir, question[to]))
        IN /\ found # Unresolved
           /\ question[found].dir = question[to].dir /\ question[found].name = question[to].name

\* A call leads where an import of its file leads, to the file its name was
\* bound to first, and no reference is counted twice (connect.ts:134-179,
\* :268-285).
CallsFollowImports ==
  kind = "code" =>
    LET made == connect(question)
    IN \A c \in made.cpgEdges :
         /\ \E e \in made.edges : e.from = c.from /\ e.to = c.to
         /\ LET refs == question[c.from].refs
                imports == question[c.from].imports
                Binds(i, b) == /\ b \in imports[i].specifiers /\ imports[i].relative
                               /\ resolveImport(question, c.from, imports[i]) # Unresolved
            IN /\ \E r \in DOMAIN refs : \E i \in DOMAIN imports :
                    /\ refs[r].symbol = c.symbol /\ refs[r].line = c.line
                    /\ Binds(i, refs[r].binding) /\ resolveImport(question, c.from, imports[i]) = c.to
                    /\ \A k \in 1..(i - 1) : ~Binds(k, refs[r].binding)
               /\ AddUp(LAMBDA e : e.count, {e \in made.cpgEdges : e.from = c.from}) <= Len(refs)

----------------------------------------------------------------------------
(* Retrieval                                                                *)

\* A query finds a chunk by the words they share, whatever the times and the
\* order it asks for them (bm25.ts:93-133).
WordsCountOnce ==
  kind = "search" =>
    LET found == bm25Search(question.docs, question.query, 2)
        once == SetToSeq(Range(question.query))
    IN /\ found = bm25Search(question.docs, once, 2)
       /\ \A id \in Range(found) : Range(question.docs[id]) \cap Range(question.query) # {}

\* What both arms rank higher is fused higher, and nothing is lost (rrf.ts:48-75).
FusionAgrees ==
  kind = "ranking" => AgreementWins(question, 60)

\* A reranker that answers short, or fails, or leaves a candidate out, costs
\* none of them (hybridSearch.ts:209-234, reranker.ts:145-173).
RerankingLosesNothing ==
  kind = "rerank" =>
    LET ranked == crossEncoder(question.candidates, 2, LAMBDA batch : question.answer[batch])
    IN /\ Range(reranked(question.candidates, ranked)) = Range(question.candidates)
       /\ Len(reranked(question.candidates, ranked)) = Len(question.candidates)
       /\ Range(reranked(question.candidates, question.named)) = Range(question.candidates)
       /\ (\E b \in {TopOf(question.candidates, 2), SubSeq(question.candidates, 3, Len(question.candidates))} :
             b # <<>> /\ Len(question.answer[b]) # Len(b))
            => reranked(question.candidates, ranked) = question.candidates

\* The diverse few are the same whatever order the candidates come in
\* (mmr.ts:51-93).
ChoiceIgnoresOrder ==
  kind = "choice" =>
    \A k \in 1..2, lambda \in {0, 5, 7} : OrderDoesNotMatter(question, k, lambda, 2)

\* The comment embedded with a chunk is the one right above its declaration
\* (enrichment.ts:225-261).
CommentsBelong ==
  kind = "comment" =>
    \A maxLines \in 1..2 : BelongsToTheDeclaration(question, Len(question) + 1, maxLines)

\* The graph algorithms, the agent's tools on them and the arena's oracle.
GraphsAreSound ==
  /\ TraversalFindsTheNearest /\ CyclesAreFound /\ ImportsCanStillBeTraversed
  /\ DrawingsAreGraphs /\ OracleGradesItsTruth /\ AmbiguityIsNotGuessed /\ ToolsAreAccountedFor

\* What the deterministic stages make of a repository.
StagesAreSound ==
  /\ IgnoresLikeGit /\ ProjectTypesAgree /\ ExportsReachEveryDeclaration
  /\ RelativeSpecifiersResolve /\ CallsFollowImports

\* What retrieval indexes and how it ranks.
RetrievalIsSound ==
  /\ FilesAreTiled /\ ChunksFitTheCap /\ RequestsFit /\ WordsCountOnce /\ FusionAgrees
  /\ RerankingLosesNothing /\ ChoiceIgnoresOrder /\ CommentsBelong

----------------------------------------------------------------------------
(* What is made of an analysis, what is read, and how it is graded         *)

\* Findings are merged, capped and shown without one being lost untold, and what
\* a reader of the blackboard was given can be told (consolidate.ts:130-221,
\* blackboard.ts:46-92, versionedBlackboard.ts:78-135).
KnowledgeIsSound ==
  /\ kind = "board" => K!KnowledgeIsSound(question.result, question.findings)
  /\ kind = "lookup" => K!HitsAreRelevant(question.entries, question.query)
  /\ kind = "history" => K!HistoryIsReplayable(question)

\* What the page says a change reaches is what it reaches, and its lanes, edge
\* classes and rings are those of the graph (architecture.ts, radial.ts).
ViewsAreSound ==
  kind = "drawing" => R!ViewsAreSound(question.nodes, question.edges, question.cycles, question.entryPoints)

\* A run is planned as its declarations allow, and called grounded, healthy, done
\* or fast only where it is (schedule.ts, answerLatency.ts, siteModel.ts,
\* summary.ts, issues.ts, pipelineJobProcessor.ts:138-178).
ReportsAreHonest ==
  /\ kind = "metrics" => R!IssuesAreStable(question) /\ R!HealthIsFair(question)
  /\ kind = "plan" => R!PlanIsSafe(question.stages, question.reads)
  /\ kind = "latency" => R!LatencyIsMeasured(question)
  /\ kind = "outcome" => R!ReportsAreHonest(question, R!Absent)

\* What a provider answers is billed and filed as what it is, and which provider
\* and model it is was meant (llmClient.ts, embeddingClient.ts, providers.ts,
\* modelRouter.ts, exporters.ts:216-325).
ProvidersAreSound ==
  /\ kind = "completion" => P!CompletionsAreBilled(question.provider, question.request, question.answer)
  /\ kind = "embedding" => P!VectorsAlign(question.texts, question.order, question.indexed, question.reports, question.short)
  /\ kind = "environment" => P!ProvidersAreMeant(question)
  /\ kind = "routing" => P!RoutingNeverDowngrades(question.fast, question.frontier, question.hint)
  /\ kind = "prices" => P!PricesAreTold(question.raw, question.env)

\* A file is read alike with a grammar and without: coverage does not regress,
\* and what the scan of its lines says of it is so (packages/parsers/src).
EnginesAgree ==
  /\ kind = "clause" => G!ClausesAgree(question)
  /\ kind = "module" => /\ \A i \in DOMAIN question : G!ImportsAgree(question[i])
                        /\ G!FactsHaveEveryImport(question) /\ G!DeclarationsAgree(question)
  /\ kind = "call" => G!CallsAreFiled(question)
  /\ kind = "decorator" => G!HandlersAnswer(question)
  /\ kind = "python" => G!DefinitionsAgree(question)
  /\ kind = "pythonImport" => G!PyImportsAgree(question.import, question.root)

\* What the evaluation says is so: what is accepted can be scored, a recall
\* counts what was found, only a measured judge decides, and what passes the
\* arena is real (packages/eval/src, packages/arena/src).
ScoresAreFair ==
  /\ kind = "evaluation" => /\ E!DatasetsAreFair(question, question.sidecar)
                            /\ E!RecallIsHonest(question) /\ E!VerdictsAreEarned(question)
  /\ kind = "labels" => E!JudgesAreMeasured(question)
  /\ kind = "arena" => E!PassesAreReal(question)
  /\ kind = "flywheel" => E!FlywheelIsExact(question.repo, question.limits, question.space)
  /\ kind = "parity" => E!ParityIsFair(question)
  /\ kind = "arms" => E!ArmsAreCompared(question)

\* The tools an outside agent calls do what was allowed and agree with the
\* verifier; a local question is answered from the tree as it is, and a command
\* is done as it was meant (apps/mcp/src, apps/local-cli/src).
ToolsAreHonest ==
  /\ kind = "mcp" => /\ O!SurfaceIsHonest(question)
                     /\ question.calls = <<>> => O!VerifierAgrees(question.repo)
  /\ kind = "local" => O!LocalAnswersAreOfTheTree(question)
  /\ kind = "command" => O!CommandsAreMeant(question)
  /\ kind = "listing" => O!WalkIsStable(question.entries, question.other)

\* What is made of an analysis for its readers.
ProductsAreSound == KnowledgeIsSound /\ ViewsAreSound /\ ReportsAreHonest /\ ToolsAreHonest
=============================================================================
