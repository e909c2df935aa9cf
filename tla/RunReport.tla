------------------------------- MODULE RunReport -------------------------------
(***************************************************************************)
(* What a run says of itself, and what the page shows of it: the layers it *)
(* is planned in (schedule.ts), the issues and the health score that its   *)
(* metrics become when the result is assembled (analyzers/src/pipeline),   *)
(* the scope the worker stamps on it, and in apps/web/src/lib the rows,    *)
(* the numbers and the grounding of the page, the model of the graph it    *)
(* draws, the lanes and edge classes of the system view, what a change or  *)
(* a move of a module reaches, and the rings of the radial map.            *)
(*                                                                         *)
(* A result is [status, reason, records, chat, embedding, structure,       *)
(* inventory, graph, perFile, communities, rag, synthesis, dropped, cost,  *)
(* scope]: records is a function from the stages reported on to [status,   *)
(* ms], and a slice is the counts it has, or Absent.  A file is a number,  *)
(* in the order of paths; a node is [id, dir, role], its directory a       *)
(* sequence of names; an edge is [from, to, kind].                         *)
(***************************************************************************)
EXTENDS Integers, Sequences, FiniteSets, SequencesExt, FiniteSetsExt

CONSTANTS
  MIN_FILES_FOR_SHARE, HIGH_DEGREE, LONG_CYCLE, LATENCY_WINDOW,
  VERDICT_CHIP_CAP, SAFE_TO_CHANGE_MAX_AFFECTED,
  RADIAL_RINGS, RADIAL_LABELS, RADIAL_MAX_NODES

Absent == -1

----------------------------------------------------------------------------
(* The plan (schedule.ts): a stage is [id, owns], reads are given by id      *)

\* A slice nobody in this run owns is no dependency; all but Ingest wait for it.
dependenciesOf(stage, stages, reads) ==
  LET Owners(k) == {i \in DOMAIN stages : k \in stages[i].owns}
      Ids == {s.id : s \in ToSet(stages)}
  IN ({stages[Max(Owners(k))].id : k \in {k \in reads[stage.id] : Owners(k) # {}}}
        \cup (IF stage.id = "ingest" THEN {} ELSE Ids \cap {"ingest"})) \ {stage.id}

\* Sets of positions in the declared order; a rest that waits for itself is one
\* last layer.
computeLayers(stages, reads) ==
  LET deps == [i \in DOMAIN stages |-> dependenciesOf(stages[i], stages, reads)]
      from[done \in SUBSET DOMAIN stages] ==
        LET remaining == DOMAIN stages \ done
            ready == {i \in remaining : deps[i] \subseteq {stages[j].id : j \in done}}
        IN IF remaining = {} THEN <<>>
           ELSE IF ready = {} THEN <<remaining>> ELSE <<ready>> \o from[done \cup ready]
  IN from[{}]

\* Its first check, of the number of stages, cannot fail: computeLayers emits all.
assertAcyclic(stages, reads) ==
  \A layer \in ToSet(computeLayers(stages, reads)) : \A i, j \in layer :
    i # j => /\ stages[i].owns \cap stages[j].owns = {}
             /\ reads[stages[i].id] \cap stages[j].owns \subseteq stages[i].owns

----------------------------------------------------------------------------
(* The latency of answers (answerLatency.ts): an answer is [ms, answered]    *)

\* Refusals are not measured, nor is a clock that went backwards.
recordAnswerLatency(samples, answer) ==
  IF ~answer.answered \/ answer.ms < 0 THEN samples
  ELSE LET all == Append(samples, answer.ms)
       IN SubSeq(all, IF Len(all) > LATENCY_WINDOW THEN Len(all) - LATENCY_WINDOW + 1 ELSE 1, Len(all))

\* Nearest rank, of a share in percent.
percentile(sorted, share) == sorted[Max({1, (share * Len(sorted) + 99) \div 100})]

answerLatency(samples) ==
  LET sorted == SortSeq(samples, LAMBDA a, b : a < b)
  IN IF samples = <<>> THEN [p50Ms |-> Absent, p95Ms |-> Absent, sampleCount |-> 0]
     ELSE [p50Ms |-> percentile(sorted, 50), p95Ms |-> percentile(sorted, 95), sampleCount |-> Len(sorted)]

----------------------------------------------------------------------------
(* Issues (issues.ts): a metric is [fileCount, isolated, maxBlast, cycles,  *)
(* perFile], a cycle a sequence of files, a file's entry [file, blast,      *)
(* degree]; an issue's id is the kind and the files it is about             *)

Issue(kind, files, severity, category) ==
  [id |-> <<kind, files>>, severity |-> severity, category |-> category]

cycleIssues(metrics) ==
  LET cycles == SelectSeq(metrics.cycles, LAMBDA c : c # <<>>)
  IN [i \in DOMAIN cycles |-> Issue(3, cycles[i], IF Len(cycles[i]) >= LONG_CYCLE THEN 1 ELSE 2, "architecture")]

\* A quarter of a repository large enough for a share to mean something.
hubIssues(metrics) ==
  LET hubs == IF metrics.fileCount < MIN_FILES_FOR_SHARE THEN <<>>
              ELSE SelectSeq(metrics.perFile, LAMBDA f : 4 * f.blast >= metrics.fileCount)
  IN [i \in DOMAIN hubs |->
        Issue(1, <<hubs[i].file>>, IF 2 * hubs[i].blast >= metrics.fileCount THEN 1 ELSE 2, "architecture")]

couplingIssues(metrics) ==
  LET coupled == SelectSeq(metrics.perFile, LAMBDA f : f.degree >= HIGH_DEGREE)
  IN [i \in DOMAIN coupled |-> Issue(2, <<coupled[i].file>>, 3, "architecture")]

isolationIssue(metrics) ==
  IF metrics.isolated > 0 /\ metrics.fileCount > 0 /\ 2 * metrics.isolated >= metrics.fileCount
  THEN <<Issue(4, <<>>, 3, "dependency")>> ELSE <<>>

\* Names of ids, in their order: the kinds are numbered as they sort.
IdBefore(a, b) ==
  \/ a[1] < b[1]
  \/ a[1] = b[1] /\ LET n == Len(LongestCommonPrefix({a[2], b[2]}))
                    IN IF n = Len(a[2]) \/ n = Len(b[2]) THEN Len(a[2]) < Len(b[2]) ELSE a[2][n + 1] < b[2][n + 1]

\* The gravest first (severity 0 is critical, 3 low), then by id.
deriveIssues(metrics) ==
  SortSeq(cycleIssues(metrics) \o hubIssues(metrics) \o couplingIssues(metrics) \o isolationIssue(metrics),
          LAMBDA x, y : x.severity < y.severity \/ (x.severity = y.severity /\ IdBefore(x.id, y.id)))

countIssues(issues) ==
  [securityIssues |-> Len(SelectSeq(issues, LAMBDA x : x.category = "security")),
   architectureViolations |-> Len(SelectSeq(issues, LAMBDA x : x.category = "architecture"))]

----------------------------------------------------------------------------
(* The score (summary.ts)                                                   *)

\* Three penalties, of up to 40, 35 and 15, on the share of the files; rounded
\* half up.  An empty graph has no score.
scoreHealth(metrics) ==
  LET n == metrics.fileCount
      Clamped(x) == IF x > n THEN n ELSE x
      points == 100 * n - 40 * Clamped(10 * Len(metrics.cycles))
                  - 35 * Clamped(metrics.maxBlast) - 15 * Clamped(metrics.isolated)
  IN IF n = 0 THEN Absent ELSE (2 * points + n) \div (2 * n)

gradeFor(score) ==
  IF score >= 90 THEN "A" ELSE IF score >= 80 THEN "B" ELSE IF score >= 70 THEN "C"
  ELSE IF score >= 60 THEN "D" ELSE "F"

\* What the assembled result counts: nodes are [language], symbols their kinds.
deriveSummary(nodes, edges, symbols, metrics) ==
  LET score == scoreHealth(metrics)
  IN [files |-> Len(nodes), connections |-> edges,
      functions |-> Len(SelectSeq(symbols, LAMBDA k : k \in {"function", "method"})),
      languages |-> {n.language : n \in ToSet(nodes)} \ {"none"},
      healthScore |-> score, healthGrade |-> IF score = Absent THEN "none" ELSE gradeFor(score),
      circularDependencies |-> Len(metrics.cycles), issues |-> countIssues(deriveIssues(metrics))]

----------------------------------------------------------------------------
(* The scope of a run (pipelineJobProcessor.ts)                             *)

\* An AI stage without a client whose output the result does not have.
skippedAiStages(result) ==
  (IF ~result.chat /\ result.synthesis = Absent THEN {"synthesize"} ELSE {})
    \cup (IF ~result.embedding /\ result.rag = Absent THEN {"rag"} ELSE {})

classifyRun(skipped, reason) ==
  LET degradations == skipped \cup (IF reason = "budget-exhausted" THEN {reason} ELSE {})
  IN [runMode |-> IF degradations = {} THEN "full" ELSE "deterministic-only", degradations |-> degradations]

----------------------------------------------------------------------------
(* What the page shows (siteModel.ts)                                       *)

PIPELINE_ROWS ==
  <<[id |-> "clone", stages |-> {"ingest"}], [id |-> "parse", stages |-> {"map-structure", "inventory"}],
    [id |-> "resolve", stages |-> {"connect"}], [id |-> "index", stages |-> {"analyze"}],
    [id |-> "embed", stages |-> {"rag"}], [id |-> "ground", stages |-> {"synthesize"}]>>

AiStages == {"rag", "synthesize"}

\* A row without a record: an AI stage was never registered, another is still to come.
rowStatus(row, records) ==
  LET stages == row.stages \cap DOMAIN records
      All(status) == \A s \in stages : records[s].status = status
  IN IF stages = {} THEN IF row.stages \cap AiStages # {} THEN "skipped" ELSE "pending"
     ELSE IF \E s \in stages : records[s].status = "failed" THEN "failed"
     ELSE IF All("skipped") THEN "skipped" ELSE IF All("completed") THEN "done" ELSE "running"

rowDuration(row, records) ==
  LET timed == {s \in row.stages \cap DOMAIN records : records[s].ms # Absent}
  IN IF timed = {} THEN Absent ELSE MapThenSumSet(LAMBDA s : records[s].ms, timed)

\* The counts a row claims, if it claims anything.
rowDetail(id, result, status) ==
  LET Claim(name, value) == IF value = Absent THEN {} ELSE {<<name, value>>}
      Positive(name, value) == IF value > 0 THEN {<<name, value>>} ELSE {}
      files == IF result.structure # Absent THEN result.structure
               ELSE IF result.graph # <<>> THEN result.graph[1].nodes ELSE Absent
      Unconfigured == IF status = "skipped" THEN {<<"no provider configured", 0>>} ELSE {}
  IN CASE id = "clone" -> Claim("commit", result.commit)
       [] id = "parse" -> IF files = Absent THEN {} ELSE Claim("files", files) \cup Claim("symbols", result.inventory)
       [] id = "resolve" -> UNION {Claim("edges", g.edges) \cup Positive("unresolved", g.unresolved) : g \in ToSet(result.graph)}
       [] id = "index" -> IF result.perFile <= 0 THEN {}
                          ELSE Claim("files", result.perFile) \cup Positive("communities", result.communities)
       [] id = "embed" -> IF result.rag = Absent THEN Unconfigured ELSE Claim("vectors", result.rag)
       [] id = "ground" -> IF result.synthesis = Absent THEN Unconfigured
                           ELSE {<<"sealed", 0>>} \cup Positive("dropped", result.dropped)

buildRow(row, result) ==
  LET status == rowStatus(row, result.records)
  IN [id |-> row.id, status |-> status, durationMs |-> rowDuration(row, result.records),
      detail |-> rowDetail(row.id, result, status)]

\* A number is measured, or absent for a reason; an unpriced cost is not a free one.
buildNumbers(result, p50) ==
  LET Stat(value, reason) == [value |-> value, absentReason |-> IF value = Absent THEN reason ELSE "none"]
      graph == result.graph
  IN [filesParsed |-> Stat(IF result.structure # Absent THEN result.structure
                           ELSE IF graph # <<>> THEN graph[1].nodes ELSE Absent, "no run"),
      edgesResolved |-> Stat(IF graph # <<>> THEN graph[1].resolved ELSE Absent, "no run"),
      p50AnswerMs |-> Stat(p50, "no question asked"),
      costPerIndex |-> IF result.cost = <<>> THEN Stat(Absent, "nothing spent") ELSE Stat(result.cost[1].usd, "unpriced")]

buildGrounding(result) ==
  IF result.status \in {"failed", "aborted"} \/ result.graph = <<>> THEN "refused"
  ELSE IF \/ result.scope.runMode = "deterministic-only" \/ result.graph[1].unresolved > 0
          \/ result.scope.degradations # {} \/ result.status = "partial" THEN "partial"
  ELSE "grounded"

buildSiteModel(result, p50) ==
  LET rows == [i \in DOMAIN PIPELINE_ROWS |-> buildRow(PIPELINE_ROWS[i], result)]
      timed == {i \in DOMAIN rows : rows[i].durationMs # Absent}
  IN [rows |-> rows, numbers |-> buildNumbers(result, p50), grounding |-> buildGrounding(result),
      totalMs |-> IF timed = {} THEN Absent ELSE MapThenSumSet(LAMBDA i : rows[i].durationMs, timed)]

----------------------------------------------------------------------------
(* The model (graphModel.ts)                                                *)

\* Edges to what is no node are left out; cycles are sets of files.
buildGraphModel(nodes, edges, cycles) ==
  LET ids == {n.id : n \in ToSet(nodes)}
      kept == SelectSeq(edges, LAMBDA e : e.from \in ids /\ e.to \in ids)
      Together(S) == \E c \in cycles : S \subseteq c
  IN [nodes |-> [i \in DOMAIN nodes |-> nodes[i] @@ [inCycle |-> Together({nodes[i].id})]],
      links |-> [i \in DOMAIN kept |-> kept[i] @@ [inCycle |-> Together({kept[i].from, kept[i].to})]]]

Ids(model) == {n.id : n \in ToSet(model.nodes)}
NodeOf(model, id) == CHOOSE n \in ToSet(model.nodes) : n.id = id

----------------------------------------------------------------------------
(* Lanes and edge classes (architecture.ts)                                 *)

\* One token stands for those of its lane; the order is that of precedence.
LANE_TOKENS ==
  <<[lane |-> "data-configuration", token |-> "db"], [lane |-> "platform-libraries", token |-> "lib"],
    [lane |-> "clients-entry", token |-> "cli"], [lane |-> "edge-transport", token |-> "http"],
    [lane |-> "application", token |-> "api"], [lane |-> "domain-engine", token |-> "core"]>>

assignLane(node, entryPoints) ==
  LET named == {i \in DOMAIN LANE_TOKENS : LANE_TOKENS[i].token \in ToSet(node.dir)}
  IN IF node.role = "config" THEN "data-configuration"
     ELSE IF node.role = "test" \/ node.id \in entryPoints THEN "clients-entry"
     ELSE IF named # {} THEN LANE_TOKENS[Min(named)].lane
     ELSE IF node.role = "source" THEN "domain-engine" ELSE "unclassified"

\* The lane of every node; a lane without modules is not there.
assignLanes(model, entryPoints) ==
  [id \in Ids(model) |-> assignLane(NodeOf(model, id), entryPoints)]

\* The two rules the owner chose come first.
classifyEdge(link, lanes) ==
  LET from == lanes[link.from]
      to == lanes[link.to]
  IN IF from = "application" /\ to = "platform-libraries" THEN [class |-> "violation", rule |-> "ui-to-platform-direct"]
     ELSE IF from = "application" /\ to = "data-configuration" THEN [class |-> "violation", rule |-> "api-skips-domain"]
     ELSE [class |-> IF to \in {"data-configuration", "platform-libraries"} THEN "data" ELSE "control", rule |-> ""]

classifyEdges(model, lanes) ==
  LET edges == [i \in DOMAIN model.links |-> classifyEdge(model.links[i], lanes)]
      Of(class) == Cardinality({i \in DOMAIN edges : edges[i].class = class})
  IN [edges |-> edges,
      counts |-> [class \in {"control", "data", "violation"} |-> Of(class)],
      violationsByRule |-> [rule \in {e.rule : e \in ToSet(edges)} \ {""} |->
                              {i \in DOMAIN edges : edges[i].rule = rule}]]

----------------------------------------------------------------------------
(* What a change or a move reaches (architecture.ts)                        *)

\* Who imports a module, once for each edge: two ways to import it count twice.
buildAdjacency(model) ==
  LET Ends(id, End(_), Other(_)) ==
        LET at == SelectSeq(model.links, LAMBDA l : End(l) = id)
        IN SortSeq([i \in DOMAIN at |-> Other(at[i])], <)
  IN [importers |-> [id \in Ids(model) |-> Ends(id, LAMBDA l : l.to, LAMBDA l : l.from)],
      imports |-> [id \in Ids(model) |-> Ends(id, LAMBDA l : l.from, LAMBDA l : l.to)]]

\* The breadth-first walk: files by the round that first meets them.
RECURSIVE Hops(_, _, _, _)
Hops(adjacency, frontier, seen, byHop) ==
  IF frontier = {} THEN byHop
  ELSE LET fresh == frontier \ seen
       IN Hops(adjacency,
               UNION {ToSet(adjacency.importers[id]) : id \in fresh} \ (seen \cup fresh),
               seen \cup fresh, Append(byHop, fresh))

\* Four tiers, of which the last has all that is farther.
hopTieredDependents(adjacency, id) ==
  LET byHop == Hops(adjacency, ToSet(adjacency.importers[id]), {id}, <<>>)
      Deep(hop) == IF hop > 4 THEN 4 ELSE hop
  IN [tiers |-> [level \in 1..4 |-> UNION {byHop[hop] : hop \in {h \in DOMAIN byHop : Deep(h) = level}}],
      total |-> Cardinality(UNION ToSet(byHop)),
      maxHops |-> Max({0} \cup {hop \in DOMAIN byHop : byHop[hop] # {}})]

moveImpact(adjacency, id) ==
  [directImporters |-> adjacency.importers[id], ownImports |-> adjacency.imports[id],
   filesToEdit |-> Len(adjacency.importers[id]) + 1]

\* Modules in tiers, nearest first; those of the last tier by name.
Nearest(tiers, Counts(_)) ==
  LET hits == UNION {{<<level, id>> : id \in {i \in tiers.tiers[level] : Counts(i)}} : level \in 1..4}
  IN SetToSortSeq(hits, LAMBDA x, y : x[1] < y[1] \/ (x[1] = y[1] /\ x[2] < y[2]))

\* A module of the application lane is on the surface itself.
reachesApiSurface(adjacency, id, lanes) ==
  LET own == IF lanes[id] = "application" THEN << <<0, id>> >> ELSE <<>>
      hits == own \o Nearest(hopTieredDependents(adjacency, id), LAMBDA i : lanes[i] = "application")
  IN [reaches |-> hits # <<>>,
      via |-> [k \in 1..Min({VERDICT_CHIP_CAP, Len(hits)}) |-> hits[k][2]],
      nearestHops |-> IF hits = <<>> THEN -1 ELSE hits[1][1]]

testFilesReaching(adjacency, id, model) ==
  LET hits == Nearest(hopTieredDependents(adjacency, id), LAMBDA i : NodeOf(model, i).role = "test")
  IN [count |-> Len(hits), nearestHops |-> IF hits = <<>> THEN -1 ELSE hits[1][1],
      fileIds |-> [k \in 1..Min({VERDICT_CHIP_CAP, Len(hits)}) |-> hits[k][2]]]

safeToChangeAlone(tiers) ==
  [safe |-> tiers.total <= SAFE_TO_CHANGE_MAX_AFFECTED, affected |-> tiers.total]

\* An entry point, or a module imported from another directory.
isEntryProbable(id, adjacency, entryPoints, model) ==
  \/ id \in entryPoints
  \/ \E importer \in ToSet(adjacency.importers[id]) : NodeOf(model, importer).dir # NodeOf(model, id).dir

----------------------------------------------------------------------------
(* The radial map (radial.ts)                                               *)

FanIn(model, id) == Cardinality({i \in DOMAIN model.links : model.links[i].to = id})

\* Rings by rank, in bands of one size; the first few are named.
radialLayout(model) ==
  LET ranked == SetToSortSeq(Ids(model),
                  LAMBDA a, b : FanIn(model, a) > FanIn(model, b) \/ (FanIn(model, a) = FanIn(model, b) /\ a < b))
      drawn == SubSeq(ranked, 1, Min({RADIAL_MAX_NODES, Len(ranked)}))
      perRing == Max({1, (Len(drawn) + RADIAL_RINGS - 1) \div RADIAL_RINGS})
  IN [nodes |-> [k \in DOMAIN drawn |->
                   [id |-> drawn[k], ring |-> Min({RADIAL_RINGS - 1, (k - 1) \div perRing}),
                    labelled |-> k <= RADIAL_LABELS]],
      edges |-> SelectSeq(model.links, LAMBDA l : {l.from, l.to} \subseteq ToSet(drawn))]

\* The module, and what is one edge from it.
radialFocus(model, id) ==
  LET lit == {i \in DOMAIN model.links : id \in {model.links[i].from, model.links[i].to}}
  IN [nodes |-> {id} \cup UNION {{model.links[i].from, model.links[i].to} : i \in lit}, edges |-> lit]

----------------------------------------------------------------------------
(* What must hold of them                                                   *)

\* Every stage is in one layer, behind all it depends on and no later than it
\* must be; and a declaration that waits for itself is told from one that does
\* not (schedule.ts:86-99, :141-149).
PlanIsSafe(stages, reads) ==
  LET layers == computeLayers(stages, reads)
      LayerOf(i) == CHOOSE k \in DOMAIN layers : i \in layers[k]
      Waits == {w \in (DOMAIN stages) \X (DOMAIN stages) :
                  /\ w[1] # w[2]
                  /\ reads[stages[w[1]].id] \cap stages[w[2]].owns # {} \/ stages[w[2]].id = "ingest"}
      Cyclic == \E S \in SUBSET DOMAIN stages : S # {} /\ \A i \in S : \E j \in S : <<i, j>> \in Waits
      \* The longest chain of stages that ends at one, itself included.
      Longest[i \in DOMAIN stages] ==
        Max({1} \cup {1 + Longest[w[2]] : w \in {w \in Waits : w[1] = i}})
  IN /\ UNION ToSet(layers) = DOMAIN stages
     /\ \A j, k \in DOMAIN layers : j # k => layers[j] \cap layers[k] = {}
     /\ assertAcyclic(stages, reads) <=> ~Cyclic
     /\ Cyclic \/ \A i \in DOMAIN stages : LayerOf(i) = Longest[i]

\* What is shown as the latency of an answer is that of one that was given, of
\* the latest, half of which took no longer; to refuse more does not change it
\* (answerLatency.ts:24-26, :76-80).
LatencyIsMeasured(answers) ==
  LET Of(seq) == answerLatency(FoldLeft(recordAnswerLatency, <<>>, seq))
      Measured(a) == a.answered /\ a.ms >= 0
      good == SelectSeq(answers, Measured)
      kept == [i \in {i \in DOMAIN good : i > Len(good) - LATENCY_WINDOW} |-> good[i].ms]
      Count(P(_)) == Cardinality({i \in DOMAIN kept : P(kept[i])})
      NearestRank(ms, share) ==
        IF kept = <<>> THEN ms = Absent
        ELSE /\ 100 * Count(LAMBDA x : x <= ms) >= share * Count(LAMBDA x : TRUE)
             /\ 100 * Count(LAMBDA x : x < ms) < share * Count(LAMBDA x : TRUE)
             /\ ms \in {kept[i] : i \in DOMAIN kept}
  IN /\ NearestRank(Of(answers).p50Ms, 50) /\ NearestRank(Of(answers).p95Ms, 95)
     /\ Of(answers) = Of(good)

\* The gravest first, each about something else, whatever order the metrics
\* come in; every large cycle and hub is told, and the summary counts them.
IssuesAreStable(metrics) ==
  LET issues == deriveIssues(metrics)
  IN /\ Cardinality({x.id : x \in ToSet(issues)}) = Len(issues)
     /\ \A i \in DOMAIN issues : i > 1 => issues[i - 1].severity <= issues[i].severity
     /\ deriveIssues([metrics EXCEPT !.perFile = Reverse(@), !.cycles = Reverse(@)]) = issues
     /\ \A f \in ToSet(metrics.perFile) :
          (\E x \in ToSet(issues) : x.id = <<1, <<f.file>>>>) <=>
             metrics.fileCount >= MIN_FILES_FOR_SHARE /\ f.blast * 100 >= 25 * metrics.fileCount
     /\ countIssues(issues).securityIssues = 0

\* Never below 10 nor above 100; one more cycle, dependent or lonely file never
\* raises it, and a better score never has a worse grade.
HealthIsFair(metrics) ==
  LET score == scoreHealth(metrics)
      worse == {[metrics EXCEPT !.cycles = Append(@, <<1>>)], [metrics EXCEPT !.maxBlast = @ + 1], [metrics EXCEPT !.isolated = @ + 1]}
      Rank(grade) == CHOOSE i \in 1..5 : <<"F", "D", "C", "B", "A">>[i] = grade
  IN /\ metrics.fileCount = 0 <=> score = Absent
     /\ metrics.fileCount > 0 =>
          /\ score \in 10..100
          /\ \A w \in worse : scoreHealth(w) <= score /\ Rank(gradeFor(scoreHealth(w))) <= Rank(gradeFor(score))

\* "Grounded" is said of a run all of whose stages were done and that resolved
\* every import.  A run that ended and was not aborted has no row at work, a row
\* that is done has its numbers, and the time shown is that of every stage but
\* Orient, which has no row.
ReportsAreHonest(result, p50) ==
  LET model == buildSiteModel(result, p50)
      timed == {s \in DOMAIN result.records \ {"orient"} : result.records[s].ms # Absent}
  IN /\ model.grounding = "grounded" =>
          /\ result.graph[1].unresolved = 0 /\ result.status = "completed"
          /\ \A i \in DOMAIN model.rows : model.rows[i].status = "done"
     /\ result.status # "aborted" => (model.grounding = "refused" <=> \E i \in 1..4 : model.rows[i].status # "done")
     /\ result.status # "aborted" => \A i \in DOMAIN model.rows : model.rows[i].status \notin {"running", "pending"}
     /\ \A i \in DOMAIN model.rows : model.rows[i].status = "done" =>
          model.rows[i].detail # {} \/ (model.rows[i].id = "index" /\ result.perFile = 0)
     /\ model.totalMs = (IF timed = {} THEN Absent ELSE MapThenSumSet(LAMBDA s : result.records[s].ms, timed))

\* A dependent is in the tier of its shortest chain of imports, or in the last.
TiersAreShortest(model, adjacency, id) ==
  LET tiers == hopTieredDependents(adjacency, id)
      AtMostHops[hops \in Nat] ==
        IF hops = 0 THEN {id}
        ELSE LET closer == AtMostHops[hops - 1]
             IN closer \cup {l.from : l \in {m \in ToSet(model.links) : m.to \in closer}}
  IN /\ \A level \in 1..3 : tiers.tiers[level] = AtMostHops[level] \ AtMostHops[level - 1]
     /\ UNION {tiers.tiers[level] : level \in 1..4} = AtMostHops[Cardinality(Ids(model))] \ {id}
     /\ tiers.total = Cardinality(UNION {tiers.tiers[level] : level \in 1..4})

\* Every module has one lane.  Moved up a directory whose name says nothing, it
\* keeps it, and what is more specific wins in whatever order it is nested.
LanesFollowPrecedence(model, entryPoints) ==
  \A n \in ToSet(model.nodes) :
    LET lane == assignLane(n, entryPoints)
    IN /\ assignLane([n EXCEPT !.dir = <<"x">> \o @], entryPoints) = lane
       /\ assignLane([n EXCEPT !.dir = Reverse(@)], entryPoints) = lane
       /\ lane = "unclassified" => n.role # "source"

\* A violation is of an edge from the application lane, and every edge is counted once.
EdgesAreClassified(model, lanes) ==
  LET found == classifyEdges(model, lanes)
  IN /\ found.counts["control"] + found.counts["data"] + found.counts["violation"] = Len(model.links)
     /\ UNION {found.violationsByRule[r] : r \in DOMAIN found.violationsByRule}
          = {i \in DOMAIN model.links : /\ lanes[model.links[i].from] = "application"
                                        /\ lanes[model.links[i].to] \in {"data-configuration", "platform-libraries"}}

\* What a move makes one edit is reached by a change, but for the module itself,
\* and a verdict on a reach agrees with the tiers.
VerdictsAgree(model, adjacency, lanes, id) ==
  LET tiers == hopTieredDependents(adjacency, id)
      api == reachesApiSurface(adjacency, id, lanes)
      tests == testFilesReaching(adjacency, id, model)
  IN /\ ToSet(moveImpact(adjacency, id).directImporters) \ {id} = tiers.tiers[1]
     /\ api.reaches <=> (\E i \in {id} \cup UNION {tiers.tiers[k] : k \in 1..4} : lanes[i] = "application")
     /\ tests.nearestHops = -1 <=> tests.count = 0
     /\ tests.nearestHops \in 1..4 => \E i \in tiers.tiers[tests.nearestHops] : NodeOf(model, i).role = "test"

\* Nearer the centre is more depended on; what is drawn is a graph; what is lit
\* is the module and its neighbours.
RingsRank(model) ==
  LET map == radialLayout(model)
      ids == {n.id : n \in ToSet(map.nodes)}
  IN /\ \A n, m \in ToSet(map.nodes) : n.ring < m.ring => FanIn(model, n.id) >= FanIn(model, m.id)
     /\ \A n \in ToSet(map.nodes) : n.ring \in 0..(RADIAL_RINGS - 1)
     /\ \A k \in DOMAIN map.nodes : map.nodes[k].labelled => \A m \in ToSet(map.nodes) : ~m.labelled => m.ring >= map.nodes[k].ring
     /\ Cardinality(ids) = Min({RADIAL_MAX_NODES, Cardinality(Ids(model))})
     /\ \A e \in ToSet(map.edges) : {e.from, e.to} \subseteq ids
     /\ \A id \in ids : \A other \in radialFocus(model, id).nodes \ {id} :
          id \in radialFocus(model, other).nodes

\* An edge of a cycle is marked, and so are its ends.
CyclesAreMarked(model) ==
  \A l \in ToSet(model.links) : l.inCycle => NodeOf(model, l.from).inCycle /\ NodeOf(model, l.to).inCycle

ViewsAreSound(nodes, edges, cycles, entryPoints) ==
  LET model == buildGraphModel(nodes, edges, cycles)
      adjacency == buildAdjacency(model)
      lanes == assignLanes(model, entryPoints)
  IN /\ LanesFollowPrecedence(model, entryPoints) /\ EdgesAreClassified(model, lanes)
     /\ RingsRank(model) /\ CyclesAreMarked(model)
     /\ \A id \in Ids(model) :
          /\ TiersAreShortest(model, adjacency, id) /\ VerdictsAgree(model, adjacency, lanes, id)
          /\ isEntryProbable(id, adjacency, entryPoints, model) =>
               id \in entryPoints \/ \E l \in ToSet(model.links) : l.to = id /\ l.from # id
=============================================================================
