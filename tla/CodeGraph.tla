------------------------------ MODULE CodeGraph ------------------------------
(***************************************************************************)
(* From a repository's files to the graph of its code.  What the           *)
(* deterministic stages make of the files (packages/analyzers/src/stages): *)
(* those Map-structure keeps and how it names their layout, what kind of   *)
(* project Orient sees, the symbols and entry points of Inventory, and the *)
(* edges Connect resolves.  Then the dependency graph and the questions    *)
(* asked of it: building it, traversal, cycles, blast radius, centrality,  *)
(* coupling and what the UI is shown (packages/graph/src), the Analyze     *)
(* stage's metrics, the agent's graph tools and the arena's oracle, which  *)
(* read the same graph.                                                    *)
(*                                                                         *)
(* In the stages a path is a sequence of names; a source file of Connect   *)
(* is [dir, name, ext], and its index in the list of files stands for it.  *)
(* In the graph, ids and paths are numbers, since the code sorts by them:  *)
(* a node is [id, path], and the ids of two kinds of references never      *)
(* coincide.  A graph is [nodes, edges], both sequences, the edges with    *)
(* known ends.                                                             *)
(***************************************************************************)
EXTENDS Integers, Sequences, FiniteSets, SequencesExt, FiniteSetsExt, TLC

----------------------------------------------------------------------------
(* Map-structure                                                            *)

HARD_IGNORE_DIRS == {"node_modules", "dist"}

\* A pattern is a sequence of names, "*" for any name, "**" for any names.
RECURSIVE Globs(_, _)
Globs(pattern, path) ==
  IF pattern = <<>> THEN path = <<>>
  ELSE \/ /\ Head(pattern) = "**"
          /\ \E k \in 0..Len(path) : Globs(Tail(pattern), SubSeq(path, k + 1, Len(path)))
       \/ /\ path # <<>> /\ Head(pattern) # "**"
          /\ Head(pattern) \in {"*", Head(path)}
          /\ Globs(Tail(pattern), Tail(path))

\* The expression of a rule [pattern, anchored, dirOnly, negate] matches a path
\* and whatever lies below a path it names.
RuleMatches(rule, path) ==
  \E from \in (IF rule.anchored THEN {1} ELSE 1..Len(path)) : \E to \in from..Len(path) :
    Globs(rule.pattern, SubSeq(path, from, to))

\* Mutant: the first rule that matches decides.
isIgnoredFirst(path, isDir, rules) ==
  LET Applies(i) == (rules[i].dirOnly => isDir) /\ RuleMatches(rules[i], path)
      matching == {i \in DOMAIN rules : Applies(i)}
  IN matching # {} /\ ~rules[Min(matching)].negate

\* The last rule that matches decides.
isIgnored(path, isDir, rules) ==
  LET Applies(i) == (rules[i].dirOnly => isDir) /\ RuleMatches(rules[i], path)
      matching == {i \in DOMAIN rules : Applies(i)}
  IN matching # {} /\ ~rules[Max(matching)].negate

\* The files found below the root: a directory that is ignored is not entered.
walk(tree, rules) ==
  LET RECURSIVE Descend(_)
      Descend(dir) ==
        LET Below(f) == Len(f) > Len(dir) /\ SubSeq(f, 1, Len(dir)) = dir
            dirs == {SubSeq(f, 1, Len(dir) + 1) : f \in {g \in tree : Below(g) /\ Len(g) > Len(dir) + 1}}
            here == {f \in tree : Below(f) /\ Len(f) = Len(dir) + 1}
        IN {f \in here : ~isIgnored(f, FALSE, rules)}
           \cup UNION {Descend(d) : d \in {e \in dirs : Last(e) \notin HARD_IGNORE_DIRS /\ ~isIgnored(e, TRUE, rules)}}
  IN Descend(<<>>)

detectLayout(files) ==
  IF \E f \in files : Len(f) > 1 /\ f[1] \in {"packages", "apps"} THEN "monorepo"
  ELSE IF \E f \in files : f[1] = "src" THEN "src-rooted"
  ELSE IF \E f \in files : f[1] = "app" THEN "app-rooted" ELSE "flat"

\* The first role that what a file looks like suggests.
classifyRole(looks) ==
  LET ranked == <<"test", "docs", "build", "config", "asset", "source">>
      fitting == {i \in DOMAIN ranked : ranked[i] \in looks}
  IN IF fitting = {} THEN "other" ELSE ranked[Min(fitting)]

----------------------------------------------------------------------------
(* Orient and Inventory: what kind of project, and its surface              *)

deriveProjectType(manifestCount, signals) ==
  IF manifestCount = 0 THEN "unknown"
  ELSE LET ranked == <<"monorepo", "cli", "library">>
           given == {i \in DOMAIN ranked : ranked[i] \in signals}
       IN IF given = {} THEN "application" ELSE ranked[Min(given)]

\* A package.json [state, workspaces, bin, private, entry]: its state is
\* "absent", "broken" or "read"; bin is "none", "empty" (no path in it) or
\* "paths"; entry tells whether it has main, module or exports.  Another
\* manifest gives the signals of its text.
detectOrientation(pkg, others, workspaceFile) ==
  LET ofPackage ==
        IF pkg.state # "read" THEN {}
        ELSE {s \in {"monorepo", "cli", "library"} :
                CASE s = "monorepo" -> pkg.workspaces
                  [] s = "cli" -> pkg.bin # "none"
                  [] s = "library" -> ~pkg.private /\ pkg.entry}
      signals == ofPackage \cup UNION Range(others) \cup (IF workspaceFile THEN {"monorepo"} ELSE {})
  IN deriveProjectType(Len(others) + (IF pkg.state = "absent" THEN 0 ELSE 1), signals)

\* Entries [file, kind, evidence], each once: what the package.json names, then
\* files named after a framework's convention or a common one.
detectEntryPoints(pkg, named, files) ==
  LET declared == IF pkg.state # "read" THEN {}
        ELSE {[file |-> f, kind |-> IF e = "bin" THEN "cli-bin" ELSE "main", evidence |-> e] :
                <<f, e>> \in {n \in named : n[2] = "bin" => pkg.bin = "paths"}}
      Convention(f) == IF f.framework # "none" THEN [file |-> f.path, kind |-> f.framework, evidence |-> "framework"]
                       ELSE [file |-> f.path, kind |-> f.convention, evidence |-> "filename-convention"]
  IN declared \cup {Convention(f) : f \in {g \in files : g.role = "source" /\ {g.framework, g.convention} # {"none"}}}

\* "cli" on hard evidence only.
deriveProjectTypeSignal(entryPoints) ==
  IF \E e \in entryPoints : e.evidence = "bin" THEN "cli" ELSE "none"

\* The declarations, exported if they are or if their name is, and a symbol for
\* each name that is exported without being declared.
collectSymbols(declared, exports) ==
  LET Flipped(i) == [declared[i] EXCEPT !.exported = @ \/ declared[i].name \in Range(exports)]
      fresh == SelectSeq(exports, LAMBDA n : \A i \in DOMAIN declared : declared[i].name # n)
      once == FoldLeft(LAMBDA kept, n : IF n \in Range(kept) THEN kept ELSE Append(kept, n), <<>>, fresh)
  IN [i \in DOMAIN declared |-> Flipped(i)] \o [i \in DOMAIN once |-> [name |-> once[i], exported |-> TRUE]]

----------------------------------------------------------------------------
(* Connect                                                                  *)

JS_SUFFIXES == <<"", ".ts", ".tsx", ".js">>
JS_INDEX_SUFFIXES == <<".ts", ".tsx", ".js">>
Unresolved == 0

\* Above the root there is nothing to leave.
joinPosix(dir, rel) ==
  FoldLeft(LAMBDA at, part : CASE part = "." -> at
                               [] part = ".." -> IF at = <<>> THEN at ELSE Front(at)
                               [] OTHER -> Append(at, part), dir, rel)

\* The file base + suffix, where base is a path and written the extension its
\* last part already has; the index file of a directory.
FileAt(files, base, written, suffix) ==
  {i \in DOMAIN files : /\ base # <<>> /\ (suffix = "" \/ written = "")
                        /\ files[i].dir = Front(base) /\ files[i].name = Last(base)
                        /\ files[i].ext = (IF suffix = "" THEN written ELSE suffix)}
IndexAt(files, base, suffix) ==
  {i \in DOMAIN files : base # <<>> /\ files[i].dir = base /\ files[i].name = "index" /\ files[i].ext = suffix}

FirstOf(candidates) ==
  LET there == {k \in DOMAIN candidates : candidates[k] # {}}
  IN IF there = {} THEN Unresolved ELSE Min(candidates[Min(there)])

resolveJsImport(files, from, spec) ==
  LET base == joinPosix(files[from].dir, spec.parts)
  IN FirstOf([k \in DOMAIN JS_SUFFIXES |-> FileAt(files, base, spec.ext, JS_SUFFIXES[k])]
             \o [k \in DOMAIN JS_INDEX_SUFFIXES |-> IndexAt(files, base, JS_INDEX_SUFFIXES[k])])

\* A module by as many dots as it is levels up, less one, and its name.
resolvePythonImport(files, from, spec) ==
  LET Up(dir) == SubSeq(dir, 1, Max({0, Len(dir) - (spec.dots - 1)}))
      base == Up(files[from].dir) \o spec.parts
      Package == {i \in DOMAIN files : base # <<>> /\ files[i].dir = base /\ files[i].name = "__init__" /\ files[i].ext = ".py"}
  IN FirstOf(<<FileAt(files, base, "", ".py"), Package>>)

resolveImport(files, from, spec) ==
  IF files[from].ext = ".py" THEN resolvePythonImport(files, from, spec) ELSE resolveJsImport(files, from, spec)

\* What a local name stands for: the target of the first import that binds it.
targetByBinding(files, from, binding) ==
  LET imports == files[from].imports
      of == {i \in DOMAIN imports : imports[i].relative /\ resolveImport(files, from, imports[i]) # Unresolved
                                    /\ binding \in imports[i].specifiers}
  IN IF of = {} THEN Unresolved ELSE resolveImport(files, from, imports[Min(of)])

\* The references of a file, [binding, kind, symbol, line], added up by where
\* they lead and what they name, each at its first line.
addCpgEdges(files, from) ==
  LET refs == files[from].refs
      known == {i \in DOMAIN refs : targetByBinding(files, from, refs[i].binding) # Unresolved}
      Key(i) == <<targetByBinding(files, from, refs[i].binding), refs[i].kind, refs[i].symbol>>
  IN {[from |-> from, to |-> key[1], kind |-> key[2], symbol |-> key[3],
       count |-> Cardinality({i \in known : Key(i) = key}),
       line |-> Min({refs[i].line : i \in {k \in known : Key(k) = key}})] : key \in {Key(i) : i \in known}}

\* A file that cannot be read is a node without edges.
connect(files) ==
  LET read == {f \in DOMAIN files : files[f].role = "source" /\ files[f].readable}
      all == UNION {{<<f, i>> : i \in DOMAIN files[f].imports} : f \in read}
      Spec(p) == files[p[1]].imports[p[2]]
      inside == {p \in all : Spec(p).relative}
      found == {p \in inside : resolveImport(files, p[1], Spec(p)) # Unresolved}
  IN [edges |-> {[from |-> p[1], to |-> resolveImport(files, p[1], Spec(p)), kind |-> Spec(p).kind,
                  specifier |-> <<Spec(p).parts, Spec(p).ext>>] : p \in found},
      cpgEdges |-> UNION {addCpgEdges(files, f) : f \in read},
      external |-> {Spec(p).parts : p \in all \ inside}, unresolved |-> Cardinality(inside \ found)]

----------------------------------------------------------------------------
(* Reference definitions for the stages                                     *)

\* Git's rule: the last pattern that names a path decides on it, and nothing
\* below an excluded directory comes back.
GitKeeps(f, rules) ==
  LET Names(rule, path, isDir) ==
        /\ rule.dirOnly => isDir
        /\ IF rule.anchored THEN Globs(rule.pattern, path) ELSE Globs(rule.pattern, <<Last(path)>>)
      Excluded(path, isDir) ==
        LET naming == {i \in DOMAIN rules : Names(rules[i], path, isDir)}
        IN naming # {} /\ ~rules[Max(naming)].negate
  IN /\ ~Excluded(f, FALSE)
     /\ \A k \in 1..(Len(f) - 1) : ~Excluded(SubSeq(f, 1, k), TRUE) /\ f[k] \notin HARD_IGNORE_DIRS

\* A specifier without extension that leads from one file to another.
Relative(from, to) ==
  LET shared == Max({k \in 0..Min({Len(from), Len(to.dir)}) : SubSeq(from, 1, k) = SubSeq(to.dir, 1, k)})
      ups == [i \in 1..(Len(from) - shared) |-> ".."]
  IN [parts |-> (IF ups = <<>> THEN <<".">> ELSE ups) \o SubSeq(to.dir, shared + 1, Len(to.dir)) \o <<to.name>>,
      ext |-> ""]

----------------------------------------------------------------------------
(* The graph                                                                *)

Absent == 0
ImportKinds == {"import", "require", "dynamic-import"}

SortedBy(S, Before(_, _)) == SetToSortSeq(S, Before)
Total(f(_), S) == FoldSet(LAMBDA x, sum : f(x) + sum, 0, S)
\* The elements of s with the first of each key only.
FirstOfEach(s, Key(_)) ==
  FoldLeft(LAMBDA kept, x : IF \E k \in Range(kept) : Key(k) = Key(x) THEN kept ELSE Append(kept, x),
           <<>>, s)

----------------------------------------------------------------------------
(* Building                                                                 *)

\* An id, or a path, of which the last node to have it counts; Absent if none.
resolveNodeId(nodes, primary, fallback) ==
  LET At(r) == IF r = Absent THEN {}
               ELSE IF \E i \in DOMAIN nodes : nodes[i].id = r THEN {r}
               ELSE {nodes[i].id : i \in {k \in DOMAIN nodes :
                      /\ nodes[k].path = r
                      /\ \A j \in (k + 1)..Len(nodes) : nodes[j].path # r}}
      found == IF At(primary) # {} THEN At(primary) ELSE At(fallback)
  IN IF found = {} THEN Absent ELSE CHOOSE id \in found : TRUE

\* Mutant: a dependency that says the same of the same files is a new edge.
buildEdgesTwice(nodes, dependencies) ==
  LET Edge(d) == [from |-> resolveNodeId(nodes, d.source, d.from), to |-> resolveNodeId(nodes, d.target, d.to),
                  type |-> d.type, confidence |-> d.confidence, weight |-> d.weight,
                  line |-> d.line, evidence |-> d.evidence]
      all == [i \in DOMAIN dependencies |-> Edge(dependencies[i])]
  IN SelectSeq(all, LAMBDA e : e.from # Absent /\ e.to # Absent)

\* An edge for each dependency with known ends, the first of those that agree
\* in everything but confidence and weight; the others are warned about.
buildEdges(nodes, dependencies) ==
  LET Edge(d) == [from |-> resolveNodeId(nodes, d.source, d.from), to |-> resolveNodeId(nodes, d.target, d.to),
                  type |-> d.type, confidence |-> d.confidence, weight |-> d.weight,
                  line |-> d.line, evidence |-> d.evidence]
      all == [i \in DOMAIN dependencies |-> Edge(dependencies[i])]
      known == SelectSeq(all, LAMBDA e : e.from # Absent /\ e.to # Absent)
  IN FirstOfEach(known, LAMBDA e : <<e.from, e.to, e.type, e.line, e.evidence>>)

buildDependencyGraph(nodes, dependencies) ==
  [nodes |-> nodes, edges |-> buildEdges(nodes, dependencies)]

\* A stored import edge [from, to, kind, specifier] as a dependency.
toDependencyEdge(e) ==
  [source |-> e.from, target |-> e.to, from |-> e.from, to |-> e.to,
   type |-> CASE e.kind = "dynamic" -> "dynamic-import" [] e.kind = "require" -> "require" [] OTHER -> "import",
   confidence |-> 100, weight |-> 1, line |-> Absent, evidence |-> e.specifier]

\* A call or inheritance edge [from, to, kind, symbol, count, line].
toCpgDependencyEdge(e) ==
  [source |-> e.from, target |-> e.to, from |-> e.from, to |-> e.to, type |-> e.kind,
   confidence |-> 100, weight |-> e.count, line |-> e.line, evidence |-> e.symbol]

EachOf(Op(_), s) == [i \in DOMAIN s |-> Op(s[i])]
buildImportGraph(nodes, edges) == buildDependencyGraph(nodes, EachOf(toDependencyEdge, edges))
buildCodePropertyGraph(nodes, edges, cpgEdges) ==
  buildDependencyGraph(nodes, EachOf(toDependencyEdge, edges) \o EachOf(toCpgDependencyEdge, cpgEdges))

----------------------------------------------------------------------------
(* Questions                                                                *)

Ids(g) == {g.nodes[i].id : i \in DOMAIN g.nodes}
NodeOf(g, id) == g.nodes[Min({i \in DOMAIN g.nodes : g.nodes[i].id = id})]
outgoing(g, id) == SelectSeq(g.edges, LAMBDA e : e.from = id)
incoming(g, id) == SelectSeq(g.edges, LAMBDA e : e.to = id)

\* An option that is left out lets everything through.
edgeAllowed(e, opts) ==
  /\ e.confidence >= opts.minConfidence
  /\ opts.includeTypes # {} => e.type \in opts.includeTypes

expandable(here, opts) == here.depth < opts.maxDepth

\* Breadth first from a node along allowed edges, to maxDepth; each node with
\* the edge and the depth it was first reached by, nearest first, then by path.
traverse(g, start, forward, opts) ==
  LET Other(e) == IF forward THEN e.to ELSE e.from
      Edges(id) == SelectSeq(IF forward THEN outgoing(g, id) ELSE incoming(g, id),
                             LAMBDA e : edgeAllowed(e, opts) /\ Other(e) # start)
      See(st, here, e) ==
        LET depth == here.depth + 1
        IN IF Other(e) \notin DOMAIN st.seen \/ depth < st.seen[Other(e)].depth
           THEN [seen |-> (Other(e) :> [node |-> Other(e), via |-> e, depth |-> depth]) @@ st.seen,
                 queue |-> Append(st.queue, [node |-> Other(e), depth |-> depth])]
           ELSE st
      RECURSIVE Search(_)
      Search(st) ==
        IF st.queue = <<>> THEN st.seen
        ELSE LET here == Head(st.queue)
                 rest == [st EXCEPT !.queue = Tail(@)]
             IN IF ~expandable(here, opts) THEN Search(rest)
                ELSE Search(FoldLeft(LAMBDA s, e : See(s, here, e), rest, Edges(here.node)))
      seen == Search([seen |-> <<>>, queue |-> <<[node |-> start, depth |-> 0]>>])
  IN IF start \notin Ids(g) THEN <<>>
     ELSE SortedBy(Range(seen),
       LAMBDA a, b : \/ a.depth < b.depth
                     \/ a.depth = b.depth /\ NodeOf(g, a.node).path < NodeOf(g, b.node).path)

AnyDepth(g) == Len(g.nodes)
Everything(g) == [maxDepth |-> AnyDepth(g), minConfidence |-> 0, includeTypes |-> {}]
Dependents(g, id) == {r.node : r \in Range(traverse(g, id, FALSE, Everything(g)))}
Dependencies(g, id) == {r.node : r \in Range(traverse(g, id, TRUE, Everything(g)))}

\* The rotation that is least in dictionary order.
normalizeCycle(ids) ==
  LET n == Len(ids)
      Rotation(k) == [i \in 1..n |-> ids[((i + k - 1) % n) + 1]]
      Less(a, b) == \E i \in 1..n : a[i] < b[i] /\ \A j \in 1..(i - 1) : a[j] = b[j]
  IN CHOOSE r \in {Rotation(k) : k \in 0..(n - 1)} : \A k \in 0..(n - 1) : ~Less(Rotation(k), r)

\* Depth first; an edge back into the path closes a cycle.
RECURSIVE visit(_, _, _)
visit(g, path, st) ==
  LET Follow(s, e) ==
        IF e.to \notin s.visited THEN visit(g, Append(path, e.to), s)
        ELSE IF e.to \in Range(path)
        THEN [s EXCEPT !.cycles = @ \cup {normalizeCycle(
                SubSeq(path, CHOOSE i \in DOMAIN path : path[i] = e.to, Len(path)))}]
        ELSE s
  IN FoldLeft(Follow, [st EXCEPT !.visited = @ \cup {Last(path)}], outgoing(g, Last(path)))

\* Mutant: only what the first node leads to.
findCircularFromFirst(g) ==
  visit(g, <<g.nodes[1].id>>, [visited |-> {}, cycles |-> {}]).cycles

findCircularDependencies(g) ==
  FoldLeft(LAMBDA st, node : IF node.id \in st.visited THEN st ELSE visit(g, <<node.id>>, st),
           [visited |-> {}, cycles |-> {}], g.nodes).cycles

\* By what a node may be risky: limits are 10 dependents, 5 incoming edges and
\* a confidence of 0.7, which is the mean over the edges that count.
getBlastRadius(g, reference, opts, limits) ==
  LET id == resolveNodeId(g.nodes, reference, Absent)
      transitive == traverse(g, id, FALSE, opts)
      into == incoming(g, id)
      values == [i \in DOMAIN transitive |-> transitive[i].via.confidence] \o [i \in DOMAIN into |-> into[i].confidence]
      sum == Total(LAMBDA i : values[i], DOMAIN values)
  IN IF id = Absent
     THEN [directDependents |-> <<>>, transitiveDependents |-> <<>>, maxDepth |-> 0, riskReasons |-> {"not found"}]
     ELSE [directDependents |-> [i \in DOMAIN into |-> into[i].from],
           transitiveDependents |-> [i \in DOMAIN transitive |-> transitive[i].node],
           maxDepth |-> Max({0} \cup {transitive[i].depth : i \in DOMAIN transitive}),
           riskReasons |->
             {r \in {"dependents", "incoming", "confidence", "cycle"} :
                CASE r = "dependents" -> Len(transitive) > limits.transitive
                  [] r = "incoming" -> Len(into) > limits.incoming
                  [] r = "confidence" -> values # <<>> /\ sum < 70 * Len(values)
                  [] r = "cycle" -> \E c \in findCircularDependencies(g) : id \in Range(c)}]

\* Each node's degrees and reach, the most connected first.
computeCentrality(g) ==
  LET Score(n) == [id |-> n.id, path |-> n.path,
                   inDegree |-> Len(incoming(g, n.id)), outDegree |-> Len(outgoing(g, n.id)),
                   totalDegree |-> Len(incoming(g, n.id)) + Len(outgoing(g, n.id)),
                   dependentCount |-> Cardinality(Dependents(g, n.id)),
                   dependencyCount |-> Cardinality(Dependencies(g, n.id))]
  IN SortedBy({Score(g.nodes[i]) : i \in DOMAIN g.nodes},
       LAMBDA a, b : \/ a.totalDegree > b.totalDegree
                     \/ a.totalDegree = b.totalDegree /\ a.path < b.path)

detectHighCouplingFiles(g, at) ==
  SelectSeq(computeCentrality(g),
    LAMBDA s : \/ s.inDegree >= at.incoming \/ s.outDegree >= at.outgoing
               \/ s.totalDegree >= at.totalDegree \/ s.dependentCount >= at.blastRadius)

detectIsolatedFiles(g) ==
  {id \in Ids(g) : incoming(g, id) = <<>> /\ outgoing(g, id) = <<>>}

createGraphSummary(g, at) ==
  [nodeCount |-> Len(g.nodes), edgeCount |-> Len(g.edges),
   circularDependencyCount |-> Cardinality(findCircularDependencies(g)),
   highCouplingCount |-> Len(detectHighCouplingFiles(g, at)),
   isolatedFileCount |-> Cardinality(detectIsolatedFiles(g)),
   topCentralFiles |-> SubSeq(computeCentrality(g), 1, Min({5, Len(g.nodes)}))]

\* The most connected nodes and what is between them.
Induced(g, keep) ==
  [nodes |-> SelectSeq(g.nodes, LAMBDA n : n.id \in keep),
   edges |-> SelectSeq(g.edges, LAMBDA e : e.from \in keep /\ e.to \in keep)]
rendered(g, maxNodes) ==
  IF Len(g.nodes) <= maxNodes THEN g
  ELSE Induced(g, {s.id : s \in Range(SubSeq(computeCentrality(g), 1, maxNodes))})

\* Capped for rendering; the summary is of the whole graph.
Drawing(shown, maxLinks, summary) ==
  [nodes |-> shown.nodes, links |-> SubSeq(shown.edges, 1, Min({maxLinks, Len(shown.edges)})),
   summary |-> summary]
serializeGraphForUI(g, maxNodes, maxLinks, at) ==
  Drawing(rendered(g, maxNodes), maxLinks, createGraphSummary(g, at))

----------------------------------------------------------------------------
(* The Analyze stage: the metrics of the stored graph                       *)

\* nodes carry lines and symbolCount; the path of a node is its id.
MetricsOf(g, score) ==
  [fileId |-> score.id, centrality |-> score.totalDegree, fanIn |-> score.inDegree, fanOut |-> score.outDegree,
   blastRadius |-> score.dependentCount,
   complexity |-> NodeOf(g, score.id).lines + NodeOf(g, score.id).symbolCount + score.inDegree + score.outDegree]

\* The ids of the metrics, the highest first.
RankedBy(perFile, Score(_)) ==
  LET sorted == SortedBy(perFile, LAMBDA a, b :
        Score(a) > Score(b) \/ (Score(a) = Score(b) /\ a.fileId < b.fileId))
  IN [i \in DOMAIN sorted |-> sorted[i].fileId]

Report(g, perFile) ==
  [perFile |-> perFile,
   keyFiles |-> RankedBy(perFile, LAMBDA m : m.centrality), hotspots |-> RankedBy(perFile, LAMBDA m : m.complexity),
   cycles |-> findCircularDependencies(g), isolatedFileCount |-> Cardinality(detectIsolatedFiles(g)),
   maxBlastRadius |-> Max({0} \cup {m.blastRadius : m \in perFile})]
analyze(nodes, edges) ==
  LET g == buildImportGraph(nodes, edges)
  IN Report(g, {MetricsOf(g, s) : s \in Range(computeCentrality(g))})

----------------------------------------------------------------------------
(* The agent's tools and the oracle that grades them                        *)

\* A file by its id, by an ending that only one file has (endingIn is the set
\* of those that have it, empty for "it" and the like), or the one remembered.
resolveFileArg(nodeIds, requested, endingIn, remembered) ==
  IF requested \in nodeIds THEN [fileId |-> requested, fromMemory |-> FALSE]
  ELSE IF Cardinality(endingIn) = 1 THEN [fileId |-> Min(endingIn), fromMemory |-> FALSE]
  ELSE [fileId |-> remembered, fromMemory |-> remembered # Absent]

\* What the four tools say of a file of the repo, [nodes, edges, cpgEdges].
get_callers(repo, id) == {repo.cpgEdges[i].from : i \in {k \in DOMAIN repo.cpgEdges : repo.cpgEdges[k].to = id}}
find_references(repo, id) ==
  LET Ends(es) == {es[i].from : i \in {k \in DOMAIN es : es[k].to = id}}
                  \cup {es[i].to : i \in {k \in DOMAIN es : es[k].from = id}}
  IN Ends(repo.edges) \cup Ends(repo.cpgEdges)
get_blast_radius(repo, id) == Dependents(buildImportGraph(repo.nodes, repo.edges), id)

cycleThrough(cycles, id) == UNION {Range(c) : c \in {d \in cycles : id \in Range(d)}} \ {id}

truthFor(kind, repo, id) ==
  CASE kind = "imports-of" -> {repo.edges[i].from : i \in {k \in DOMAIN repo.edges : repo.edges[k].to = id}}
    [] kind = "who-calls" -> get_callers(repo, id)
    [] kind = "blast-radius" -> get_blast_radius(repo, id)
    [] kind = "cycle-through" -> cycleThrough(analyze(repo.nodes, repo.edges).cycles, id)

\* A grade: hits over the truth and over the claims, as pairs of numbers, and
\* what is not in the repository at all.
verify(truth, claimed, files) ==
  LET hits == Cardinality(truth \cap claimed)
      recall == IF truth = {} THEN (IF claimed = {} THEN <<1, 1>> ELSE <<0, 1>>) ELSE <<hits, Cardinality(truth)>>
      precision == IF claimed = {} THEN (IF truth = {} THEN <<1, 1>> ELSE <<0, 1>>) ELSE <<hits, Cardinality(claimed)>>
      exactMatch == recall[1] = recall[2] /\ precision[1] = precision[2]
  IN [passed |-> exactMatch /\ claimed \subseteq files, reward |-> IF exactMatch THEN 1 ELSE 0]

----------------------------------------------------------------------------
(* The tools one step is offered                                            *)

\* tools: [id, matches, general], in their order; usage: calls and empties of
\* each id.  A tool that came back empty twice is not offered again.
curateTools(tools, usage, maxTools) ==
  LET Exhausted(t) == usage.empties[t.id] >= 2
      Used(t) == IF usage.calls[t.id] > 0 THEN 1 ELSE 0
      Candidate(t) == ~Exhausted(t) /\ (t.general \/ t.matches > 0 \/ Used(t) = 1)
      General(t) == IF t.general THEN 1 ELSE 0
      Key(t) == <<-t.matches, -Used(t), General(t), t.id>>
      Less(a, b) == \E i \in 1..4 : Key(a)[i] < Key(b)[i] /\ \A j \in 1..(i - 1) : Key(a)[j] = Key(b)[j]
      scored == SortedBy({t \in Range(tools) : Candidate(t)}, Less)
  IN [kept |-> SubSeq(scored, 1, Min({maxTools, Len(scored)})),
      omitted |-> {[id |-> t.id, reason |-> IF Exhausted(t) THEN "exhausted" ELSE "no-trigger-match"] :
                     t \in {u \in Range(tools) : ~Candidate(u)}}
                  \cup {[id |-> scored[i].id, reason |-> "over-cap"] : i \in (maxTools + 1)..Len(scored)}]

----------------------------------------------------------------------------
(* Reference definitions                                                    *)

\* The nodes within k allowed edges of a start, which is one of them.
RECURSIVE Within(_, _, _, _, _)
Within(g, start, forward, opts, k) ==
  IF k = 0 THEN {start}
  ELSE LET near == Within(g, start, forward, opts, k - 1)
           Edges == {e \in Range(g.edges) : edgeAllowed(e, opts)}
       IN near \cup (IF forward THEN {e.to : e \in {d \in Edges : d.from \in near}}
                     ELSE {e.from : e \in {d \in Edges : d.to \in near}})

\* What can be reached in maxDepth steps is found, at its distance, by an edge
\* from a node one nearer, and in order of distance.
FindsTheNearest(g, start, forward, opts) ==
  LET result == traverse(g, start, forward, opts)
      Near(k) == Within(g, start, forward, opts, k)
  IN /\ {r.node : r \in Range(result)} = Near(opts.maxDepth) \ {start}
     /\ \A r \in Range(result) :
          /\ r.node \in Near(r.depth) /\ r.node \notin Near(r.depth - 1)
          /\ (IF forward THEN r.via.from ELSE r.via.to) \in Near(r.depth - 1)
     /\ \A i, j \in DOMAIN result : i < j => result[i].depth <= result[j].depth

\* Who lies on a cycle.
Cyclic(g) == {id \in Ids(g) : \E e \in Range(outgoing(g, id)) :
                                id \in Within(g, e.to, TRUE, Everything(g), AnyDepth(g))}

\* A reported cycle is one, simple, and written from its least file; there is
\* one wherever the graph has one; and a reach that is risky for a cycle has one.
CyclesAreReal(g) ==
  LET found == findCircularDependencies(g)
      Joined(a, b) == \E e \in Range(g.edges) : e.from = a /\ e.to = b
  IN /\ \A c \in found :
          /\ \A i \in DOMAIN c : Joined(c[i], c[(i % Len(c)) + 1]) /\ c[1] <= c[i]
          /\ IsInjective(c)
     /\ Cyclic(g) # {} <=> found # {}

\* What is drawn is a graph, within its caps, of nodes no less connected than
\* those left out, and its summary is that of the whole.
DrawingIsSound(g, drawn, maxNodes, maxLinks) ==
  LET shown == {n.id : n \in Range(drawn.nodes)}
      Degree(id) == Len(incoming(g, id)) + Len(outgoing(g, id))
  IN /\ Len(drawn.nodes) <= maxNodes \/ Len(drawn.nodes) = Len(g.nodes)
     /\ Len(drawn.links) <= maxLinks
     /\ \A l \in Range(drawn.links) : l.from \in shown /\ l.to \in shown
     /\ \A a \in shown, b \in Ids(g) \ shown : Degree(a) >= Degree(b)
     /\ drawn.summary.edgeCount = Len(g.edges)
=============================================================================
