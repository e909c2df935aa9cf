------------------------------ MODULE Knowledge ------------------------------
(***************************************************************************)
(* What a fan-out leaves behind (packages/agents/src/orchestrator): the    *)
(* findings the supervisor is shown, the repository's knowledge base that  *)
(* consolidateKnowledge makes of all of them, the domain lanes the page    *)
(* draws from it, and the blackboard's versions.                           *)
(*                                                                         *)
(* A finding is [cluster, specialist, headline, detail, importance, files]:*)
(* a headline <<key, wording>>, whose key is what normalizeHeadline makes  *)
(* of it, a detail its length, an importance 1 to 3.  A file is its path,  *)
(* a sequence of numbers in the order of names.                            *)
(***************************************************************************)
EXTENDS Integers, Sequences, FiniteSets, SequencesExt, FiniteSetsExt

CONSTANTS
  KB_MAX_POINTS_PER_COMMUNITY, KB_MAX_COMMUNITIES, KB_MAX_KEY_FILES,
  KB_MAX_DETAIL_CHARS, KB_MAX_FAQ,
  LANE_MAX_MODULES, LANE_MAX_HEADLINES,
  SUPERVISOR_MAX_FINDINGS,
  DEFAULT_MAX_VERSIONS

AtMost(s, n) == SubSeq(s, 1, Min({n, Len(s)}))

\* A list in an order, elements that it does not tell apart staying as they are.
Ordered(s, Before(_, _)) ==
  LET at == SetToSortSeq(DOMAIN s,
              LAMBDA i, j : Before(s[i], s[j]) \/ (~Before(s[j], s[i]) /\ i < j))
  IN [k \in DOMAIN s |-> s[at[k]]]

\* Paths and headlines in the order of names.
Precedes(a, b) ==
  LET n == Len(LongestCommonPrefix({a, b}))
  IN IF n = Len(a) \/ n = Len(b) THEN Len(a) < Len(b) ELSE a[n + 1] < b[n + 1]
InOrder(files) == SetToSortSeq(files, Precedes)

Total(s, Of(_)) == FoldLeft(LAMBDA sum, x : sum + Of(x), 0, s)

----------------------------------------------------------------------------
(* What the supervisor reads (blackboard.ts)                                *)

OfCluster(findings, c) == SelectSeq(findings, LAMBDA f : f.cluster = c)
ClustersOf(findings) == {f.cluster : f \in ToSet(findings)}

\* One finding of each community in turn, the most important first.
RoundRobin(findings) ==
  LET Best(f, g) ==
        \/ f.importance > g.importance
        \/ /\ f.importance = g.importance
           /\ \/ f.specialist < g.specialist
              \/ f.specialist = g.specialist /\ Precedes(f.headline, g.headline)
      bucket == [c \in ClustersOf(findings) |-> Ordered(OfCluster(findings, c), Best)]
      turns == UNION {{<<round, c>> : round \in DOMAIN bucket[c]} : c \in DOMAIN bucket}
      order == SetToSortSeq(turns, Precedes)
  IN [k \in DOMAIN order |-> bucket[order[k][2]][order[k][1]]]

\* Mutant: the most important findings of all, whatever community they are of.
selectMostImportant(findings, max) ==
  AtMost(Ordered(findings, LAMBDA f, g : f.importance > g.importance), max)

selectForSupervisor(findings, max) ==
  Ordered(AtMost(RoundRobin(findings), max),
    LAMBDA f, g :
      \/ f.importance > g.importance
      \/ /\ f.importance = g.importance
         /\ Precedes(<<f.cluster, f.specialist>> \o f.headline, <<g.cluster, g.specialist>> \o g.headline))

----------------------------------------------------------------------------
(* The knowledge base (consolidate.ts)                                      *)

normalizeHeadline(headline) == headline[1]

\* The findings of one community that make the same point are one point: the
\* importance of the most important, the detail of the longest.
MergedPoint(bucket, nodes) ==
  LET First(Before(_, _)) == Head(Ordered(bucket, Before))
      top == First(LAMBDA f, g : f.importance > g.importance
                                 \/ (f.importance = g.importance /\ f.specialist < g.specialist))
      full == First(LAMBDA f, g : f.detail > g.detail \/ (f.detail = g.detail /\ f.specialist < g.specialist))
  IN [headline |-> top.headline, importance |-> top.importance,
      detail |-> Min({full.detail, KB_MAX_DETAIL_CHARS}),
      corroboratedBy |-> {f.specialist : f \in ToSet(bucket)},
      files |-> UNION {f.files : f \in ToSet(bucket)} \cap nodes]

mergePoints(findings, nodes) ==
  LET keys == {normalizeHeadline(f.headline) : f \in ToSet(findings)}
      Bucket(key) == SelectSeq(findings, LAMBDA f : normalizeHeadline(f.headline) = key)
  IN [points |->
        SetToSortSeq({MergedPoint(Bucket(key), nodes) : key \in keys},
          LAMBDA p, q :
            \/ p.importance > q.importance
            \/ /\ p.importance = q.importance
               /\ \/ Cardinality(p.corroboratedBy) > Cardinality(q.corroboratedBy)
                  \/ /\ Cardinality(p.corroboratedBy) = Cardinality(q.corroboratedBy)
                     /\ Precedes(p.headline, q.headline)),
      merged |-> Len(findings) - Cardinality(keys)]

\* A result is [nodes, edges, entryPoints, cycles, degree, clusters]; the
\* degree of a file is [fanIn, fanOut].
keyFilesFor(result, files) ==
  LET Score(f) == IF f \in DOMAIN result.degree THEN result.degree[f].fanIn + result.degree[f].fanOut ELSE 0
  IN AtMost(SetToSortSeq(files \cap result.nodes,
              LAMBDA f, g : Score(f) > Score(g) \/ (Score(f) = Score(g) /\ Precedes(f, g))),
            KB_MAX_KEY_FILES)

\* What the graph says by itself; a fact that would say nothing is left out.
deriveFacts(result) ==
  LET hubs == AtMost(SetToSortSeq({f \in DOMAIN result.degree : result.degree[f].fanIn > 0},
                       LAMBDA f, g : result.degree[f].fanIn > result.degree[g].fanIn
                                     \/ (result.degree[f].fanIn = result.degree[g].fanIn /\ Precedes(f, g))), 3)
      Fact(id, holds, files) == IF holds THEN <<[id |-> id, files |-> files \cap result.nodes]>> ELSE <<>>
  IN Fact("scale", result.nodes # {}, {})
       \o Fact("entry-points", result.entryPoints # {}, result.entryPoints)
       \o Fact("cycles", result.cycles # <<>>, IF result.cycles = <<>> THEN {} ELSE result.cycles[1])
       \o Fact("hubs", hubs # <<>>, ToSet(hubs))
       \o Fact("communities", DOMAIN result.clusters # {}, {})

\* That there is no cycle is an answer too.
buildFaq(facts, communities) ==
  LET FilesOf(id) == UNION {f.files : f \in {g \in ToSet(facts) : g.id = id}}
      Asked(id) == \E f \in ToSet(facts) : f.id = id
      Graph(id) == IF Asked(id) \/ id = "cycles" THEN <<[id |-> id, files |-> FilesOf(id), source |-> "graph"]>> ELSE <<>>
      spoken == SelectSeq(communities, LAMBDA c : c.points # <<>>)
      Digest(c) == [id |-> "community", source |-> "agents",
                    files |-> IF c.points[1].files # {} THEN c.points[1].files ELSE ToSet(c.keyFiles)]
      risks == AtMost(FlattenSeq([k \in DOMAIN communities |->
                        SelectSeq(communities[k].points, LAMBDA p : p.importance = 3)]), 5)
  IN Graph("scale") \o Graph("entry-points") \o Graph("cycles") \o Graph("hubs")
       \o [k \in DOMAIN spoken |-> Digest(spoken[k])]
       \o (IF risks = <<>> THEN <<>>
           ELSE <<[id |-> "risks", source |-> "agents", files |-> UNION {p.files : p \in ToSet(risks)}]>>)

\* `entries` says of each community which lenses had nothing to say, and why.
consolidateKnowledge(result, findings, entries) ==
  LET Weight(c) == Total(OfCluster(findings, c), LAMBDA f : f.importance)
      ordered == SetToSortSeq(ClustersOf(findings),
                   LAMBDA c, d : Weight(c) > Weight(d) \/ (Weight(c) = Weight(d) /\ c < d))
      kept == AtMost(ordered, KB_MAX_COMMUNITIES)
      Of(c) == OfCluster(findings, c)
      Known(c) == c \in DOMAIN result.clusters
      Digest(c) ==
        [cluster |-> c,
         fileCount |-> IF Known(c) THEN Cardinality(result.clusters[c])
                       ELSE Cardinality(UNION {f.files : f \in ToSet(Of(c))}),
         keyFiles |-> keyFilesFor(result, IF Known(c) THEN result.clusters[c] ELSE {}),
         specialists |-> {f.specialist : f \in ToSet(Of(c))},
         points |-> AtMost(mergePoints(Of(c), result.nodes).points, KB_MAX_POINTS_PER_COMMUNITY),
         gaps |-> {e \in ToSet(entries) : e.cluster = c /\ e.status # "ok"}]
      communities == [k \in DOMAIN kept |-> Digest(kept[k])]
      facts == deriveFacts(result)
  IN [facts |-> facts, communities |-> communities,
      faq |-> AtMost(buildFaq(facts, communities), KB_MAX_FAQ),
      findingsIn |-> Len(findings),
      pointsOut |-> Total(communities, LAMBDA c : Len(c.points)),
      mergedDuplicates |-> Total(kept, LAMBDA c : mergePoints(Of(c), result.nodes).merged),
      droppedUngroundedFileIds |->
        Total(kept, LAMBDA c : Total(Of(c), LAMBDA f : Cardinality(f.files \ result.nodes))),
      omittedClusters |-> ClustersOf(findings) \ ToSet(kept)]

\* An entry is [text, question]: sets of words; only an answer in the FAQ has a
\* question, which weighs a fifth more.  Scores are in fifths of a word.
queryKnowledgeBase(entries, query, k) ==
  LET Score(e) == Max({6 * Cardinality(query \cap e.question), 5 * Cardinality(query \cap e.text)})
      hits == {i \in DOMAIN entries : Score(entries[i]) > 0}
  IN IF query = {} THEN <<>>
     ELSE AtMost(SetToSortSeq(hits, LAMBDA i, j : Score(entries[i]) > Score(entries[j])
                                                  \/ (Score(entries[i]) = Score(entries[j]) /\ i < j)), k)

----------------------------------------------------------------------------
(* Domain lanes (domainLanes.ts)                                            *)

Directory(file) == SubSeq(file, 1, Len(file) - 1)

\* The deepest directory they share, or else where the first one is.
commonDirectory(files) == LongestCommonPrefix({Directory(f) : f \in files})
deriveTitle(files) ==
  LET first == InOrder(files)[1]
  IN IF commonDirectory(files) # <<>> THEN commonDirectory(files)
     ELSE IF Len(first) > 1 THEN Directory(first) ELSE first

\* The lens behind most points; 0 for none.
dominantTag(points, specialists) ==
  LET Tally(s) == Cardinality({i \in DOMAIN points : s \in points[i].corroboratedBy})
      named == UNION {p.corroboratedBy : p \in ToSet(points)}
  IN IF named # {}
     THEN CHOOSE s \in named : \A t \in named : Tally(s) > Tally(t) \/ (Tally(s) = Tally(t) /\ s <= t)
     ELSE IF specialists # {} THEN Min(specialists) ELSE 0

\* A community of whose files none is in the graph makes no lane.
buildDomainLanes(kb, nodes, entryProbable) ==
  LET Modules(c) == ToSet(AtMost(InOrder((UNION {p.files : p \in ToSet(c.points)} \cup ToSet(c.keyFiles)) \cap nodes),
                                 LANE_MAX_MODULES))
      Lane(c) == [cluster |-> c.cluster, title |-> deriveTitle(Modules(c)),
                  agentTag |-> dominantTag(c.points, c.specialists),
                  modules |-> Modules(c), entryProbable |-> Cardinality(Modules(c) \cap entryProbable),
                  headlines |-> [k \in 1..Min({LANE_MAX_HEADLINES, Len(c.points)}) |-> c.points[k].headline],
                  corroborated |-> Cardinality({i \in DOMAIN c.points : Cardinality(c.points[i].corroboratedBy) > 1})]
  IN SetToSortSeq({Lane(c) : c \in {d \in ToSet(kb.communities) : Modules(d) # {}}},
       LAMBDA l, m : Cardinality(l.modules) > Cardinality(m.modules)
                     \/ (Cardinality(l.modules) = Cardinality(m.modules) /\ l.cluster < m.cluster))

----------------------------------------------------------------------------
(* The blackboard's versions (versionedBlackboard.ts)                       *)

createVersionedBlackboard == [versions |-> <<>>, reads |-> <<>>, totalWrites |-> 0]

write(log, state) ==
  LET versions == Append(log.versions, [version |-> log.totalWrites + 1, state |-> state])
  IN [log EXCEPT !.totalWrites = @ + 1,
                 !.versions = SubSeq(versions, Max({1, Len(versions) - DEFAULT_MAX_VERSIONS + 1}), Len(versions))]

\* The reader is given the latest state, and noted down with its version.
read(log) == [log EXCEPT !.reads = Append(@, log.totalWrites)]

at(log, version) == {v.state : v \in {w \in ToSet(log.versions) : w.version = version}}
trimmedBefore(log) == IF log.versions = <<>> THEN 1 ELSE log.versions[1].version

----------------------------------------------------------------------------
(* What must hold of them                                                   *)

\* The supervisor sees every community before it sees a second finding of one,
\* whatever the order they were posted in.
SelectionIsBroad(findings) ==
  LET shown == selectForSupervisor(findings, SUPERVISOR_MAX_FINDINGS)
      Count(s, c) == Len(OfCluster(s, c))
  IN /\ Len(shown) = Min({SUPERVISOR_MAX_FINDINGS, Len(findings)})
     /\ \A c, d \in ClustersOf(findings) :
          Count(shown, c) > Count(shown, d) + 1 => Count(shown, d) = Count(findings, d)
     /\ selectForSupervisor(Reverse(findings), SUPERVISOR_MAX_FINDINGS) = shown

\* A point is what its lenses said of its community, and cites only files they
\* named and the graph has.
PointsAreGrounded(result, findings, kb) ==
  \A c \in ToSet(kb.communities) : \A p \in ToSet(c.points) :
    LET made == {f \in ToSet(OfCluster(findings, c.cluster)) : normalizeHeadline(f.headline) = normalizeHeadline(p.headline)}
    IN /\ p.corroboratedBy = {f.specialist : f \in made}
       /\ p.importance = Max({f.importance : f \in made})
       /\ p.files = {n \in result.nodes : \E f \in made : n \in f.files}

\* What went in came out, was merged, is over the cap of its community or is of
\* one that the knowledge base names as omitted.
ReductionAddsUp(findings, kb) ==
  LET Points(c) == Cardinality({normalizeHeadline(f.headline) : f \in ToSet(OfCluster(findings, c.cluster))})
      omitted == SelectSeq(findings, LAMBDA f : f.cluster \in kb.omittedClusters)
  IN kb.findingsIn = kb.pointsOut + kb.mergedDuplicates + Len(omitted)
       + Total(kb.communities, LAMBDA c : Points(c) - Len(c.points))

\* The order they were posted in does not show, unless a lens repeats itself.
OrderDoesNotShow(result, findings, kb) ==
  (\A i, j \in DOMAIN findings :
     /\ findings[i].cluster = findings[j].cluster /\ findings[i].specialist = findings[j].specialist
     /\ normalizeHeadline(findings[i].headline) = normalizeHeadline(findings[j].headline) => i = j)
  => consolidateKnowledge(result, Reverse(findings), <<>>) = kb

\* An answer cites the graph, and one of the agents its community or its points.
AnswersAreCitable(result, kb) == \A q \in ToSet(kb.faq) : q.files \subseteq result.nodes

\* A lane's title leads to each of its modules, and what survived is in a lane.
LanesAreReal(result, kb) ==
  LET lanes == buildDomainLanes(kb, result.nodes, result.entryPoints)
  IN /\ \A l \in ToSet(lanes) : commonDirectory(l.modules) # <<>> =>
          \A f \in l.modules : Len(f) > Len(l.title) /\ SubSeq(f, 1, Len(l.title)) = l.title
     /\ \A c \in ToSet(kb.communities) :
          (\E l \in ToSet(lanes) : l.cluster = c.cluster) <=> (c.keyFiles # <<>> \/ \E p \in ToSet(c.points) : p.files # {})

KnowledgeIsSound(result, findings) ==
  LET kb == consolidateKnowledge(result, findings, <<>>)
  IN /\ SelectionIsBroad(findings) /\ PointsAreGrounded(result, findings, kb) /\ ReductionAddsUp(findings, kb)
     /\ OrderDoesNotShow(result, findings, kb) /\ AnswersAreCitable(result, kb) /\ LanesAreReal(result, kb)

\* A question gets entries that share a word with it, or none.
HitsAreRelevant(entries, query) ==
  \A k \in 1..2 : LET hits == queryKnowledgeBase(entries, query, k)
  IN /\ \A i \in ToSet(hits) : query \cap (entries[i].text \cup entries[i].question) # {}
     /\ hits = <<>> <=> \A i \in DOMAIN entries : query \cap (entries[i].text \cup entries[i].question) = {}

\* What a reader was given can be looked up until it is trimmed, and trimming
\* is told.  A history is a list of states written, or "read".
HistoryIsReplayable(history) ==
  LET log == FoldLeft(LAMBDA l, x : IF x = "read" THEN read(l) ELSE write(l, x), createVersionedBlackboard, history)
      Written(n) == SelectSeq(SubSeq(history, 1, n), LAMBDA x : x # "read")
      readings == SetToSortSeq({n \in DOMAIN history : history[n] = "read"}, <)
  IN /\ \A r \in DOMAIN readings :
          LET seen == Written(readings[r])
          IN at(log, log.reads[r]) = IF seen # <<>> /\ Len(seen) >= trimmedBefore(log) THEN {Last(seen)} ELSE {}
     /\ log.totalWrites = Len(Written(Len(history)))
     /\ trimmedBefore(log) = Max({1, log.totalWrites - DEFAULT_MAX_VERSIONS + 1})
=============================================================================
