----------------------------- MODULE Communities -----------------------------
(***************************************************************************)
(* Community detection over the code graph (packages/graph/src/            *)
(* communities.ts): sweeps that move one unit at a time into the community *)
(* of a neighbour, as long as modularity gains, then one unit for each     *)
(* community and sweeps again.  The order of a sweep, a seeded permutation *)
(* in the code, is any permutation here; weights are whole numbers, and    *)
(* the resolution is the default, 1.                                       *)
(***************************************************************************)
EXTENDS Naturals, Integers, Sequences, FiniteSets, SequencesExt, FiniteSetsExt

CONSTANTS
  Files,         \* numbers, in the order of their ids
  Graphs,        \* the edge lists a run may start from
  MaxPasses      \* sweeps of one level

\* An edge list is a sequence of [from, to, weight]; an end may be missing
\* from the graph.
ASSUME CommunitiesAssumption ==
  /\ Files \subseteq Nat /\ IsFiniteSet(Files)
  /\ MaxPasses \in Nat \ {0}

VARIABLES
  pc,          \* "sweep", "group" or "done"
  base,        \* the projected graph
  level,       \* the graph of this level
  order, at,   \* the order of its sweeps and the next unit
  moved, pass,
  communityOf, \* of each unit of the level, one of 1..n
  communityDegree,
  report

vars == <<pc, base, level, order, at, moved, pass, communityOf, communityDegree, report>>
sweepVars == <<order, at, moved, pass, communityOf, communityDegree>>

----------------------------------------------------------------------------
(* A level: units 1..n with their members, the weight between two of them,  *)
(* and the weight of their self-loops                                       *)

Units(g) == 1..g.n
Sum(f(_), S) == MapThenSumSet(f, S)

withDegrees(g) ==
  LET degree == [u \in Units(g) |-> 2 * g.self[u] + Sum(LAMBDA v : g.adjacency[u][v], Units(g))]
  IN [n |-> g.n, members |-> g.members, self |-> g.self, adjacency |-> g.adjacency,
      degree |-> degree, twoM |-> Sum(LAMBDA u : degree[u], Units(g))]

\* Only edges of positive weight between known files; both directions are
\* one coupling.
projectUndirected(edges) ==
  LET file == SetToSortSeq(Files, <)
      n == Cardinality(Files)
      Weight(P(_)) == Sum(LAMBDA i : IF P(edges[i]) THEN edges[i].weight ELSE 0, DOMAIN edges)
      Joins(e, a, b) == {e.from, e.to} = {a, b}
  IN withDegrees([
      n |-> n,
      members |-> [u \in 1..n |-> {file[u]}],
      self |-> [u \in 1..n |-> Weight(LAMBDA e : Joins(e, file[u], file[u]))],
      adjacency |-> [u \in 1..n |-> [v \in 1..n |->
                       IF u = v THEN 0 ELSE Weight(LAMBDA e : Joins(e, file[u], file[v]))]]])

\* Larger groups first, then the one with the lowest member.
groupByCommunity(n, of) ==
  SetToSortSeq({{u \in 1..n : of[u] = c} : c \in {of[u] : u \in 1..n}},
    LAMBDA a, b : \/ Cardinality(a) > Cardinality(b)
                  \/ Cardinality(a) = Cardinality(b) /\ Min(a) < Min(b))

\* Mutant: a pair inside a group is counted from both its ends.
aggregateDouble(g, groups) ==
  withDegrees([n |-> Len(groups),
   members |-> [i \in DOMAIN groups |-> UNION {g.members[u] : u \in groups[i]}],
   self |-> [i \in DOMAIN groups |->
               Sum(LAMBDA u : g.self[u] + Sum(LAMBDA v : g.adjacency[u][v], groups[i]), groups[i])],
   adjacency |-> [i \in DOMAIN groups |-> [k \in DOMAIN groups |->
     IF i = k THEN 0 ELSE Sum(LAMBDA u : Sum(LAMBDA v : g.adjacency[u][v], groups[k]), groups[i])]]])

\* One unit for each group; what was between two of its units is a self-loop,
\* seen once from either end and halved.
aggregate(g, groups) ==
  LET Between(S, T) == Sum(LAMBDA u : Sum(LAMBDA v : g.adjacency[u][v], T), S)
      SelfOf(S) == Sum(LAMBDA u : g.self[u], S) + Between(S, S) \div 2
  IN withDegrees([
      n |-> Len(groups),
      members |-> [i \in DOMAIN groups |-> UNION {g.members[u] : u \in groups[i]}],
      self |-> [i \in DOMAIN groups |-> SelfOf(groups[i])],
      adjacency |-> [i \in DOMAIN groups |-> [k \in DOMAIN groups |->
                       IF i = k THEN 0 ELSE Between(groups[i], groups[k])]]])

----------------------------------------------------------------------------
(* The reported partition, measured on the projected graph                  *)

\* Newman-Girvan modularity times (2m)^2: a whole number.
modularityOf(g, partition) ==
  LET Inside(c) == Sum(LAMBDA u : 2 * g.self[u] + Sum(LAMBDA v : g.adjacency[u][v], c), c)
      Total(c) == Sum(LAMBDA u : g.degree[u], c)
  IN Sum(LAMBDA c : Inside(c) * g.twoM - Total(c) * Total(c), partition)

\* Each cluster with twice the weight inside it and the weight that leaves it.
finalize(g, groups) ==
  [clusters |-> [i \in DOMAIN groups |->
     [files |-> groups[i],
      internal |-> Sum(LAMBDA u : 2 * g.self[u] + Sum(LAMBDA v : g.adjacency[u][v], groups[i]), groups[i]),
      external |-> Sum(LAMBDA u : Sum(LAMBDA v : g.adjacency[u][v], Units(g) \ groups[i]), groups[i])]],
   modularity |-> modularityOf(g, ToSet(groups))]

----------------------------------------------------------------------------

Orders(n) == {f \in [1..n -> 1..n] : IsInjective(f)}

\* Every unit is its own community, and the sweeps begin.
BeginLevel(g) ==
  /\ level' = g
  /\ order' \in Orders(g.n)
  /\ at' = 1 /\ moved' = FALSE /\ pass' = 1
  /\ communityOf' = [u \in Units(g) |-> u]
  /\ communityDegree' = [u \in Units(g) |-> g.degree[u]]

Init ==
  /\ pc = "sweep"
  /\ \E edges \in Graphs : base = projectUndirected(edges)
  /\ level = base
  /\ order \in Orders(level.n)
  /\ at = 1 /\ moved = FALSE /\ pass = 1
  /\ communityOf = [u \in Units(level) |-> u]
  /\ communityDegree = [u \in Units(level) |-> level.degree[u]]
  /\ report = [clusters |-> <<>>, modularity |-> 0]

\* What moving into a community gains, times 2m.
gainOf(into, total, unit) == into * level.twoM - total * unit

WeightInto(u, c) == Sum(LAMBDA v : level.adjacency[u][v], {v \in Units(level) : communityOf[v] = c})

\* Mutant: the unit is weighed while its community still counts it.
BestFromWithin(u) ==
  LET current == communityOf[u]
      k == level.degree[u]
      Gain(c) == gainOf(WeightInto(u, c), communityDegree[c], k)
      near == {current} \cup {communityOf[v] : v \in {w \in Units(level) : level.adjacency[u][w] > 0}}
      top == Max({Gain(c) : c \in near})
  IN IF Gain(current) = top THEN current ELSE Min({c \in near : Gain(c) = top})

\* Taken out of its own, a unit goes to the neighbour's community that gains
\* most: it stays at a tie with its own, and takes the lowest at another tie.
Best(u) ==
  LET current == communityOf[u]
      k == level.degree[u]
      Gain(c) == gainOf(WeightInto(u, c), communityDegree[c] - (IF c = current THEN k ELSE 0), k)
      near == {current} \cup {communityOf[v] : v \in {w \in Units(level) : level.adjacency[u][w] > 0}}
      top == Max({Gain(c) : c \in near})
  IN IF Gain(current) = top THEN current ELSE Min({c \in near : Gain(c) = top})

Visit ==
  /\ pc = "sweep" /\ level.twoM > 0 /\ at <= level.n
  /\ LET u == order[at]
         k == level.degree[u]
         best == Best(u)
         left == [communityDegree EXCEPT ![communityOf[u]] = @ - k]
     IN /\ communityOf' = [communityOf EXCEPT ![u] = best]
        /\ communityDegree' = [left EXCEPT ![best] = @ + k]
        /\ moved' = (moved \/ best # communityOf[u])
  /\ at' = at + 1
  /\ UNCHANGED <<pc, base, level, order, pass, report>>

\* A sweep that moved something is followed by another, up to the bound.
EndSweep ==
  /\ pc = "sweep" /\ level.twoM > 0 /\ at > level.n
  /\ IF moved /\ pass < MaxPasses
     THEN at' = 1 /\ moved' = FALSE /\ pass' = pass + 1 /\ UNCHANGED pc
     ELSE pc' = "group" /\ UNCHANGED <<at, moved, pass>>
  /\ UNCHANGED <<base, level, order, communityOf, communityDegree, report>>

Groups == groupByCommunity(level.n, communityOf)

\* The clusters: larger first, then by the lowest file.
Conclude ==
  /\ pc' = "done"
  /\ LET of == [u \in Units(base) |-> CHOOSE i \in Units(level) : base.members[u] \subseteq level.members[i]]
     IN report' = finalize(base, groupByCommunity(base.n, of))
  /\ UNCHANGED <<base, level, sweepVars>>

\* Nothing was merged: converged.
Group ==
  /\ pc = "group"
  /\ IF Len(Groups) = level.n
     THEN Conclude
     ELSE pc' = "sweep" /\ BeginLevel(aggregate(level, Groups)) /\ UNCHANGED <<base, report>>

\* A graph without an edge has nothing to sweep.
Edgeless ==
  /\ pc = "sweep" /\ level.twoM = 0
  /\ Conclude

Next == Visit \/ EndSweep \/ Group \/ Edgeless
Spec == Init /\ [][Next]_vars /\ WF_vars(Next)

----------------------------------------------------------------------------
(* Properties                                                               *)

\* The partition the sweeps have reached, of the units of the projected graph.
Reached ==
  LET Of(u) == CHOOSE i \in Units(level) : base.members[u] \subseteq level.members[i]
  IN {{u \in Units(base) : communityOf[Of(u)] = c} : c \in {communityOf[i] : i \in Units(level)}}

TypeOK ==
  /\ pc \in {"sweep", "group", "done"}
  /\ communityOf \in [Units(level) -> Units(level)]
  /\ communityDegree \in [Units(level) -> Nat]
  /\ at \in 1..(level.n + 1) /\ pass \in 1..MaxPasses /\ moved \in BOOLEAN

\* The running totals are those of the units in each community (:163, :188).
DegreesAddUp ==
  \A c \in Units(level) :
    communityDegree[c] = Sum(LAMBDA u : level.degree[u], {u \in Units(level) : communityOf[u] = c})

\* A level says of every set of files what the files' own edges say: "total
\* degree is preserved exactly, which modularity depends on" (:233).
AggregateIsExact ==
  LET Within(S) == {u \in Units(base) : base.members[u] \subseteq S}
      Between(S, T) == Sum(LAMBDA u : Sum(LAMBDA v : base.adjacency[u][v], Within(T)), Within(S))
  IN /\ UNION {level.members[i] : i \in Units(level)} = Files
     /\ \A i, k \in Units(level) :
          i # k => /\ level.members[i] \cap level.members[k] = {}
                   /\ level.adjacency[i][k] = Between(level.members[i], level.members[k])
     /\ level.twoM = base.twoM

\* No step lowers the modularity of the partition, and a step that moves a
\* unit raises it (:174-186): the sweeps cannot go round in circles.
ModularityRises ==
  [][/\ modularityOf(base, Reached') >= modularityOf(base, Reached)
     /\ Reached' # Reached => modularityOf(base, Reached') > modularityOf(base, Reached)]_vars

\* A file without an edge to another is a cluster of its own (:54-56).
IsolatedStayAlone ==
  \A i \in DOMAIN report.clusters :
    LET files == report.clusters[i].files
    IN Cardinality(files) > 1 =>
         \A u \in files : \E v \in Units(base) : base.adjacency[u][v] > 0

\* The reported weights account for every edge of the graph once (:284-302).
ReportAddsUp ==
  pc = "done" =>
    /\ Sum(LAMBDA i : report.clusters[i].internal + report.clusters[i].external,
           DOMAIN report.clusters) = base.twoM
    /\ UNION {report.clusters[i].files : i \in DOMAIN report.clusters} = Units(base)

\* The detection ends.
DetectionEnds == <>(pc = "done")

\* The bookkeeping of every level agrees with the files' own edges.
DetectionIsExact ==
  TypeOK /\ DegreesAddUp /\ AggregateIsExact /\ IsolatedStayAlone /\ ReportAddsUp

\* The sweeps climb, and so they come to an end.
DetectionSettles == ModularityRises /\ DetectionEnds
=============================================================================
