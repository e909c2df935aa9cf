------------------------------- MODULE MCStores -------------------------------
(***************************************************************************)
(* What is spent and what is kept, one part to a behaviour: the daily      *)
(* budget that runs share, the API's store of results and its job records, *)
(* the memory of a repository's commits and the traces of runs.  `part`    *)
(* says which runs.                                                        *)
(***************************************************************************)
EXTENDS Synthesis, Sequences, TLC

CONSTANTS
  r1, r2, r3,
  Results, Readers, Budget, HardLimit, Changes,                       \* ResultStore
  Snapshots, Commits, Sinces, Overlap, MaxSnapshots,                  \* RepoMemory
  Traced, Stages, Usages, Calls, Pricing, MaxReports, Ticks,          \* Trace
  Jobs, Requests, Links, Deliveries                                   \* JobRecords

\* Sizes, counts and prices are numbers, -1 for none; tokens read from a cache
\* are not dearer than others, and no stage is called as a run's own span is.
ASSUME StoresAssumption ==
  /\ Jobs # {} /\ Links \in Nat /\ Deliveries \in Nat
  /\ Results \in Seq([rest : Nat, cpgEdges : Nat \cup {-1}, routes : Nat \cup {-1}, edges : Nat])
  /\ Budget \in Nat /\ HardLimit \in Nat /\ Budget <= HardLimit
  /\ Commits \in Seq(Nat \ {0}) /\ MaxSnapshots \in Nat \ {0}
  /\ Usages \subseteq [input : Nat, output : Nat, cacheRead : Nat \cup {-1}, measured : BOOLEAN]
  /\ \A model \in DOMAIN Pricing :
       /\ Pricing[model] \in [input : Nat, output : Nat, cacheRead : Nat \cup {-1}]
       /\ Pricing[model].cacheRead <= Pricing[model].input
  /\ MaxReports \in Nat /\ \A r \in Traced : "run" \notin DOMAIN Stages[r]

\* Two runs of one commit, and one of another.
MCKey == r1 :> "a" @@ r2 :> "a" @@ r3 :> "b"
Alike == Permutations({r1, r2})

\* One result that fits, one with two fields too large, one that never fits.
MCResults ==
  <<[rest |-> 1, cpgEdges |-> 3, routes |-> 2, edges |-> 2],
    [rest |-> 2, cpgEdges |-> 4, routes |-> -1, edges |-> 0],
    [rest |-> 6, cpgEdges |-> 0, routes |-> 1, edges |-> 1]>>

\* Three commits, the first asked about again at the end.
MCSnapshots ==
  <<[files |-> {"a", "b"}, edges |-> {<<"a", "b">>}, symbols |-> [a |-> {"x"}], cycles |-> {}],
    [files |-> {"a", "b"}, edges |-> {<<"a", "b">>}, symbols |-> [b |-> {"x"}], cycles |-> {}],
    [files |-> {"a", "c"}, edges |-> {<<"a", "c">>, <<"c", "a">>},
     symbols |-> [a |-> {"x", "y"}], cycles |-> {{"a", "c"}}]>>
MCCommits == <<1, 2, 3, 1>>

\* One run with two stages that cost, one of them without a price.
MCStages == <<[synthesize |-> "priced", rag |-> "unpriced"], <<>>>>
MCUsages ==
  {[input |-> 3, output |-> 1, cacheRead |-> 2, measured |-> TRUE],
   [input |-> 1, output |-> 1, cacheRead |-> -1, measured |-> FALSE]}
MCPricing == [priced |-> [input |-> 3, output |-> 5, cacheRead |-> 1]]

VARIABLES
  part,
  connected, document, overflow, memory, saver, reader, changes, payloads,
  backend, hash, history, clock, call, calm,
  trace, ticks, calls, phase, buffer, remote, reported,
  linked, links, docs, held, post, runs, request, began

R == INSTANCE ResultStore
M == INSTANCE RepoMemory
T == INSTANCE Trace WITH Runs <- Traced, clock <- ticks
J == INSTANCE JobRecords

s == <<connected, document, overflow, memory, saver, reader, changes, payloads>>
m == <<backend, hash, history, clock, call, calm>>
t == <<trace, ticks, calls, phase, buffer, remote, reported>>
j == <<linked, links, docs, held, post, runs, request, began>>

StoresInit ==
  /\ part \in {"budget", "results", "memory", "trace", "records"}
  /\ Init /\ R!Init /\ M!Init /\ T!Init /\ J!Init
  /\ part # "results" => connected
  /\ part # "memory" => backend = "redis"

StoresNext ==
  /\ UNCHANGED part
  /\ \/ part = "budget" /\ Next /\ UNCHANGED <<s, m, t, j>>
     \/ part = "results" /\ R!Next /\ UNCHANGED <<vars, m, t, j>>
     \/ part = "memory" /\ M!Next /\ UNCHANGED <<vars, s, t, j>>
     \/ part = "trace" /\ T!Next /\ UNCHANGED <<vars, s, m, j>>
     \/ part = "records" /\ J!Next /\ UNCHANGED <<vars, s, m, t>>

StoresSpec == StoresInit /\ [][StoresNext]_<<part, vars, s, m, t, j>>

\* What is kept is what was meant to be, and is served for what it is
\* (SplitIsMinimal, PayloadComesFirst, ServedIsHonest; HistoryIsBounded,
\* NewestAreKept, BaselineIsMeant, DiffIsExact; BillIsHonest, ReportAddsUp,
\* BufferIsHonest; UnkeptIsTold, TornReadsOnly, OldErrorsOnly).
StoresAreHonest ==
  /\ part = "results" => R!ResultStoreIsHonest
  /\ part = "memory" => M!RepoMemoryIsHonest
  /\ part = "trace" => T!TraceIsHonest
  /\ part = "records" => J!RecordsAreHonest
=============================================================================
