------------------------------- MODULE RagIndex ------------------------------
(***************************************************************************)
(* Stage `rag` and the index it builds (packages/analyzers/src/stages/rag, *)
(* packages/retrieval/src).  Jobs of one commit share the plan cache, the  *)
(* embedding cache, the budget and one namespace of two stores, which each *)
(* of them drops and fills again in several statements; questions search   *)
(* the same namespace meanwhile, against the metadata of the analysis they *)
(* were asked about.                                                       *)
(***************************************************************************)
EXTENDS ChunkPlan, TLC

CONSTANTS
  Jobs, Questions,
  Version,         \* the release of the chunker each job runs
  Plan,            \* the grounded chunks of each release, in their order
  MaxTexts,        \* texts in one embedding request
  Rows,            \* rows in one INSERT
  TopK,            \* hits of a vector search
  Limit,           \* the daily ceiling, in texts
  MaxAttempts,     \* of one embedding request
  MaxRestarts,     \* of all jobs together
  MaxLost,         \* bound on what replies that are thrown away may cost
  Faults           \* "model", "cache", "store", "budget"

Releases == {Version[j] : j \in Jobs}
ChunksOf(v) == ToSet(Plan[v])
Chunks == UNION {ChunksOf(v) : v \in Releases}

ASSUME RagAssumption ==
  /\ \A v \in Releases : Plan[v] \in Seq(ToSet(Plan[v])) /\ IsInjective(Plan[v])
  /\ Releases \cap {"none", "torn"} = {}
  /\ MaxTexts \in Nat \ {0} /\ Rows \in Nat \ {0} /\ TopK \in Nat \ {0}
  /\ Limit \in Nat /\ MaxAttempts \in Nat \ {0} /\ MaxRestarts \in Nat /\ MaxLost \in Nat
  /\ Faults \subseteq {"model", "cache", "store", "budget"}

VARIABLES
  job,        \* the state of each job's stage
  planned,    \* the releases whose plan the shared cache holds
  embedded,   \* the chunks whose vector the embedding cache holds
  vectors,    \* chunk ids in the namespace of the vector store
  texts,      \* chunk ids in the namespace of the text store
  analyses,   \* the releases an analysis of this commit was stored for
  spent,      \* what the day's counter holds
  question,   \* the state of each question
  restarts,
  \* The rest only observes.
  billed,     \* what the provider charged
  lost,       \* what was charged and not counted: a crash, Redis, a reply thrown away
  unsure,     \* whether the budget went unanswered, or answered while another job spent
  rebuilds,   \* how many times the namespace was dropped
  overlapped, \* whether two jobs rebuilt the namespace at once
  built       \* the release whose rebuild ended last, or "torn"

stores == <<planned, embedded, vectors, texts, analyses, spent>>
watched == <<billed, lost, unsure, overlapped, rebuilds, built>>
vars == <<job, stores, question, restarts, watched>>

Idle == [pc |-> "idle", tree |-> TRUE, at |-> 0, missing |-> <<>>, knew |-> {}, bought |-> {}]
Unasked == [pc |-> "unasked", about |-> "none", hits |-> {}, lexical |-> {},
            lost |-> {}, shown |-> {}, calm |-> FALSE, at |-> 0]

Init ==
  /\ job = [j \in Jobs |-> Idle]
  /\ planned = {} /\ embedded = {} /\ vectors = {} /\ texts = {} /\ analyses = {}
  /\ spent = 0
  /\ question = [q \in Questions |-> Unasked]
  /\ restarts = 0
  /\ billed = 0 /\ lost = 0 /\ unsure = FALSE
  /\ overlapped = FALSE /\ rebuilds = 0 /\ built = "none"

PlanOf(j) == Plan[Version[j]]

Rebuilding == {j \in Jobs : job[j].pc \in {"dropTexts", "putTexts", "upsert"}}

At(j, pc) == job[j].pc = pc
\* The tree is only read by the plan, the misses until the stores are reached.
Goto(j, pc) ==
  job' = [job EXCEPT ![j].pc = pc, ![j].at = 1, ![j].tree = TRUE,
                     ![j].missing = IF pc = "keep" THEN @ ELSE <<>>]

\* A step that throws ends the stage; the run ends "partial", without a slice.
Fail(j) ==
  /\ Goto(j, "failed")
  /\ UNCHANGED <<stores, question, restarts, watched>>

----------------------------------------------------------------------------
(* The plan                                                                 *)

\* A retry of the AI stages alone may run without a working tree.
Start(j) ==
  /\ At(j, "idle")
  /\ \E tree \in BOOLEAN :
       job' = [job EXCEPT ![j] = [Idle EXCEPT !.pc = "plan", !.tree = tree, !.knew = embedded]]
  /\ UNCHANGED <<stores, question, restarts, watched>>

\* Staged by speculation or built from the tree: the same value, written to
\* the cache.  Without a tree, the cache has the plan or the stage throws, as
\* it does when no chunk is left.
MakePlan(j) ==
  /\ At(j, "plan")
  /\ IF job[j].tree
     THEN /\ planned' = planned \cup {Version[j]}
          /\ Goto(j, IF PlanOf(j) = <<>> THEN "failed" ELSE "readCache")
     ELSE /\ Goto(j, IF Version[j] \notin planned \/ PlanOf(j) = <<>> THEN "failed" ELSE "readCache")
          /\ UNCHANGED planned
  /\ UNCHANGED <<embedded, vectors, texts, analyses, spent, question, restarts, watched>>

\* cache.get and cache.set reject when Mongo does not answer.
CacheFails(j) ==
  /\ "cache" \in Faults
  /\ job[j].pc \in {"plan", "readCache", "keep"}
  /\ Fail(j)

----------------------------------------------------------------------------
(* embedChunks                                                              *)

\* The embedding cache is read one chunk after another.
ReadCache(j) ==
  /\ At(j, "readCache")
  /\ LET i == job[j].at
         missing == IF PlanOf(j)[i] \in embedded THEN job[j].missing
                    ELSE Append(job[j].missing, i)
     IN job' = [job EXCEPT ![j].missing = missing,
                           ![j].at = IF i < Len(PlanOf(j)) THEN i + 1 ELSE 1,
                           ![j].pc = IF i < Len(PlanOf(j)) THEN "readCache"
                                     ELSE IF missing = <<>> THEN "dropVectors" ELSE "check"]
  /\ UNCHANGED <<stores, question, restarts, watched>>

Open(j) == job' = [job EXCEPT ![j].pc = "embed"]

Spending == {j \in Jobs : job[j].pc \in {"embed", "record", "keep"}}

MayEmbed(j) == spent + Len(job[j].missing) <= Limit

\* Only the misses are asked for.  A Redis that does not answer lets them through.
Check(j) ==
  /\ At(j, "check")
  /\ \/ MayEmbed(j) /\ Open(j) /\ unsure' = (unsure \/ Spending # {})
     \/ ~MayEmbed(j) /\ Goto(j, "failed") /\ UNCHANGED unsure
     \/ "budget" \in Faults /\ Open(j) /\ unsure' = TRUE
  /\ UNCHANGED <<stores, question, restarts, billed, lost, overlapped, rebuilds, built>>

\* A request takes the first of what is missing, as many texts as it may hold.
Size(j) == Min({MaxTexts, Len(job[j].missing)})
Batch(j) == {PlanOf(j)[job[j].missing[i]] : i \in 1..Size(j)}

\* What failed attempts may have cost: a client sends a batch in parts of its
\* own, and rejects a reply whose vectors do not match, after the provider
\* charged for it (embeddingClient.ts).  Their usage is thrown away.
Thrown(j, attempts) ==
  {cost \in 0..(attempts * Size(j)) :
     cost > 0 => "model" \in Faults /\ lost + cost <= MaxLost}

\* embedWithRetry: one of its attempts answers.
Embed(j) ==
  /\ At(j, "embed")
  /\ job' = [job EXCEPT ![j].pc = "record", ![j].bought = @ \cup Batch(j)]
  /\ \E cost \in Thrown(j, MaxAttempts - 1) :
       /\ billed' = billed + Cardinality(Batch(j)) + cost
       /\ lost' = lost + cost
  /\ UNCHANGED <<stores, question, restarts, unsure, overlapped, rebuilds, built>>

\* Mutant: the stage asks again until the provider answers.
EmbedFailsForEver(j) ==
  /\ "model" \in Faults /\ At(j, "embed")
  /\ job' = [job EXCEPT ![j].pc = "check"]
  /\ UNCHANGED <<stores, question, restarts, watched>>

\* None of its attempts does; the spend of the requests before it stands.
EmbedFails(j) ==
  /\ "model" \in Faults /\ At(j, "embed")
  /\ Goto(j, "failed")
  /\ \E cost \in Thrown(j, MaxAttempts) : billed' = billed + cost /\ lost' = lost + cost
  /\ UNCHANGED <<stores, question, restarts, unsure, overlapped, rebuilds, built>>

\* Mutant: the usage is summed, and recorded with the last request.
RecordAtTheEnd(j) ==
  /\ At(j, "record")
  /\ Goto(j, "keep")
  /\ spent' = IF Len(job[j].missing) <= MaxTexts THEN spent + Cardinality(job[j].bought) ELSE spent
  /\ UNCHANGED <<planned, embedded, vectors, texts, analyses, question, restarts, watched>>

\* Each request is charged when it returns.  The count is lost, silently, when
\* Redis does not answer.
Record(j) ==
  /\ At(j, "record")
  /\ Goto(j, "keep")
  /\ \/ spent' = spent + Cardinality(Batch(j)) /\ UNCHANGED <<lost, unsure>>
     \/ /\ "budget" \in Faults
        /\ lost' = lost + Cardinality(Batch(j)) /\ unsure' = TRUE /\ UNCHANGED spent
  /\ UNCHANGED <<planned, embedded, vectors, texts, analyses, question, restarts,
                 billed, overlapped, rebuilds, built>>

\* The vectors of a request are cached one by one, then the next is sent.
Keep(j) ==
  /\ At(j, "keep")
  /\ LET missing == job[j].missing
         more == job[j].at < Size(j)
         rest == SubSeq(missing, Size(j) + 1, Len(missing))
     IN /\ embedded' = embedded \cup {PlanOf(j)[missing[job[j].at]]}
        /\ job' = [job EXCEPT ![j].at = IF more THEN @ + 1 ELSE 1,
                              ![j].missing = IF more THEN @ ELSE rest,
                              ![j].pc = IF more THEN "keep"
                                        ELSE IF rest = <<>> THEN "dropVectors" ELSE "embed"]
  /\ UNCHANGED <<planned, vectors, texts, analyses, spent, question, restarts, watched>>

----------------------------------------------------------------------------
(* The stores: drop both, then the texts, then the vectors                  *)

DropVectors(j) ==
  /\ At(j, "dropVectors")
  /\ vectors' = {}
  /\ Goto(j, "dropTexts")
  /\ overlapped' = (Rebuilding # {}) /\ rebuilds' = rebuilds + 1 /\ built' = "torn"
  /\ UNCHANGED <<planned, embedded, texts, analyses, spent, question, restarts, billed, lost, unsure>>

DropTexts(j) ==
  /\ At(j, "dropTexts")
  /\ texts' = {}
  /\ Goto(j, "putTexts")
  /\ UNCHANGED <<planned, embedded, vectors, analyses, spent, question, restarts, watched>>

\* The rows one INSERT writes, from row `at` of the plan.
RowsFrom(j) ==
  {PlanOf(j)[i] : i \in job[j].at .. Min({job[j].at + Rows - 1, Len(PlanOf(j))})}

Onward(j, pc, then) ==
  job' = [job EXCEPT ![j].at = IF @ + Rows <= Len(PlanOf(j)) THEN @ + Rows ELSE 1,
                     ![j].pc = IF job[j].at + Rows <= Len(PlanOf(j)) THEN pc ELSE then]

\* Mutant: the search can see the rows before their text.
PutVectorsFirst(j) ==
  /\ At(j, "putTexts")
  /\ vectors' = vectors \cup RowsFrom(j)
  /\ Onward(j, "putTexts", "upsert")
  /\ UNCHANGED <<planned, embedded, texts, analyses, spent, question, restarts, watched>>

PutTexts(j) ==
  /\ At(j, "putTexts")
  /\ texts' = texts \cup RowsFrom(j)
  /\ Onward(j, "putTexts", "upsert")
  /\ UNCHANGED <<planned, embedded, vectors, analyses, spent, question, restarts, watched>>

Upsert(j) ==
  /\ At(j, "upsert")
  /\ vectors' = vectors \cup RowsFrom(j)
  /\ Onward(j, "upsert", "done")
  /\ built' = IF job[j].at + Rows <= Len(PlanOf(j)) THEN built ELSE Version[j]
  /\ UNCHANGED <<planned, embedded, texts, analyses, spent, question, restarts,
                 billed, lost, unsure, overlapped, rebuilds>>

StoreFails(j) ==
  /\ "store" \in Faults
  /\ job[j].pc \in {"dropVectors", "dropTexts", "putTexts", "upsert"}
  /\ Fail(j)

\* The run ends and its analysis, with the slice, is stored.
Publish(j) ==
  /\ At(j, "done")
  /\ Goto(j, "published")
  /\ analyses' = analyses \cup {Version[j]}
  /\ UNCHANGED <<planned, embedded, vectors, texts, spent, question, restarts, watched>>

----------------------------------------------------------------------------
(* Restarts: a worker dies at any step, or a failed job is run again        *)

Restart(j) ==
  /\ restarts < MaxRestarts
  /\ job[j].pc \notin {"idle", "published"}
  /\ restarts' = restarts + 1
  /\ lost' = lost + (IF At(j, "record") THEN Cardinality(Batch(j)) ELSE 0)
  /\ job' = [job EXCEPT ![j] = Idle]
  /\ UNCHANGED <<stores, question, billed, unsure, overlapped, rebuilds, built>>

----------------------------------------------------------------------------
(* Questions (hybridSearch)                                                 *)

Ask(q) ==
  /\ question[q].pc = "unasked"
  /\ \E v \in analyses :
       question' = [question EXCEPT ![q].pc = "search", ![q].about = v,
                                    ![q].calm = (~overlapped /\ built = v),
                                    ![q].at = IF ~overlapped /\ built = v THEN rebuilds ELSE 0]
  /\ UNCHANGED <<job, stores, restarts, watched>>

\* The best rows of the namespace; the question is refused when there is
\* none, or the best of them is below the floor.
Search(q) ==
  /\ question[q].pc = "search"
  /\ \/ \E hits \in SUBSET vectors :
          /\ Cardinality(hits) = Min({TopK, Cardinality(vectors)}) /\ hits # {}
          /\ question' = [question EXCEPT ![q].pc = "lexical", ![q].hits = hits]
     \/ question' = [question EXCEPT ![q] = [Unasked EXCEPT !.pc = "refused"]]
  /\ UNCHANGED <<job, stores, restarts, watched>>

\* The chunks of the analysis that have a text, and share a term with the question.
Lexical(q) ==
  /\ question[q].pc = "lexical"
  /\ \E matches \in SUBSET (ChunksOf(question[q].about) \cap texts) :
       question' = [question EXCEPT ![q].pc = "texts", ![q].lexical = matches]
  /\ UNCHANGED <<job, stores, restarts, watched>>

Candidates(q) == question[q].hits \cup question[q].lexical

\* Rows the metadata does not know are dropped, and those without a text.
Resolve(q) ==
  /\ question[q].pc = "texts"
  /\ LET shown == Candidates(q) \cap ChunksOf(question[q].about) \cap texts
     IN question' = [question EXCEPT ![q].pc = "answered", ![q].shown = shown,
                                     ![q].hits = {}, ![q].lexical = {}, ![q].at = 0,
                                     ![q].calm = @ /\ question[q].at = rebuilds,
                                     ![q].lost = Candidates(q) \ shown]
  /\ UNCHANGED <<job, stores, restarts, watched>>

----------------------------------------------------------------------------

JobStep(j) ==
  \/ Start(j) \/ MakePlan(j) \/ CacheFails(j)
  \/ ReadCache(j) \/ Check(j) \/ Embed(j) \/ EmbedFails(j) \/ Record(j) \/ Keep(j)
  \/ DropVectors(j) \/ DropTexts(j) \/ PutTexts(j) \/ Upsert(j) \/ StoreFails(j)
  \/ Publish(j)

QuestionStep(q) == Ask(q) \/ Search(q) \/ Lexical(q) \/ Resolve(q)

Next ==
  \/ \E j \in Jobs : JobStep(j) \/ Restart(j)
  \/ \E q \in Questions : QuestionStep(q)

\* A stage that runs goes on, and so does a question that was asked.
Fairness ==
  /\ \A j \in Jobs : WF_vars(JobStep(j))
  /\ \A q \in Questions : WF_vars(Search(q) \/ Lexical(q) \/ Resolve(q))

Spec == Init /\ [][Next]_vars /\ Fairness

----------------------------------------------------------------------------
(* Properties                                                               *)

\* Types (rag.ts:192, shared-types:897).
TypeOK ==
  /\ \A j \in Jobs :
       /\ job[j].pc \in {"idle", "plan", "readCache", "check", "embed", "record", "keep",
                         "dropVectors", "dropTexts", "putTexts", "upsert", "done",
                         "published", "failed"}
       /\ ToSet(job[j].missing) \subseteq DOMAIN PlanOf(j)
       /\ job[j].knew \subseteq Chunks /\ job[j].bought \subseteq Chunks
  /\ planned \subseteq Releases /\ analyses \subseteq Releases
  /\ embedded \subseteq Chunks /\ vectors \subseteq Chunks /\ texts \subseteq Chunks
  /\ \A q \in Questions : question[q].shown \cup question[q].hits \subseteq Chunks
  /\ spent \in 0..billed /\ lost \in 0..billed /\ restarts \in 0..MaxRestarts

InFlight == {j \in Jobs : At(j, "record")}

\* The texts of the requests that were answered and are not yet recorded.
Unrecorded == UNION {{j} \X Batch(j) : j \in InFlight}

\* Whatever the provider charged is on the day's counter, but for the request
\* that is being recorded and what a crash, Redis or a rejected reply lost: a
\* later request of the same stage that fails takes nothing of the earlier ones
\* away (rag.ts:666-669).
SpendIsCharged == billed = spent + lost + Cardinality(Unrecorded)

\* A vector the cache held when the stage began is never bought, also by a
\* stage that runs again after one that failed half way (rag.ts:642-658).
CachedIsFree == \A j \in Jobs : job[j].bought \cap job[j].knew = {}

\* Whenever a stage has paid, its plan is in the shared cache: a retry
\* without a working tree can be carried through (rag.ts:242-245).
PlanSurvives == \A j \in Jobs : job[j].bought # {} => Version[j] \in planned

\* Jobs that embed one after another never pass the ceiling, whatever they
\* fail at and however they are run again, but for what a crash or a rejected
\* reply lost (rag.ts:650-656).
CeilingHolds == ~unsure => billed <= Limit + lost

\* As long as one job rebuilds at a time, and wherever it dies, no row can be
\* found whose text is missing (rag.ts:107-113, 295-310).
TextFirst == ~overlapped => vectors \subseteq texts

\* After a rebuild that met no other and ended, the namespace holds exactly
\* the plan of the release that built it (rag.ts:292-294).
IndexIsWhole ==
  ~overlapped /\ built \in Releases => vectors = ChunksOf(built) /\ texts = ChunksOf(built)

\* What a question is shown are chunks of the analysis it is about, whatever
\* release rebuilt the namespace since it was stored (hybridSearch.ts:173-180).
ShownIsOfTheAnalysis ==
  \A q \in Questions : question[q].shown # {} => question[q].shown \subseteq ChunksOf(question[q].about)

\* A question that began on a whole index of its release, and that no rebuild
\* met, resolves every row it found (hybridSearch.ts:171-194).
CalmQuestionsLoseNothing ==
  \A q \in Questions : question[q].pc = "answered" /\ question[q].calm => question[q].lost = {}

\* Every stage ends, and every question that was asked is answered or refused.
RagEnds ==
  /\ \A j \in Jobs : <>[](job[j].pc \in {"published", "failed"})
  /\ \A q \in Questions :
       question[q].pc = "search" ~> question[q].pc \in {"answered", "refused"}

\* What indexing costs: charged, never paid twice, and within the ceiling.
SpendIsHeld == TypeOK /\ SpendIsCharged /\ CachedIsFree /\ PlanSurvives /\ CeilingHolds

\* What a question finds: text for every vector, one release's whole plan, and
\* chunks of its own analysis.
IndexIsSound == TextFirst /\ IndexIsWhole /\ ShownIsOfTheAnalysis /\ CalmQuestionsLoseNothing
=============================================================================
