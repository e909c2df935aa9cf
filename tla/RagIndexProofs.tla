---------------------------- MODULE RagIndexProofs ----------------------------
(***************************************************************************)
(* What the index promises to the questions that search it, for any number *)
(* of jobs and questions, any plans, any sizes of the inserts, and jobs    *)
(* that fail, die and are run again at any step; and what indexing costs:  *)
(* what is charged, what is never bought twice, and the ceiling.           *)
(***************************************************************************)
EXTENDS RagIndex, FiniteSetTheorems, TLAPS

\* The first n chunks of the plan of a job.
FirstOf(j, n) == {PlanOf(j)[i] : i \in {i \in DOMAIN PlanOf(j) : i <= n}}

AllOf(j) == ChunksOf(Version[j])

\* Where a stage is, and the shape of its record.
JobPc == {"idle", "plan", "readCache", "check", "embed", "record", "keep",
          "dropVectors", "dropTexts", "putTexts", "upsert", "done", "published", "failed"}
JobShape(x) ==
  DOMAIN x = {"pc", "tree", "at", "missing", "knew", "bought"} /\ x.pc \in JobPc

AskedShape(x) ==
  /\ DOMAIN x = {"pc", "about", "hits", "lexical", "lost", "shown", "calm", "at"}
  /\ x.at \in Nat /\ x.calm \in BOOLEAN
  /\ x.pc \in {"unasked", "search", "lexical", "texts", "answered", "refused"}
  /\ x.pc \in {"unasked", "search"} => x.hits = {} /\ x.lexical = {}
  /\ x.pc = "search" => x.shown = {}
  /\ x.pc = "unasked" => x.shown = {}

Shapes ==
  /\ DOMAIN job = Jobs /\ \A j \in Jobs : JobShape(job[j])
  /\ DOMAIN question = Questions /\ \A q \in Questions : AskedShape(question[q])
  /\ overlapped \in BOOLEAN /\ rebuilds \in Nat
  /\ analyses \subseteq Releases

\* A job that writes rows is at a row of its plan.
RowInv ==
  \A j \in Jobs : job[j].pc \in {"putTexts", "upsert"} => job[j].at \in DOMAIN PlanOf(j)

\* A stage that goes on after its plan has chunks to index.
PlanInv ==
  \A j \in Jobs : job[j].pc \in {"readCache", "check", "embed", "record", "keep", "dropVectors",
                                  "dropTexts", "putTexts", "upsert"} => PlanOf(j) # <<>>

\* What a job that rebuilds alone has made of the two stores.
StoresInv ==
  ~overlapped =>
    /\ \A i, j \in Rebuilding : i = j
    /\ \A j \in Rebuilding :
         /\ built = "torn"
         /\ job[j].pc = "dropTexts" => vectors = {}
         /\ job[j].pc = "putTexts" => vectors = {} /\ texts = FirstOf(j, job[j].at - 1)
         /\ job[j].pc = "upsert" => texts = AllOf(j) /\ vectors = FirstOf(j, job[j].at - 1)
    /\ vectors \subseteq texts
    /\ built \in Releases => vectors = ChunksOf(built) /\ texts = ChunksOf(built)

\* What a question may rely on while no rebuild met it.
CalmInv ==
  \A q \in Questions :
    /\ question[q].at <= rebuilds
    /\ (question[q].pc \in {"search", "lexical", "texts"} /\ question[q].calm
          /\ question[q].at = rebuilds) =>
         /\ ~overlapped /\ built = question[q].about /\ built \in Releases
         /\ question[q].hits \cup question[q].lexical \subseteq ChunksOf(built)

IndexInv ==
  /\ Shapes /\ PlanInv /\ RowInv /\ StoresInv /\ CalmInv
  /\ ShownIsOfTheAnalysis /\ CalmQuestionsLoseNothing

----------------------------------------------------------------------------
(* The plan and its rows                                                    *)

\* The plan of a job's release is a sequence.
LEMMA PlanIsASequence ==
  ASSUME NEW j \in Jobs
  PROVE  /\ Len(PlanOf(j)) \in Nat /\ DOMAIN PlanOf(j) = 1..Len(PlanOf(j))
         /\ PlanOf(j) # <<>> => 1 \in DOMAIN PlanOf(j)
         /\ Version[j] \in Releases
<1>1. Version[j] \in Releases
  BY DEF Releases
<1>2. PICK S : PlanOf(j) \in Seq(S)
  BY <1>1, RagAssumption DEF PlanOf
<1>3. Len(PlanOf(j)) = 0 => PlanOf(j) = <<>>
  BY <1>2
<1> QED BY <1>1, <1>2, <1>3

\* The smaller of two numbers.
LEMMA MinOfTwo ==
  ASSUME NEW a \in Int, NEW b \in Int
  PROVE  Min({a, b}) = IF a <= b THEN a ELSE b
BY DEF Min

\* All rows are the first Len rows; no row is before the first.
LEMMA FirstRows ==
  ASSUME NEW j \in Jobs
  PROVE  /\ FirstOf(j, 0) = {}
         /\ AllOf(j) = FirstOf(j, Len(PlanOf(j)))
         /\ \A n \in Int : FirstOf(j, n) \subseteq AllOf(j)
<1>1. AllOf(j) = {PlanOf(j)[i] : i \in DOMAIN PlanOf(j)}
  BY DEF AllOf, ChunksOf, ToSet, PlanOf
<1> QED BY <1>1, PlanIsASequence DEF FirstOf

\* One INSERT carries the rows on, and the last one completes the plan.
LEMMA RowsGoOn ==
  ASSUME NEW j \in Jobs, job[j].at \in DOMAIN PlanOf(j)
  PROVE  FirstOf(j, job[j].at - 1) \cup RowsFrom(j) =
           IF job[j].at + Rows <= Len(PlanOf(j)) THEN FirstOf(j, job[j].at + Rows - 1) ELSE AllOf(j)
<1> DEFINE n == Len(PlanOf(j))
           a == job[j].at
           top == IF a + Rows - 1 <= n THEN a + Rows - 1 ELSE n
<1>1. n \in Nat /\ DOMAIN PlanOf(j) = 1..n /\ a \in 1..n /\ Rows \in Nat \ {0}
  BY PlanIsASequence, RagAssumption
<1>2. RowsFrom(j) = {PlanOf(j)[i] : i \in a .. top}
  <2>1. Min({a + Rows - 1, n}) = top
    BY <1>1, MinOfTwo
  <2> QED BY <2>1 DEF RowsFrom
<1>3. FirstOf(j, a - 1) \cup RowsFrom(j) = FirstOf(j, top)
  BY <1>1, <1>2 DEF FirstOf
<1>4. a + Rows <= n => top = a + Rows - 1
  BY <1>1
<1>5. ~(a + Rows <= n) => top = n
  BY <1>1
<1> QED BY <1>3, <1>4, <1>5, FirstRows

----------------------------------------------------------------------------
(* Steps of a job                                                           *)

\* A step of one job is no step of another.
LEMMA JobMoves ==
  ASSUME Shapes, NEW j \in Jobs, NEW e, JobShape(e), job' = [job EXCEPT ![j] = e]
  PROVE  /\ DOMAIN job' = Jobs /\ job'[j] = e
         /\ \A i \in Jobs : i # j => job'[i] = job[i]
         /\ \A i \in Jobs : JobShape(job'[i])
BY DEF Shapes

\* A job that moves on keeps its shape.
LEMMA GotoMoves ==
  ASSUME Shapes, NEW j \in Jobs, NEW pc \in JobPc, Goto(j, pc)
  PROVE  \E e : JobShape(e) /\ e.pc = pc /\ e.at = 1 /\ job' = [job EXCEPT ![j] = e]
<1> DEFINE e == [job[j] EXCEPT !.pc = pc, !.at = 1, !.tree = TRUE,
                               !.missing = IF pc = "keep" THEN job[j].missing ELSE <<>>]
<1>1. job' = [job EXCEPT ![j] = e]
  BY DEF Goto
<1>2. JobShape(e) /\ e.pc = pc /\ e.at = 1
  BY DEF Shapes, JobShape
<1> QED BY <1>1, <1>2

Outside == JobPc \ {"dropTexts", "putTexts", "upsert"}
Planned == {"readCache", "check", "embed", "record", "keep", "dropVectors",
            "dropTexts", "putTexts", "upsert"}

\* A job that touches neither store, and is not rebuilding afterwards.
LEMMA QuietStep ==
  ASSUME IndexInv, NEW j \in Jobs, NEW e, JobShape(e), job' = [job EXCEPT ![j] = e],
         e.pc \in Outside, e.pc \in Planned => PlanOf(j) # <<>>,
         UNCHANGED <<vectors, texts, question, overlapped, rebuilds, built>>,
         analyses' \subseteq Releases
  PROVE  IndexInv'
<1>1. /\ DOMAIN job' = Jobs /\ job'[j] = e
      /\ \A i \in Jobs : i # j => job'[i] = job[i]
      /\ \A i \in Jobs : JobShape(job'[i])
  BY JobMoves DEF IndexInv
<1>2. Shapes'
  BY <1>1 DEF IndexInv, Shapes
<1>3. PlanInv' /\ RowInv'
  BY <1>1 DEF IndexInv, PlanInv, RowInv, Outside, Planned, PlanOf
<1>4. Rebuilding' = Rebuilding \ {j} /\ \A i \in Rebuilding' : job'[i] = job[i]
  BY <1>1 DEF Rebuilding, Outside
<1>5. StoresInv'
  BY <1>4 DEF IndexInv, StoresInv, FirstOf, AllOf, PlanOf
<1>6. CalmInv' /\ ShownIsOfTheAnalysis' /\ CalmQuestionsLoseNothing'
  BY DEF IndexInv, CalmInv, ShownIsOfTheAnalysis, CalmQuestionsLoseNothing
<1> QED BY <1>2, <1>3, <1>5, <1>6 DEF IndexInv

\* The same, for a job that goes to another place.
LEMMA QuietGoto ==
  ASSUME IndexInv, NEW j \in Jobs, NEW pc \in Outside, Goto(j, pc),
         pc \in Planned => PlanOf(j) # <<>>,
         UNCHANGED <<vectors, texts, question, overlapped, rebuilds, built>>,
         analyses' \subseteq Releases
  PROVE  IndexInv'
<1>1. PICK e : JobShape(e) /\ e.pc = pc /\ job' = [job EXCEPT ![j] = e]
  BY GotoMoves DEF IndexInv, Outside
<1> QED BY <1>1, QuietStep

USE DEF At

\* A job that fails leaves the index as it is.
LEMMA Failing == ASSUME IndexInv, NEW j \in Jobs, Fail(j) PROVE IndexInv'
<1>1. "failed" \in Outside /\ "failed" \notin Planned
  BY DEF Outside, Planned, JobPc
<1> QED BY <1>1, QuietGoto DEF Fail, stores, watched, IndexInv, Shapes

\* Everything a job does before and after the stores.
LEMMA OutsideStep ==
  ASSUME IndexInv, NEW j \in Jobs,
         \/ Start(j) \/ MakePlan(j) \/ ReadCache(j) \/ Check(j) \/ Embed(j)
         \/ Record(j) \/ Keep(j) \/ Publish(j) \/ Restart(j)
  PROVE  IndexInv'
<1> DEFINE x == job[j]
<1>0. /\ JobShape(x) /\ analyses \subseteq Releases
      /\ x.pc \in Planned => PlanOf(j) # <<>>
  BY DEF IndexInv, Shapes, PlanInv, Planned
<1>1. CASE Start(j)
  <2>1. PICK tree : job' = [job EXCEPT ![j] =
                      [Idle EXCEPT !.pc = "plan", !.tree = tree, !.knew = embedded]]
    BY <1>1 DEF Start
  <2> DEFINE e == [Idle EXCEPT !.pc = "plan", !.tree = tree, !.knew = embedded]
  <2>2. JobShape(e) /\ e.pc \in Outside /\ e.pc \notin Planned
    BY DEF JobShape, Idle, JobPc, Outside, Planned
  <2> HIDE DEF e
  <2> QED BY <1>0, <1>1, <2>1, <2>2, QuietStep DEF Start, stores, watched, e
<1>2. CASE MakePlan(j)
  <2>1. PICK pc \in {"failed", "readCache"} : Goto(j, pc) /\ (pc = "readCache" => PlanOf(j) # <<>>)
    BY <1>2 DEF MakePlan
  <2> QED BY <1>0, <1>2, <2>1, QuietGoto DEF MakePlan, watched, Outside, JobPc, Planned
<1>3. CASE ReadCache(j)
  <2> DEFINE more == x.at < Len(PlanOf(j))
             missing == IF PlanOf(j)[x.at] \in embedded THEN x.missing ELSE Append(x.missing, x.at)
             e == [x EXCEPT !.missing = missing,
                            !.at = IF more THEN x.at + 1 ELSE 1,
                            !.pc = IF more THEN "readCache"
                                   ELSE IF missing = <<>> THEN "dropVectors" ELSE "check"]
  <2>2. JobShape(e) /\ e.pc \in Outside
    BY <1>0 DEF JobShape, JobPc, Outside
  <2>3. job' = [job EXCEPT ![j] = e]
    BY <1>3 DEF ReadCache
  <2>4. PlanOf(j) # <<>>
    BY <1>0, <1>3 DEF ReadCache, Planned
  <2> HIDE DEF e
  <2> QED BY <1>0, <1>3, <2>2, <2>3, <2>4, QuietStep DEF ReadCache, stores, watched
<1>4. CASE Check(j)
  <2>0. PlanOf(j) # <<>>
    BY <1>0, <1>4 DEF Check, Planned
  <2>1. CASE Open(j)
    <3> DEFINE e == [x EXCEPT !.pc = "embed"]
    <3>2. JobShape(e) /\ e.pc \in Outside
      BY <1>0 DEF JobShape, JobPc, Outside
    <3>3. job' = [job EXCEPT ![j] = e]
      BY <2>1 DEF Open
    <3> HIDE DEF e
    <3> QED BY <1>0, <1>4, <2>0, <3>2, <3>3, QuietStep DEF Check, stores
  <2>2. CASE Goto(j, "failed")
    BY <1>0, <1>4, <2>0, <2>2, QuietGoto DEF Check, stores, Outside, JobPc
  <2> QED BY <1>4, <2>1, <2>2 DEF Check
<1>5. CASE Embed(j)
  <2> DEFINE e == [x EXCEPT !.pc = "record", !.bought = @ \cup Batch(j)]
  <2>1. JobShape(e) /\ e.pc \in Outside
    BY <1>0 DEF JobShape, JobPc, Outside
  <2>2. job' = [job EXCEPT ![j] = e]
    BY <1>5 DEF Embed
  <2>3. PlanOf(j) # <<>>
    BY <1>0, <1>5 DEF Embed, Planned
  <2> HIDE DEF e
  <2> QED BY <1>0, <1>5, <2>1, <2>2, <2>3, QuietStep DEF Embed, stores
<1>6. CASE Record(j)
  <2>1. PlanOf(j) # <<>>
    BY <1>0, <1>6 DEF Record, Planned
  <2> QED BY <1>0, <1>6, <2>1, QuietGoto DEF Record, Outside, JobPc
<1>7. CASE Keep(j)
  <2> DEFINE rest == SubSeq(x.missing, Size(j) + 1, Len(x.missing))
             more == x.at < Size(j)
             e == [x EXCEPT !.at = IF more THEN x.at + 1 ELSE 1,
                            !.missing = IF more THEN x.missing ELSE rest,
                            !.pc = IF more THEN "keep"
                                   ELSE IF rest = <<>> THEN "dropVectors" ELSE "embed"]
  <2>2. JobShape(e) /\ e.pc \in Outside
    BY <1>0 DEF JobShape, JobPc, Outside
  <2>3. job' = [job EXCEPT ![j] = e]
    BY <1>7 DEF Keep
  <2>4. PlanOf(j) # <<>>
    BY <1>0, <1>7 DEF Keep, Planned
  <2> HIDE DEF e
  <2> QED BY <1>0, <1>7, <2>2, <2>3, <2>4, QuietStep DEF Keep, watched
<1>8. CASE Publish(j)
  <2>1. analyses' \subseteq Releases
    BY <1>0, <1>8, PlanIsASequence DEF Publish
  <2> QED BY <1>8, <2>1, QuietGoto DEF Publish, watched, Outside, JobPc, Planned
<1>9. CASE Restart(j)
  <2>1. JobShape(Idle) /\ Idle.pc \in Outside /\ Idle.pc \notin Planned
    BY DEF JobShape, Idle, JobPc, Outside, Planned
  <2>2. job' = [job EXCEPT ![j] = Idle]
    BY <1>9 DEF Restart
  <2> HIDE DEF Idle
  <2> QED BY <1>0, <1>9, <2>1, <2>2, QuietStep DEF Restart, stores
<1> QED BY <1>1, <1>2, <1>3, <1>4, <1>5, <1>6, <1>7, <1>8, <1>9

----------------------------------------------------------------------------
(* The stores                                                               *)

\* A job that drops or writes moves among the rebuilding ones, and questions
\* stay as they are.
LEMMA RebuildMoves ==
  ASSUME IndexInv, NEW j \in Jobs, NEW e, JobShape(e), job' = [job EXCEPT ![j] = e],
         e.pc \in Planned => PlanOf(j) # <<>>,
         e.pc \in {"putTexts", "upsert"} => e.at \in DOMAIN PlanOf(j),
         UNCHANGED <<question, analyses>>, overlapped' \in BOOLEAN, rebuilds' \in Nat
  PROVE  /\ Shapes' /\ PlanInv' /\ RowInv'
         /\ ShownIsOfTheAnalysis' /\ CalmQuestionsLoseNothing'
         /\ job'[j] = e /\ \A i \in Jobs : i # j => job'[i] = job[i]
<1>1. /\ DOMAIN job' = Jobs /\ job'[j] = e
      /\ \A i \in Jobs : i # j => job'[i] = job[i]
      /\ \A i \in Jobs : JobShape(job'[i])
  BY JobMoves DEF IndexInv
<1>2. Shapes'
  BY <1>1 DEF IndexInv, Shapes
<1>3. PlanInv' /\ RowInv'
  BY <1>1 DEF IndexInv, PlanInv, RowInv, Planned, PlanOf
<1>4. ShownIsOfTheAnalysis' /\ CalmQuestionsLoseNothing'
  BY DEF IndexInv, ShownIsOfTheAnalysis, CalmQuestionsLoseNothing
<1> QED BY <1>1, <1>2, <1>3, <1>4

\* No question is calm while a job rebuilds, or another one did since.
LEMMA CalmGoesOn ==
  ASSUME CalmInv, Shapes, question' = question, rebuilds' = rebuilds, overlapped' = overlapped,
         built' = built \/ built = "torn"
  PROVE  CalmInv'
<1> SUFFICES ASSUME NEW q \in Questions,
                    question[q].pc \in {"search", "lexical", "texts"}, question[q].calm,
                    question[q].at = rebuilds
             PROVE  /\ ~overlapped /\ built' = question[q].about /\ built' \in Releases
                    /\ question[q].hits \cup question[q].lexical \subseteq ChunksOf(built')
  BY DEF CalmInv
<1>1. ~overlapped /\ built = question[q].about /\ built \in Releases
      /\ question[q].hits \cup question[q].lexical \subseteq ChunksOf(built)
  BY DEF CalmInv
<1>2. built' = built
  BY <1>1, RagAssumption
<1> QED BY <1>1, <1>2

\* A rebuild begins with the vectors: none is left without its text.
LEMMA DropVectorsStep == ASSUME IndexInv, NEW j \in Jobs, DropVectors(j) PROVE IndexInv'
<1>1. PICK e : JobShape(e) /\ e.pc = "dropTexts" /\ job' = [job EXCEPT ![j] = e]
  BY GotoMoves DEF IndexInv, DropVectors, JobPc
<1>2. PlanOf(j) # <<>>
  BY DEF IndexInv, PlanInv, DropVectors
<1>3. /\ Shapes' /\ PlanInv' /\ RowInv'
      /\ ShownIsOfTheAnalysis' /\ CalmQuestionsLoseNothing'
      /\ job'[j] = e /\ \A i \in Jobs : i # j => job'[i] = job[i]
  <2>1. overlapped' \in BOOLEAN /\ rebuilds' \in Nat /\ UNCHANGED <<question, analyses>>
    BY DEF DropVectors, IndexInv, Shapes
  <2> QED BY <1>1, <1>2, <2>1, RebuildMoves
<1>4. Rebuilding' = Rebuilding \cup {j}
  BY <1>1, <1>3 DEF Rebuilding
<1>5. StoresInv'
  <2> SUFFICES ASSUME ~overlapped' PROVE StoresInv'
    BY DEF StoresInv
  <2>1. Rebuilding' = {j}
    BY <1>4 DEF DropVectors
  <2>2. built' = "torn" /\ built' \notin Releases /\ vectors' = {}
    BY RagAssumption DEF DropVectors
  <2> QED BY <1>1, <1>3, <2>1, <2>2 DEF StoresInv
<1>6. CalmInv'
  <2>1. \A q \in Questions : question[q].at \in Nat /\ question[q].at <= rebuilds
    BY DEF IndexInv, CalmInv, Shapes, AskedShape
  <2>2. rebuilds \in Nat /\ rebuilds' = rebuilds + 1 /\ question' = question
    BY DEF DropVectors, IndexInv, Shapes
  <2> QED BY <2>1, <2>2 DEF CalmInv
<1> QED BY <1>3, <1>5, <1>6 DEF IndexInv

\* While a single job rebuilds, it is this one.
LEMMA Alone ==
  ASSUME StoresInv, ~overlapped, NEW j \in Rebuilding
  PROVE  Rebuilding = {j} /\ built = "torn" /\ built \notin Releases
BY RagAssumption DEF StoresInv

\* The texts go when the vectors have gone, or another job is at it too.
LEMMA DropTextsStep == ASSUME IndexInv, NEW j \in Jobs, DropTexts(j) PROVE IndexInv'
<1>1. PICK e : JobShape(e) /\ e.pc = "putTexts" /\ e.at = 1 /\ job' = [job EXCEPT ![j] = e]
  BY GotoMoves DEF IndexInv, DropTexts, JobPc
<1>2. PlanOf(j) # <<>> /\ 1 \in DOMAIN PlanOf(j)
  BY PlanIsASequence DEF IndexInv, PlanInv, DropTexts
<1>3. /\ Shapes' /\ PlanInv' /\ RowInv'
      /\ ShownIsOfTheAnalysis' /\ CalmQuestionsLoseNothing'
      /\ job'[j] = e /\ \A i \in Jobs : i # j => job'[i] = job[i]
  BY <1>1, <1>2, RebuildMoves DEF DropTexts, IndexInv, Shapes, watched
<1>4. j \in Rebuilding /\ Rebuilding' = Rebuilding
  BY <1>1, <1>3 DEF Rebuilding, DropTexts
<1>5. StoresInv'
  <2> SUFFICES ASSUME ~overlapped PROVE StoresInv'
    BY DEF StoresInv, DropTexts, watched
  <2>1. Rebuilding' = {j} /\ built = "torn" /\ built \notin Releases /\ vectors = {}
    BY <1>4, Alone DEF IndexInv, StoresInv, DropTexts
  <2>2. FirstOf(j, 0)' = {} /\ texts' = {} /\ vectors' = {} /\ built' = built
    BY <2>1, FirstRows DEF DropTexts, watched, FirstOf, PlanOf
  <2> QED BY <1>1, <1>3, <2>1, <2>2 DEF StoresInv, FirstOf, PlanOf
<1>6. CalmInv'
  BY CalmGoesOn DEF IndexInv, DropTexts, watched
<1> QED BY <1>3, <1>5, <1>6 DEF IndexInv

\* Texts come before their vectors.
LEMMA PutTextsStep == ASSUME IndexInv, NEW j \in Jobs, PutTexts(j) PROVE IndexInv'
<1> DEFINE x == job[j]
           more == x.at + Rows <= Len(PlanOf(j))
           e == [x EXCEPT !.at = IF more THEN x.at + Rows ELSE 1,
                          !.pc = IF more THEN "putTexts" ELSE "upsert"]
<1>0. /\ JobShape(x) /\ x.pc = "putTexts" /\ PlanOf(j) # <<>> /\ x.at \in DOMAIN PlanOf(j)
      /\ j \in Rebuilding
  BY DEF IndexInv, Shapes, PlanInv, RowInv, PutTexts, Rebuilding
<1>1. /\ JobShape(e) /\ job' = [job EXCEPT ![j] = e]
      /\ e.at = (IF more THEN x.at + Rows ELSE 1)
      /\ e.pc = IF more THEN "putTexts" ELSE "upsert"
  BY <1>0 DEF JobShape, JobPc, PutTexts, Onward
<1>2. e.at \in DOMAIN PlanOf(j)
  BY <1>0, <1>1, PlanIsASequence, RagAssumption
<1> HIDE DEF e
<1>3. /\ Shapes' /\ PlanInv' /\ RowInv'
      /\ ShownIsOfTheAnalysis' /\ CalmQuestionsLoseNothing'
      /\ job'[j] = e /\ \A i \in Jobs : i # j => job'[i] = job[i]
  BY <1>0, <1>1, <1>2, RebuildMoves DEF PutTexts, IndexInv, Shapes, watched
<1>4. Rebuilding' = Rebuilding
  BY <1>0, <1>1, <1>3 DEF Rebuilding
<1>5. StoresInv'
  <2> SUFFICES ASSUME ~overlapped PROVE StoresInv'
    BY DEF StoresInv, PutTexts, watched
  <2>1. /\ Rebuilding' = {j} /\ built = "torn" /\ built \notin Releases
        /\ vectors = {} /\ texts = FirstOf(j, x.at - 1)
    BY <1>0, <1>4, Alone DEF IndexInv, StoresInv
  <2>2. texts' = (IF more THEN FirstOf(j, e.at - 1) ELSE AllOf(j)) /\ vectors' = {} /\ built' = built
    <3>1. FirstOf(j, x.at - 1) \cup RowsFrom(j) =
            IF more THEN FirstOf(j, x.at + Rows - 1) ELSE AllOf(j)
      BY <1>0, RowsGoOn
    <3>2. more => e.at - 1 = x.at + Rows - 1
      <4>1. x.at \in Int /\ Rows \in Int /\ (more => e.at = x.at + Rows)
        BY <1>0, <1>1, PlanIsASequence, RagAssumption
      <4> QED BY <4>1
    <3> QED BY <2>1, <3>1, <3>2 DEF PutTexts, watched
  <2>3. ~more => FirstOf(j, e.at - 1) = {}
    BY <1>1, FirstRows
  <2> QED BY <1>1, <1>3, <2>1, <2>2, <2>3 DEF StoresInv, FirstOf, AllOf, PlanOf
<1>6. CalmInv'
  BY CalmGoesOn DEF IndexInv, PutTexts, watched
<1> QED BY <1>3, <1>5, <1>6 DEF IndexInv

\* A vector is put whose text is there, unless another job took it away.
LEMMA UpsertStep == ASSUME IndexInv, NEW j \in Jobs, Upsert(j) PROVE IndexInv'
<1> DEFINE x == job[j]
           more == x.at + Rows <= Len(PlanOf(j))
           e == [x EXCEPT !.at = IF more THEN x.at + Rows ELSE 1,
                          !.pc = IF more THEN "upsert" ELSE "done"]
<1>0. /\ JobShape(x) /\ x.pc = "upsert" /\ PlanOf(j) # <<>> /\ x.at \in DOMAIN PlanOf(j)
      /\ j \in Rebuilding
  BY DEF IndexInv, Shapes, PlanInv, RowInv, Upsert, Rebuilding
<1>1. /\ JobShape(e) /\ job' = [job EXCEPT ![j] = e]
      /\ e.at = (IF more THEN x.at + Rows ELSE 1)
      /\ e.pc = IF more THEN "upsert" ELSE "done"
  BY <1>0 DEF JobShape, JobPc, Upsert, Onward
<1>2. e.at \in DOMAIN PlanOf(j)
  BY <1>0, <1>1, PlanIsASequence, RagAssumption
<1> HIDE DEF e
<1>3. /\ Shapes' /\ PlanInv' /\ RowInv'
      /\ ShownIsOfTheAnalysis' /\ CalmQuestionsLoseNothing'
      /\ job'[j] = e /\ \A i \in Jobs : i # j => job'[i] = job[i]
  BY <1>0, <1>1, <1>2, RebuildMoves DEF Upsert, IndexInv, Shapes
<1>4. Rebuilding' = IF more THEN Rebuilding ELSE Rebuilding \ {j}
  BY <1>0, <1>1, <1>3 DEF Rebuilding
<1>5. StoresInv'
  <2> SUFFICES ASSUME ~overlapped PROVE StoresInv'
    BY DEF StoresInv, Upsert
  <2>1. /\ Rebuilding = {j} /\ built = "torn" /\ built \notin Releases
        /\ texts = AllOf(j) /\ vectors = FirstOf(j, x.at - 1)
    BY <1>0, Alone DEF IndexInv, StoresInv
  <2>2. /\ vectors' = (IF more THEN FirstOf(j, e.at - 1) ELSE AllOf(j)) /\ texts' = AllOf(j)
        /\ built' = IF more THEN built ELSE Version[j]
    <3>1. FirstOf(j, x.at - 1) \cup RowsFrom(j) =
            IF more THEN FirstOf(j, x.at + Rows - 1) ELSE AllOf(j)
      BY <1>0, RowsGoOn
    <3>2. more => e.at - 1 = x.at + Rows - 1
      <4>1. x.at \in Int /\ Rows \in Int /\ (more => e.at = x.at + Rows)
        BY <1>0, <1>1, PlanIsASequence, RagAssumption
      <4> QED BY <4>1
    <3> QED BY <2>1, <3>1, <3>2 DEF Upsert
  <2>3. vectors' \subseteq texts'
    <3>1. more => e.at - 1 \in Int
      BY <1>1, <1>2, PlanIsASequence
    <3> QED BY <2>2, <3>1, FirstRows
  <2>4. CASE more
    BY <1>1, <1>3, <1>4, <2>1, <2>2, <2>3, <2>4 DEF StoresInv, FirstOf, AllOf, PlanOf
  <2>5. CASE ~more
    <3>1. Rebuilding' = {}
      BY <1>4, <2>1, <2>5
    <3> QED BY <2>2, <2>3, <2>5, <3>1 DEF StoresInv, AllOf
  <2> QED BY <2>4, <2>5
<1>6. CalmInv'
  <2>1. overlapped \/ built = "torn"
    BY <1>0, Alone DEF IndexInv
  <2>2. CASE built = "torn"
    BY <2>2, CalmGoesOn DEF IndexInv, Upsert
  <2>3. CASE overlapped
    BY <2>3 DEF IndexInv, CalmInv, Upsert
  <2> QED BY <2>1, <2>2, <2>3
<1> QED BY <1>3, <1>5, <1>6 DEF IndexInv

\* Every step of a job, and its restart, keeps the invariant.
LEMMA JobStepKeeps ==
  ASSUME IndexInv, NEW j \in Jobs, JobStep(j) \/ Restart(j) PROVE IndexInv'
<1>1. CASE CacheFails(j) \/ StoreFails(j)
  BY <1>1, Failing DEF CacheFails, StoreFails
<1>2. CASE EmbedFails(j)
  <2>1. "failed" \in Outside /\ "failed" \notin Planned
    BY DEF Outside, Planned, JobPc
  <2> QED BY <1>2, <2>1, QuietGoto DEF EmbedFails, stores, IndexInv, Shapes
<1> QED BY <1>1, <1>2, OutsideStep, DropVectorsStep, DropTextsStep, PutTextsStep, UpsertStep DEF JobStep

----------------------------------------------------------------------------
(* Questions                                                                *)

\* A question moves; the others stay as they are.
LEMMA QuestionMoves ==
  ASSUME IndexInv, NEW q \in Questions, NEW e, AskedShape(e),
         question' = [question EXCEPT ![q] = e],
         UNCHANGED <<job, stores, restarts, watched>>,
         e.at <= rebuilds,
         e.pc \in {"search", "lexical", "texts"} /\ e.calm /\ e.at = rebuilds =>
           /\ ~overlapped /\ built = e.about /\ built \in Releases
           /\ e.hits \cup e.lexical \subseteq ChunksOf(built),
         e.shown # {} => e.shown \subseteq ChunksOf(e.about),
         e.pc = "answered" /\ e.calm => e.lost = {}
  PROVE  IndexInv'
<1>1. /\ DOMAIN question' = Questions /\ question'[q] = e
      /\ \A p \in Questions : p # q => question'[p] = question[p]
  BY DEF IndexInv, Shapes
<1>2. UNCHANGED <<job, vectors, texts, analyses, rebuilds, overlapped, built>>
  BY DEF stores, watched
<1>3. Shapes' /\ PlanInv' /\ RowInv'
  BY <1>1, <1>2 DEF IndexInv, Shapes, PlanInv, RowInv
<1>4. StoresInv'
  BY <1>2 DEF IndexInv, StoresInv, Rebuilding
<1>5. CalmInv'
  BY <1>1, <1>2 DEF IndexInv, CalmInv
<1>6. ShownIsOfTheAnalysis' /\ CalmQuestionsLoseNothing'
  BY <1>1 DEF IndexInv, ShownIsOfTheAnalysis, CalmQuestionsLoseNothing
<1> QED BY <1>3, <1>4, <1>5, <1>6 DEF IndexInv

\* So does every step of a question.
LEMMA QuestionStepKeeps ==
  ASSUME IndexInv, NEW q \in Questions, QuestionStep(q) PROVE IndexInv'
<1> DEFINE x == question[q]
           calm == x.calm /\ x.at = rebuilds
<1>0. /\ AskedShape(x) /\ rebuilds \in Nat /\ overlapped \in BOOLEAN /\ x.at <= rebuilds
      /\ x.shown # {} => x.shown \subseteq ChunksOf(x.about)
      /\ x.pc = "answered" /\ x.calm => x.lost = {}
      /\ x.pc \in {"search", "lexical", "texts"} /\ calm =>
           /\ ~overlapped /\ built = x.about /\ built \in Releases
           /\ x.hits \cup x.lexical \subseteq ChunksOf(built)
           /\ vectors = ChunksOf(built) /\ texts = ChunksOf(built)
  BY DEF IndexInv, Shapes, CalmInv, StoresInv, ShownIsOfTheAnalysis, CalmQuestionsLoseNothing
<1>1. CASE Ask(q)
  <2>1. PICK v \in analyses :
          question' = [question EXCEPT ![q].pc = "search", ![q].about = v,
                                       ![q].calm = (~overlapped /\ built = v),
                                       ![q].at = IF ~overlapped /\ built = v THEN rebuilds ELSE 0]
    BY <1>1 DEF Ask
  <2>2. PICK c \in BOOLEAN : c = (~overlapped /\ built = v)
    OBVIOUS
  <2> DEFINE e == [x EXCEPT !.pc = "search", !.about = v, !.calm = c,
                            !.at = IF c THEN rebuilds ELSE 0]
  <2>3. question' = [question EXCEPT ![q] = e]
    BY <2>1, <2>2
  <2>4. /\ AskedShape(e) /\ e.pc = "search" /\ e.about = v /\ e.calm = c
        /\ e.at = (IF c THEN rebuilds ELSE 0)
        /\ e.hits = {} /\ e.lexical = {} /\ e.shown = {}
    BY <1>0, <1>1 DEF Ask, AskedShape
  <2>5. v \in Releases
    BY DEF IndexInv, Shapes
  <2>6. UNCHANGED <<job, stores, restarts, watched>>
    BY <1>1 DEF Ask
  <2> HIDE DEF e
  <2>7. /\ e.at <= rebuilds
        /\ e.calm => ~overlapped /\ built = e.about /\ built \in Releases
        /\ e.hits \cup e.lexical \subseteq ChunksOf(built)
    <3>0. e.hits \cup e.lexical = {}
      BY <2>4
    <3>1. rebuilds \in Nat /\ 0 <= rebuilds
      BY <1>0
    <3>2. CASE c
      <4>1. ~overlapped /\ built = v
        BY <2>2, <3>2
      <4>2. e.at = rebuilds /\ built = e.about /\ built \in Releases
        BY <2>4, <2>5, <3>2, <4>1
      <4> QED BY <3>0, <3>1, <4>1, <4>2
    <3>3. CASE ~c
      BY <2>4, <3>0, <3>1, <3>3
    <3> QED BY <3>2, <3>3
  <2> QED BY <2>3, <2>4, <2>6, <2>7, QuestionMoves
<1>2. CASE Search(q)
  <2>0. UNCHANGED <<job, stores, restarts, watched>> /\ x.pc = "search"
    BY <1>2 DEF Search
  <2>1. ASSUME NEW hits \in SUBSET vectors,
               question' = [question EXCEPT ![q].pc = "lexical", ![q].hits = hits]
        PROVE  IndexInv'
    <3> DEFINE e == [x EXCEPT !.pc = "lexical", !.hits = hits]
    <3>1. question' = [question EXCEPT ![q] = e]
      BY <2>1
    <3>2. /\ AskedShape(e) /\ e.pc = "lexical" /\ e.hits = hits /\ e.lexical = {} /\ e.shown = {}
          /\ e.about = x.about /\ e.calm = x.calm /\ e.at = x.at
      BY <1>0, <2>0 DEF AskedShape
    <3> HIDE DEF e
    <3> QED BY <1>0, <2>0, <3>1, <3>2, QuestionMoves
  <2>2. CASE question' = [question EXCEPT ![q] = [Unasked EXCEPT !.pc = "refused"]]
    <3> DEFINE e == [Unasked EXCEPT !.pc = "refused"]
    <3>1. AskedShape(e) /\ e.pc = "refused" /\ e.at = 0 /\ e.shown = {}
      BY DEF AskedShape, Unasked
    <3> HIDE DEF e
    <3>2. e.at <= rebuilds /\ question' = [question EXCEPT ![q] = e]
      BY <1>0, <2>2, <3>1 DEF e
    <3> QED BY <2>0, <3>1, <3>2, QuestionMoves
  <2> QED BY <1>2, <2>1, <2>2 DEF Search
<1>3. CASE Lexical(q)
  <2>0. UNCHANGED <<job, stores, restarts, watched>> /\ x.pc = "lexical"
    BY <1>3 DEF Lexical
  <2>1. PICK matches \in SUBSET (ChunksOf(x.about) \cap texts) :
          question' = [question EXCEPT ![q].pc = "texts", ![q].lexical = matches]
    BY <1>3 DEF Lexical
  <2> DEFINE e == [x EXCEPT !.pc = "texts", !.lexical = matches]
  <2>2. question' = [question EXCEPT ![q] = e]
    BY <2>1
  <2>3. /\ AskedShape(e) /\ e.pc = "texts" /\ e.lexical = matches /\ e.hits = x.hits
        /\ e.shown = x.shown /\ e.about = x.about /\ e.calm = x.calm /\ e.at = x.at
    BY <1>0, <2>0 DEF AskedShape
  <2> HIDE DEF e
  <2> QED BY <1>0, <2>0, <2>2, <2>3, QuestionMoves
<1>4. CASE Resolve(q)
  <2>0. UNCHANGED <<job, stores, restarts, watched>> /\ x.pc = "texts"
    BY <1>4 DEF Resolve
  <2> DEFINE shown == Candidates(q) \cap ChunksOf(x.about) \cap texts
  <2>1. PICK c \in BOOLEAN : c = calm
    BY <1>0 DEF AskedShape
  <2> DEFINE e == [x EXCEPT !.pc = "answered", !.shown = shown, !.hits = {}, !.lexical = {},
                            !.at = 0, !.calm = c, !.lost = Candidates(q) \ shown]
  <2>2. question' = [question EXCEPT ![q] = e]
    BY <1>4, <2>1 DEF Resolve
  <2>3. /\ AskedShape(e) /\ e.pc = "answered" /\ e.shown = shown /\ e.at = 0
        /\ e.about = x.about /\ e.calm = c /\ e.lost = Candidates(q) \ shown
    BY <1>0, <2>0 DEF AskedShape
  <2>4. c => e.lost = {}
    BY <1>0, <2>0, <2>1, <2>3 DEF Candidates
  <2> HIDE DEF e
  <2>5. e.at <= rebuilds /\ e.shown \subseteq ChunksOf(e.about)
    BY <1>0, <2>3
  <2> QED BY <2>0, <2>2, <2>3, <2>4, <2>5, QuestionMoves
<1> QED BY <1>1, <1>2, <1>3, <1>4 DEF QuestionStep

----------------------------------------------------------------------------

\* The invariant is inductive.
LEMMA IndexStep == IndexInv /\ [Next]_vars => IndexInv'
<1> SUFFICES ASSUME IndexInv, [Next]_vars PROVE IndexInv'
  OBVIOUS
<1>1. CASE UNCHANGED vars
  <2>1. UNCHANGED <<job, vectors, texts, analyses, question, rebuilds, overlapped, built>>
    BY <1>1 DEF vars, stores, watched
  <2> QED BY <2>1 DEF IndexInv, Shapes, PlanInv, RowInv, StoresInv, Rebuilding, CalmInv,
                      ShownIsOfTheAnalysis, CalmQuestionsLoseNothing
<1> QED BY <1>1, JobStepKeeps, QuestionStepKeeps DEF Next

\* An index that was never built is sound.
LEMMA IndexStarts == Init => IndexInv
<1> SUFFICES ASSUME Init PROVE IndexInv
  OBVIOUS
<1>1. Shapes
  BY DEF Init, Shapes, JobShape, JobPc, AskedShape, Idle, Unasked
<1>2. PlanInv /\ RowInv /\ Rebuilding = {}
  BY DEF Init, PlanInv, RowInv, Rebuilding, Idle
<1>3. StoresInv
  BY <1>2, RagAssumption DEF Init, StoresInv
<1>4. CalmInv /\ ShownIsOfTheAnalysis /\ CalmQuestionsLoseNothing
  BY DEF Init, CalmInv, ShownIsOfTheAnalysis, CalmQuestionsLoseNothing, Unasked
<1> QED BY <1>1, <1>2, <1>3, <1>4 DEF IndexInv

\* Whatever questions search the namespace, whichever releases rebuild it, and
\* wherever jobs fail or die: as long as one job rebuilds at a time no vector is
\* without its text and an ended rebuild leaves exactly its plan; what is shown
\* is of the question's own analysis, and a calm question loses nothing.
THEOREM IndexSound == Spec => []IndexIsSound
<1>1. IndexInv => IndexIsSound
  BY DEF IndexInv, StoresInv, IndexIsSound, TextFirst, IndexIsWhole
<1> QED BY <1>1, IndexStarts, IndexStep, PTL DEF Spec


----------------------------------------------------------------------------
(* What indexing costs                                                      *)

\* One request of what is missing, and what is still to be paid for.
SizeOf(missing) == Min({MaxTexts, Len(missing)})
BatchOf(j, missing) == {PlanOf(j)[missing[i]] : i \in 1..SizeOf(missing)}
Due(x) == IF x.pc = "keep" THEN Len(x.missing) - SizeOf(x.missing) ELSE Len(x.missing)

SpendPc == {"embed", "record", "keep"}

\* What a stage knows: the places of its plan that are missing were in no cache
\* when it began.
MissInv(j, x) ==
  /\ x.missing \in Seq(DOMAIN PlanOf(j)) /\ x.at \in Nat
  /\ x.pc = "readCache" => x.at \in DOMAIN PlanOf(j)
  /\ x.pc \in SpendPc \cup {"check"} => x.missing # <<>>
  /\ x.pc = "keep" => x.at \in 1..SizeOf(x.missing)
  /\ x.bought \subseteq Chunks /\ x.bought \cap x.knew = {}
  /\ \A i \in DOMAIN x.missing : PlanOf(j)[x.missing[i]] \notin x.knew

\* The shared caches hold what the stage found there, and its plan.
KeptInv(j, x, vecs, plans) ==
  /\ x.knew \subseteq vecs
  /\ x.bought # {} \/ x.pc \in Planned => Version[j] \in plans

CachesType ==
  /\ planned \subseteq Releases
  /\ embedded \subseteq Chunks /\ vectors \subseteq Chunks /\ texts \subseteq Chunks
  /\ restarts \in 0..MaxRestarts
  /\ \A q \in Questions : question[q].shown \cup question[q].hits \subseteq Chunks

ChargeInv ==
  /\ spent \in Nat /\ lost \in Nat /\ billed \in Nat
  /\ IsFiniteSet(Unrecorded) /\ SpendIsCharged

\* One job spends at a time, and what it has still to pay for was checked.
CeilingInv ==
  ~unsure => /\ spent <= Limit
             /\ \A i, j \in Spending : i = j
             /\ \A j \in Spending : spent + Due(job[j]) <= Limit

SpendInv ==
  /\ \A j \in Jobs : MissInv(j, job[j]) /\ KeptInv(j, job[j], embedded, planned)
  /\ CachesType /\ ChargeInv /\ CeilingInv

----------------------------------------------------------------------------

\* A request is no larger than what is missing, and buys no more than it holds.
LEMMA OneRequest ==
  ASSUME NEW j \in Jobs, NEW missing \in Seq(DOMAIN PlanOf(j))
  PROVE  /\ SizeOf(missing) \in Nat /\ SizeOf(missing) <= Len(missing) /\ Len(missing) \in Nat
         /\ missing # <<>> => SizeOf(missing) >= 1
         /\ BatchOf(j, missing) \subseteq Chunks
         /\ IsFiniteSet(BatchOf(j, missing)) /\ Cardinality(BatchOf(j, missing)) \in Nat
         /\ Cardinality(BatchOf(j, missing)) <= SizeOf(missing)
<1>1. /\ SizeOf(missing) \in Nat /\ SizeOf(missing) <= Len(missing) /\ Len(missing) \in Nat
      /\ missing # <<>> => SizeOf(missing) >= 1
  <2>1. Len(missing) \in Nat /\ (missing # <<>> => Len(missing) >= 1)
    OBVIOUS
  <2>2. SizeOf(missing) = IF MaxTexts <= Len(missing) THEN MaxTexts ELSE Len(missing)
    BY <2>1, MinOfTwo, RagAssumption DEF SizeOf
  <2> QED BY <2>1, <2>2, RagAssumption
<1>2. BatchOf(j, missing) \subseteq Chunks
  <2>1. \A i \in 1..SizeOf(missing) : missing[i] \in DOMAIN PlanOf(j)
    BY <1>1
  <2>2. \A i \in DOMAIN PlanOf(j) : PlanOf(j)[i] \in Chunks
    BY PlanIsASequence DEF Chunks, ChunksOf, PlanOf, ToSet
  <2> QED BY <2>1, <2>2 DEF BatchOf
<1>3. /\ IsFiniteSet(BatchOf(j, missing)) /\ Cardinality(BatchOf(j, missing)) \in Nat
      /\ Cardinality(BatchOf(j, missing)) <= SizeOf(missing)
  <2> DEFINE S == 1..SizeOf(missing)
             f == [i \in S |-> PlanOf(j)[missing[i]]]
  <2>1. IsFiniteSet(S) /\ Cardinality(S) = SizeOf(missing)
    BY <1>1, FS_Interval
  <2>2. f \in Surjection(S, BatchOf(j, missing))
    BY DEF Surjection, BatchOf
  <2>3. IsFiniteSet(BatchOf(j, missing)) /\ Cardinality(BatchOf(j, missing)) <= Cardinality(S)
    BY <2>1, <2>2, FS_Surjection
  <2> QED BY <2>1, <2>3, FS_CardinalityType
<1> QED BY <1>1, <1>2, <1>3

\* The texts of one job's request, told apart from those of the others.
Mine(j, x) == IF x.pc = "record" THEN {j} \X BatchOf(j, x.missing) ELSE {}

LEMMA OneJobs ==
  ASSUME NEW j \in Jobs, NEW x, x.missing \in Seq(DOMAIN PlanOf(j))
  PROVE  /\ IsFiniteSet(Mine(j, x))
         /\ Cardinality(Mine(j, x)) = IF x.pc = "record" THEN Cardinality(BatchOf(j, x.missing)) ELSE 0
<1>1. CASE x.pc = "record"
  <2> DEFINE B == BatchOf(j, x.missing)
  <2>1. IsFiniteSet(B) /\ Cardinality(B) \in Nat
    BY OneRequest
  <2>2. IsFiniteSet({j}) /\ Cardinality({j}) = 1
    BY FS_Singleton
  <2>3. IsFiniteSet({j} \X B) /\ Cardinality({j} \X B) = Cardinality({j}) * Cardinality(B)
    BY <2>1, <2>2, FS_Product
  <2> QED BY <1>1, <2>1, <2>2, <2>3 DEF Mine
<1>2. CASE x.pc # "record"
  BY <1>2, FS_EmptySet DEF Mine
<1> QED BY <1>1, <1>2

\* What is unrecorded changes by what the job that moves has unrecorded.
LEMMA UnrecordedMoves ==
  ASSUME Shapes, SpendInv, NEW j \in Jobs, NEW e, JobShape(e), job' = [job EXCEPT ![j] = e],
         e.missing \in Seq(DOMAIN PlanOf(j))
  PROVE  /\ IsFiniteSet(Unrecorded') /\ Cardinality(Unrecorded') \in Nat
         /\ Cardinality(Unrecorded') + Cardinality(Mine(j, job[j]))
              = Cardinality(Unrecorded) + Cardinality(Mine(j, e))
<1>1. DOMAIN job' = Jobs /\ job'[j] = e /\ \A i \in Jobs : i # j => job'[i] = job[i]
  BY JobMoves
<1> DEFINE Rest == {p \in Unrecorded : p[1] # j}
<1>2. \A i \in Jobs : Batch(i) = BatchOf(i, job[i].missing) /\ Batch(i)' = BatchOf(i, job'[i].missing)
  BY DEF Batch, BatchOf, Size, SizeOf, PlanOf
<1>3. Unrecorded = Rest \cup Mine(j, job[j]) /\ Unrecorded' = Rest \cup Mine(j, e)
  <2>1. Unrecorded = UNION {Mine(i, job[i]) : i \in Jobs}
    BY <1>2 DEF Unrecorded, InFlight, Mine
  <2>2. Unrecorded' = UNION {Mine(i, job'[i]) : i \in Jobs}
    BY <1>2 DEF Unrecorded, InFlight, Mine
  <2>3. \A i \in Jobs : \A x : \A p \in Mine(i, x) : p[1] = i
    BY DEF Mine
  <2>4. Rest = UNION {Mine(i, job[i]) : i \in Jobs \ {j}}
    BY <2>1, <2>3
  <2> QED BY <1>1, <2>1, <2>2, <2>4
<1>4. Rest \cap Mine(j, job[j]) = {} /\ Rest \cap Mine(j, e) = {}
  BY DEF Mine
<1>5. IsFiniteSet(Rest) /\ Cardinality(Rest) \in Nat
  BY FS_Subset, FS_CardinalityType DEF SpendInv, ChargeInv
<1>6. /\ IsFiniteSet(Mine(j, job[j])) /\ Cardinality(Mine(j, job[j])) \in Nat
      /\ IsFiniteSet(Mine(j, e)) /\ Cardinality(Mine(j, e)) \in Nat
  BY OneJobs, FS_CardinalityType DEF SpendInv, MissInv
<1> HIDE DEF Rest
<1>7. Cardinality(Unrecorded) = Cardinality(Rest) + Cardinality(Mine(j, job[j]))
  <2>1. Cardinality(Rest \cup Mine(j, job[j])) =
          Cardinality(Rest) + Cardinality(Mine(j, job[j])) - Cardinality(Rest \cap Mine(j, job[j]))
    BY <1>5, <1>6, FS_Union
  <2>2. Cardinality(Rest \cap Mine(j, job[j])) = 0
    BY <1>4, FS_EmptySet
  <2> QED BY <1>3, <1>5, <1>6, <2>1, <2>2
<1>8. /\ IsFiniteSet(Unrecorded') /\ Cardinality(Unrecorded') = Cardinality(Rest) + Cardinality(Mine(j, e))
  <2>1. /\ IsFiniteSet(Rest \cup Mine(j, e))
        /\ Cardinality(Rest \cup Mine(j, e)) =
             Cardinality(Rest) + Cardinality(Mine(j, e)) - Cardinality(Rest \cap Mine(j, e))
    BY <1>5, <1>6, FS_Union
  <2>2. Cardinality(Rest \cap Mine(j, e)) = 0
    BY <1>4, FS_EmptySet
  <2> QED BY <1>3, <1>5, <1>6, <2>1, <2>2
<1> QED BY <1>5, <1>6, <1>7, <1>8

\* The ledger's sums: what left one place is in another.
LEMMA Balance ==
  ASSUME NEW b \in Nat, NEW s \in Nat, NEW l \in Nat, NEW u \in Nat,
         NEW c \in Nat, NEW r \in Nat, NEW k \in Nat, NEW v \in Nat, NEW x \in Nat, NEW y \in Nat,
         b = s + l + u, v + x = u + y, c + s + l + x = b + r + k + y
  PROVE  c = r + k + v
OBVIOUS

\* A job moves: what it holds, what the caches keep and what the ledger says fit
\* together again.
LEMMA SpendMoves ==
  ASSUME Shapes, SpendInv, NEW j \in Jobs, NEW e, JobShape(e), job' = [job EXCEPT ![j] = e],
         MissInv(j, e), e.knew \subseteq embedded',
         e.bought # {} \/ e.pc \in Planned => Version[j] \in planned',
         planned \subseteq planned', embedded \subseteq embedded', CachesType', CeilingInv',
         spent' \in Nat, lost' \in Nat, billed' \in Nat,
         billed' + spent + lost + Cardinality(Mine(j, job[j]))
           = billed + spent' + lost' + Cardinality(Mine(j, e))
  PROVE  SpendInv'
<1>1. DOMAIN job' = Jobs /\ job'[j] = e /\ \A i \in Jobs : i # j => job'[i] = job[i]
  BY JobMoves
<1>2. \A i \in Jobs : MissInv(i, job'[i])
  BY <1>1 DEF SpendInv
<1>3. \A i \in Jobs : KeptInv(i, job'[i], embedded', planned')
  <2>1. ASSUME NEW i \in Jobs, i # j PROVE KeptInv(i, job'[i], embedded', planned')
    <3>1. KeptInv(i, job[i], embedded, planned) /\ job'[i] = job[i]
      BY <1>1, <2>1 DEF SpendInv
    <3> QED BY <3>1 DEF KeptInv
  <2>2. KeptInv(j, job'[j], embedded', planned')
    BY <1>1 DEF KeptInv
  <2> QED BY <2>1, <2>2
<1>4. ChargeInv'
  <2>1. /\ IsFiniteSet(Unrecorded') /\ Cardinality(Unrecorded') \in Nat
        /\ Cardinality(Unrecorded') + Cardinality(Mine(j, job[j]))
             = Cardinality(Unrecorded) + Cardinality(Mine(j, e))
    BY UnrecordedMoves DEF MissInv
  <2>2. /\ Cardinality(Mine(j, job[j])) \in Nat /\ Cardinality(Mine(j, e)) \in Nat
        /\ Cardinality(Unrecorded) \in Nat
    BY OneJobs, FS_CardinalityType DEF SpendInv, MissInv, ChargeInv
  <2>3. billed = spent + lost + Cardinality(Unrecorded) /\ spent \in Nat /\ lost \in Nat /\ billed \in Nat
    BY DEF SpendInv, ChargeInv, SpendIsCharged
  <2>4. billed' = spent' + lost' + Cardinality(Unrecorded')
    <3>1. spent' \in Nat /\ lost' \in Nat /\ billed' \in Nat
      OBVIOUS
    <3>2. billed' + spent + lost + Cardinality(Mine(j, job[j])) = billed + spent' + lost' + Cardinality(Mine(j, e))
      OBVIOUS
    <3> QED BY <2>1, <2>2, <2>3, <3>1, <3>2, Balance
  <2> QED BY <2>1, <2>4 DEF ChargeInv, SpendIsCharged
<1> QED BY <1>2, <1>3, <1>4 DEF SpendInv, KeptInv, MissInv

\* A job that asks for no more than it was to pay for keeps below the ceiling.
LEMMA CeilingMoves ==
  ASSUME Shapes, SpendInv, NEW j \in Jobs, NEW e, JobShape(e), job' = [job EXCEPT ![j] = e],
         MissInv(j, e), spent' \in Nat, unsure' = unsure,
         e.pc \in SpendPc => job[j].pc \in SpendPc /\ spent' + Due(e) <= spent + Due(job[j]),
         spent' = spent \/ (job[j].pc \in SpendPc /\ spent' <= spent + Due(job[j]))
  PROVE  CeilingInv'
<1>1. DOMAIN job' = Jobs /\ job'[j] = e /\ \A i \in Jobs : i # j => job'[i] = job[i]
  BY JobMoves
<1>2. Spending' \subseteq Spending /\ (j \in Spending' => e.pc \in SpendPc) /\ (job[j].pc \in SpendPc => j \in Spending)
  BY <1>1 DEF Spending, SpendPc
<1> SUFFICES ASSUME ~unsure
             PROVE  /\ spent' <= Limit /\ \A i, k \in Spending' : i = k
                    /\ \A k \in Spending' : spent' + Due(job'[k]) <= Limit
  BY DEF CeilingInv
<1>3. /\ spent <= Limit /\ (\A i, k \in Spending : i = k)
      /\ \A k \in Spending : spent + Due(job[k]) <= Limit
  BY DEF SpendInv, CeilingInv
<1>4. spent \in Nat /\ Limit \in Nat
  BY RagAssumption DEF SpendInv, ChargeInv
<1>5. Due(e) \in Nat /\ Due(job[j]) \in Nat
  <2>1. ASSUME NEW x, x.missing \in Seq(DOMAIN PlanOf(j)) PROVE Due(x) \in Nat
    BY <2>1, OneRequest DEF Due
  <2> QED BY <2>1 DEF SpendInv, MissInv
<1>6. spent' <= Limit
  <2>1. CASE spent' = spent
    BY <1>3, <2>1
  <2>2. CASE job[j].pc \in SpendPc /\ spent' <= spent + Due(job[j])
    <3>1. spent + Due(job[j]) <= Limit
      BY <1>2, <1>3, <2>2
    <3> QED BY <1>4, <1>5, <2>2, <3>1
  <2> QED BY <2>1, <2>2
<1>7. ASSUME NEW k \in Spending' PROVE spent' + Due(job'[k]) <= Limit
  <2>1. k \in Jobs /\ k \in Spending
    BY <1>2 DEF Spending
  <2>2. CASE k = j
    <3>1. e.pc \in SpendPc /\ spent + Due(job[j]) <= Limit /\ spent' + Due(e) <= spent + Due(job[j])
      BY <1>2, <1>3, <1>7, <2>1, <2>2
    <3>2. job'[k] = e
      BY <1>1, <2>2
    <3> QED BY <1>4, <1>5, <3>1, <3>2
  <2>3. CASE k # j
    <3>1. job[j].pc \notin SpendPc
      BY <1>2, <1>3, <2>1, <2>3
    <3>2. spent' = spent /\ job'[k] = job[k]
      BY <1>1, <2>1, <2>3, <3>1
    <3> QED BY <1>3, <2>1, <3>2
  <2> QED BY <2>2, <2>3
<1> QED BY <1>2, <1>3, <1>6, <1>7

\* A charge for a reply that is thrown away is lost to the counter.
Wasted == \E cost \in Nat : billed' = billed + cost /\ lost' = lost + cost

\* A job that is not at a request, before or after, and pays nothing.
LEMMA PaysNothing ==
  ASSUME Shapes, SpendInv, NEW j \in Jobs, NEW e, JobShape(e), job' = [job EXCEPT ![j] = e],
         MissInv(j, e), job[j].pc # "record", e.pc # "record",
         e.pc \in SpendPc => job[j].pc \in SpendPc /\ Due(e) <= Due(job[j]),
         e.knew \subseteq embedded',
         e.bought # {} \/ e.pc \in Planned => Version[j] \in planned',
         planned \subseteq planned', embedded \subseteq embedded', CachesType',
         UNCHANGED <<spent, unsure>>, UNCHANGED <<lost, billed>> \/ Wasted
  PROVE  SpendInv'
<1>1. spent \in Nat /\ lost \in Nat /\ billed \in Nat
  BY DEF SpendInv, ChargeInv
<1>2. lost' \in Nat /\ billed' \in Nat /\ billed' + lost = billed + lost'
  BY <1>1 DEF Wasted
<1>3. spent' \in Nat /\ billed' + spent + lost + 0 = billed + spent' + lost' + 0
  BY <1>1, <1>2
<1>4. Cardinality(Mine(j, job[j])) = 0 /\ Cardinality(Mine(j, e)) = 0
  BY OneJobs DEF SpendInv, MissInv
<1>5. Due(e) \in Nat /\ Due(job[j]) \in Nat
  <2>1. ASSUME NEW x, x.missing \in Seq(DOMAIN PlanOf(j)) PROVE Due(x) \in Nat
    BY <2>1, OneRequest DEF Due
  <2> QED BY <2>1 DEF SpendInv, MissInv
<1>6. CeilingInv'
  <2>1. e.pc \in SpendPc => job[j].pc \in SpendPc /\ spent' + Due(e) <= spent + Due(job[j])
    BY <1>1, <1>5
  <2> QED BY <1>1, <2>1, CeilingMoves
<1> QED BY <1>1, <1>2, <1>3, <1>4, <1>6, SpendMoves

SpendHyp == IndexInv /\ SpendInv

\* What the invariants say of one job.
LEMMA OfJob ==
  ASSUME SpendHyp, NEW j \in Jobs
  PROVE  /\ Shapes /\ JobShape(job[j]) /\ MissInv(j, job[j]) /\ KeptInv(j, job[j], embedded, planned)
         /\ CachesType /\ Version[j] \in Releases /\ Batch(j) = BatchOf(j, job[j].missing)
         /\ Size(j) = SizeOf(job[j].missing)
         /\ job[j].pc \in Planned => PlanOf(j) # <<>> /\ 1 \in DOMAIN PlanOf(j)
<1>1. job[j].pc \in Planned => PlanOf(j) # <<>>
  BY DEF SpendHyp, IndexInv, PlanInv, Planned
<1> QED BY <1>1, PlanIsASequence DEF SpendHyp, SpendInv, IndexInv, Shapes, Batch, BatchOf, Size, SizeOf

\* A job goes where nothing is asked for.
LEMMA GotoSpends ==
  ASSUME SpendHyp, NEW j \in Jobs, NEW pc \in JobPc \ (SpendPc \cup {"check"}), Goto(j, pc),
         job[j].pc # "record", pc = "readCache" => 1 \in DOMAIN PlanOf(j),
         pc \in Planned => Version[j] \in planned',
         planned \subseteq planned', embedded' = embedded, CachesType',
         UNCHANGED <<spent, unsure>>, UNCHANGED <<lost, billed>> \/ Wasted
  PROVE  SpendInv'
<1> DEFINE e == [job[j] EXCEPT !.pc = pc, !.at = 1, !.tree = TRUE,
                               !.missing = IF pc = "keep" THEN job[j].missing ELSE <<>>]
<1>1. /\ JobShape(e) /\ e.pc = pc /\ e.at = 1 /\ job' = [job EXCEPT ![j] = e]
      /\ e.missing = (IF pc = "keep" THEN job[j].missing ELSE <<>>)
      /\ e.knew = job[j].knew /\ e.bought = job[j].bought
  <2>1. JobShape(job[j]) /\ pc \in JobPc
    BY OfJob
  <2> QED BY <2>1 DEF Goto, JobShape
<1> HIDE DEF e
<1>2. e.missing = <<>> /\ e.pc \notin SpendPc \cup {"check"} /\ e.pc # "record"
  BY <1>1 DEF SpendPc
<1>3. MissInv(j, job[j]) /\ KeptInv(j, job[j], embedded, planned) /\ Shapes /\ SpendInv
  BY OfJob DEF SpendHyp
<1>4. MissInv(j, e)
  <2>1. e.missing \in Seq(DOMAIN PlanOf(j)) /\ e.at \in Nat /\ DOMAIN e.missing = {}
    <3>1. ASSUME NEW D PROVE <<>> \in Seq(D)
      OBVIOUS
    <3>2. <<>> \in Seq(DOMAIN PlanOf(j))
      BY ONLY <3>1
    <3>3. DOMAIN e.missing = {}
      BY ONLY <1>2
    <3>4. e.missing \in Seq(DOMAIN PlanOf(j))
      BY ONLY <1>2, <3>2
    <3> QED BY <1>1, <3>3, <3>4
  <2>2. e.pc = "readCache" => e.at \in DOMAIN PlanOf(j)
    BY <1>1
  <2>3. e.bought \subseteq Chunks /\ e.bought \cap e.knew = {}
    BY <1>1, <1>3 DEF MissInv
  <2> QED BY <1>2, <2>1, <2>2, <2>3 DEF MissInv, SpendPc
<1>5. e.knew \subseteq embedded' /\ (e.bought # {} \/ e.pc \in Planned => Version[j] \in planned')
  BY <1>1, <1>3 DEF KeptInv
<1> QED BY <1>1, <1>2, <1>3, <1>4, <1>5, PaysNothing

\* The steps of a job that ask for nothing.
LEMMA QuietSpends ==
  ASSUME SpendHyp, NEW j \in Jobs,
         \/ MakePlan(j) \/ CacheFails(j) \/ EmbedFails(j) \/ StoreFails(j)
         \/ DropVectors(j) \/ DropTexts(j) \/ Publish(j)
  PROVE  SpendInv'
<1> DEFINE x == job[j]
<1>0. /\ CachesType /\ KeptInv(j, x, embedded, planned) /\ Version[j] \in Releases
      /\ x.pc \in Planned => PlanOf(j) # <<>> /\ 1 \in DOMAIN PlanOf(j)
  BY OfJob
<1> USE DEF SpendPc, Planned, JobPc
<1>1. CASE CacheFails(j) \/ EmbedFails(j) \/ StoreFails(j)
  <2>1. Goto(j, "failed") /\ x.pc # "record"
    BY <1>1 DEF CacheFails, EmbedFails, StoreFails, Fail
  <2>2. /\ UNCHANGED <<planned, embedded, vectors, texts, spent, question, restarts, unsure>>
        /\ UNCHANGED <<lost, billed>> \/ Wasted
    <3>1. CASE CacheFails(j) \/ StoreFails(j)
      BY <3>1 DEF CacheFails, StoreFails, Fail, stores, watched
    <3>2. CASE EmbedFails(j)
      <4>1. Thrown(j, MaxAttempts) \subseteq Nat
        BY DEF Thrown
      <4> QED BY <3>2, <4>1 DEF EmbedFails, Wasted, stores
    <3> QED BY <1>1, <3>1, <3>2
  <2>3. CachesType'
    BY <1>0, <2>2 DEF CachesType, Chunks, ChunksOf, Releases
  <2> QED BY <2>1, <2>2, <2>3, GotoSpends
<1>2. CASE MakePlan(j)
  <2>1. PICK pc \in {"failed", "readCache"} :
          /\ Goto(j, pc) /\ planned' \in {planned, planned \cup {Version[j]}}
          /\ pc = "readCache" => PlanOf(j) # <<>> /\ Version[j] \in planned'
    BY <1>2 DEF MakePlan
  <2>2. UNCHANGED <<embedded, vectors, texts, spent, question, restarts, billed, lost, unsure>> /\ x.pc # "record"
    BY <1>2 DEF MakePlan, watched
  <2>3. CachesType' /\ planned \subseteq planned'
    BY <1>0, <2>1, <2>2 DEF CachesType, Chunks, ChunksOf, Releases
  <2>4. pc = "readCache" => 1 \in DOMAIN PlanOf(j)
    BY <2>1, PlanIsASequence
  <2> QED BY <2>1, <2>2, <2>3, <2>4, GotoSpends
<1>3. CASE DropVectors(j) \/ DropTexts(j) \/ Publish(j)
  <2>1. PICK pc \in {"dropTexts", "putTexts", "published"} :
          Goto(j, pc) /\ (pc \in Planned => x.pc \in Planned) /\ x.pc # "record"
    BY <1>3 DEF DropVectors, DropTexts, Publish
  <2>2. /\ UNCHANGED <<planned, embedded, spent, question, restarts, billed, lost, unsure>>
        /\ vectors' \in {{}, vectors} /\ texts' \in {{}, texts}
    BY <1>3 DEF DropVectors, DropTexts, Publish, watched
  <2>3. CachesType'
    BY <1>0, <2>2 DEF CachesType, Chunks, ChunksOf, Releases
  <2>4. pc \in Planned => Version[j] \in planned'
    BY <1>0, <2>1, <2>2 DEF KeptInv
  <2> QED BY <2>1, <2>2, <2>3, <2>4, GotoSpends
<1> QED BY <1>1, <1>2, <1>3

\* A stage begins, or begins again.
LEMMA BeginSpends == ASSUME SpendHyp, NEW j \in Jobs, Start(j) PROVE SpendInv'
<1>1. PICK tree : job' = [job EXCEPT ![j] = [Idle EXCEPT !.pc = "plan", !.tree = tree, !.knew = embedded]]
  BY DEF Start
<1> DEFINE e == [Idle EXCEPT !.pc = "plan", !.tree = tree, !.knew = embedded]
<1>2. JobShape(e) /\ e.pc = "plan" /\ e.missing = <<>> /\ e.at = 0 /\ e.knew = embedded /\ e.bought = {}
  BY DEF Idle, JobShape, JobPc
<1>3. job' = [job EXCEPT ![j] = e]
  BY <1>1
<1> HIDE DEF e
<1>4. /\ UNCHANGED <<planned, embedded, vectors, texts, spent, question, restarts, billed, lost, unsure>>
      /\ job[j].pc = "idle"
  BY DEF Start, stores, watched
<1>5. MissInv(j, e)
  BY <1>2 DEF MissInv, SpendPc
<1>6. CachesType'
  BY <1>4, OfJob DEF CachesType, Chunks, ChunksOf, Releases
<1>7. e.pc \notin SpendPc /\ e.pc \notin Planned /\ e.pc # "record"
  BY <1>2 DEF SpendPc, Planned
<1> QED BY <1>2, <1>3, <1>4, <1>5, <1>6, <1>7, PaysNothing, OfJob DEF SpendHyp

\* One chunk is looked up; it is missing where no cache had it.
LEMMA LookSpends == ASSUME SpendHyp, NEW j \in Jobs, ReadCache(j) PROVE SpendInv'
<1> DEFINE x == job[j]
           more == x.at < Len(PlanOf(j))
           missing == IF PlanOf(j)[x.at] \in embedded THEN x.missing ELSE Append(x.missing, x.at)
           e == [x EXCEPT !.missing = missing,
                          !.at = IF more THEN x.at + 1 ELSE 1,
                          !.pc = IF more THEN "readCache"
                                 ELSE IF missing = <<>> THEN "dropVectors" ELSE "check"]
<1>0. JobShape(x) /\ MissInv(j, x) /\ KeptInv(j, x, embedded, planned) /\ x.pc = "readCache"
  BY OfJob DEF ReadCache
<1>1. job' = [job EXCEPT ![j] = e]
  BY DEF ReadCache
<1>2. /\ JobShape(e) /\ e.missing = missing /\ e.knew = x.knew /\ e.bought = x.bought
      /\ e.at = (IF more THEN x.at + 1 ELSE 1)
      /\ e.pc = (IF more THEN "readCache" ELSE IF missing = <<>> THEN "dropVectors" ELSE "check")
  BY <1>0 DEF JobShape, JobPc
<1>3. x.at \in DOMAIN PlanOf(j) /\ x.missing \in Seq(DOMAIN PlanOf(j))
  BY <1>0 DEF MissInv
<1>4. /\ missing \in Seq(DOMAIN PlanOf(j))
      /\ \A i \in DOMAIN missing : PlanOf(j)[missing[i]] \notin x.knew
  <2>1. CASE PlanOf(j)[x.at] \in embedded
    BY <1>0, <2>1 DEF MissInv
  <2>2. CASE PlanOf(j)[x.at] \notin embedded
    <3>1. missing = Append(x.missing, x.at)
      BY <2>2
    <3>2. PlanOf(j)[x.at] \notin x.knew
      BY <1>0, <2>2 DEF KeptInv
    <3>3. \A i \in DOMAIN missing : (i \in DOMAIN x.missing /\ missing[i] = x.missing[i]) \/ missing[i] = x.at
      BY <1>3, <3>1
    <3>4. missing \in Seq(DOMAIN PlanOf(j))
      <4>1. ASSUME NEW D, NEW q \in Seq(D), NEW d \in D PROVE Append(q, d) \in Seq(D)
        OBVIOUS
      <4> QED BY <1>3, <3>1, <4>1
    <3> QED BY <1>0, <3>2, <3>3, <3>4 DEF MissInv
  <2> QED BY <2>1, <2>2
<1> HIDE DEF e, missing
<1>5. MissInv(j, e)
  <2>1. more => x.at + 1 \in DOMAIN PlanOf(j)
    BY <1>3, PlanIsASequence
  <2>2. e.at \in Nat
    BY <1>2, <1>3, PlanIsASequence
  <2>3. e.pc = "readCache" => e.at \in DOMAIN PlanOf(j)
    BY <1>2, <2>1
  <2>4. e.pc \notin SpendPc /\ (e.pc = "check" => e.missing # <<>>)
    BY <1>2 DEF SpendPc
  <2>5. e.bought \subseteq Chunks /\ e.bought \cap e.knew = {}
    BY <1>0, <1>2 DEF MissInv
  <2> QED BY <1>2, <1>4, <2>2, <2>3, <2>4, <2>5 DEF MissInv, SpendPc
<1>6. UNCHANGED <<planned, embedded, vectors, texts, spent, question, restarts, billed, lost, unsure>>
  BY DEF ReadCache, stores, watched
<1>7. CachesType'
  BY <1>6, OfJob DEF CachesType, Chunks, ChunksOf, Releases
<1>8. e.pc \notin SpendPc /\ e.pc # "record" /\ x.pc # "record"
  BY <1>0, <1>2 DEF SpendPc
<1>9. e.knew \subseteq embedded' /\ (e.bought # {} \/ e.pc \in Planned => Version[j] \in planned')
  BY <1>0, <1>2, <1>6 DEF KeptInv, Planned
<1> QED BY <1>1, <1>2, <1>5, <1>6, <1>7, <1>8, <1>9, PaysNothing, OfJob DEF SpendHyp

\* Rows are written: the stores gain chunks of the plan, and nothing is paid.
LEMMA RowsSpend == ASSUME SpendHyp, NEW j \in Jobs, PutTexts(j) \/ Upsert(j) PROVE SpendInv'
<1> DEFINE x == job[j]
           more == x.at + Rows <= Len(PlanOf(j))
<1>0. /\ JobShape(x) /\ MissInv(j, x) /\ KeptInv(j, x, embedded, planned) /\ CachesType
      /\ Shapes /\ SpendInv /\ Version[j] \in Releases
  BY OfJob DEF SpendHyp
<1>1. PICK pc \in {"putTexts", "upsert", "done"} :
        job' = [job EXCEPT ![j] = [x EXCEPT !.at = IF more THEN x.at + Rows ELSE 1, !.pc = pc]]
  BY DEF PutTexts, Upsert, Onward
<1> DEFINE e == [x EXCEPT !.at = IF more THEN x.at + Rows ELSE 1, !.pc = pc]
<1>2. /\ JobShape(e) /\ e.pc = pc /\ e.at = (IF more THEN x.at + Rows ELSE 1)
      /\ e.missing = x.missing /\ e.knew = x.knew /\ e.bought = x.bought
  BY <1>0 DEF JobShape, JobPc
<1>3. job' = [job EXCEPT ![j] = e]
  BY <1>1
<1> HIDE DEF e
<1>4. /\ UNCHANGED <<planned, embedded, spent, question, restarts, billed, lost, unsure>>
      /\ x.pc \in {"putTexts", "upsert"}
      /\ texts' \in {texts, texts \cup RowsFrom(j)} /\ vectors' \in {vectors, vectors \cup RowsFrom(j)}
  BY DEF PutTexts, Upsert, watched
<1>5. RowsFrom(j) \subseteq Chunks
  <2>1. x.at \in DOMAIN PlanOf(j)
    BY <1>4 DEF SpendHyp, IndexInv, RowInv
  <2>2. FirstOf(j, x.at - 1) \cup RowsFrom(j) \subseteq AllOf(j)
    BY <2>1, RowsGoOn, FirstRows, PlanIsASequence, RagAssumption
  <2> QED BY <1>0, <2>2 DEF AllOf, Chunks
<1>6. CachesType'
  BY <1>0, <1>4, <1>5 DEF CachesType, Chunks, ChunksOf, Releases
<1>7. MissInv(j, e)
  <2>1. e.at \in Nat
    BY <1>0, <1>2, RagAssumption DEF MissInv
  <2>2. e.pc \notin SpendPc \cup {"check", "readCache"}
    BY <1>2 DEF SpendPc
  <2> QED BY <1>0, <1>2, <2>1, <2>2 DEF MissInv, SpendPc
<1>8. e.knew \subseteq embedded' /\ (e.bought # {} \/ e.pc \in Planned => Version[j] \in planned')
  BY <1>0, <1>2, <1>4 DEF KeptInv, Planned
<1>9. e.pc \notin SpendPc /\ e.pc # "record" /\ x.pc # "record"
  BY <1>2, <1>4 DEF SpendPc
<1> QED BY <1>0, <1>2, <1>3, <1>4, <1>6, <1>7, <1>8, <1>9, PaysNothing

\* The budget lets a stage pass whose misses it can pay for, while no other
\* spends, or answers nothing.
LEMMA CheckSpends == ASSUME SpendHyp, NEW j \in Jobs, Check(j) PROVE SpendInv'
<1> DEFINE x == job[j]
           e == [x EXCEPT !.pc = "embed"]
<1>0. /\ JobShape(x) /\ MissInv(j, x) /\ KeptInv(j, x, embedded, planned) /\ CachesType
      /\ Shapes /\ SpendInv /\ x.pc = "check"
  BY OfJob DEF SpendHyp, Check
<1>1. UNCHANGED <<planned, embedded, vectors, texts, spent, question, restarts, billed, lost>>
  BY DEF Check, stores
<1>2. CachesType'
  BY <1>0, <1>1 DEF CachesType, Chunks, ChunksOf, Releases
<1>3. spent \in Nat /\ lost \in Nat /\ billed \in Nat
  BY <1>0 DEF SpendInv, ChargeInv
<1>4. ASSUME Open(j), (MayEmbed(j) /\ unsure' = (unsure \/ Spending # {})) \/ unsure' = TRUE
      PROVE  SpendInv'
  <2>1. job' = [job EXCEPT ![j] = e]
    BY <1>4 DEF Open
  <2>2. JobShape(e) /\ e.pc = "embed" /\ e.at = x.at /\ e.missing = x.missing /\ e.knew = x.knew /\ e.bought = x.bought
    BY <1>0 DEF JobShape, JobPc
  <2> HIDE DEF e
  <2>3. MissInv(j, e)
    BY <1>0, <2>2 DEF MissInv, SpendPc
  <2>4. Cardinality(Mine(j, x)) = 0 /\ Cardinality(Mine(j, e)) = 0
    BY <1>0, <2>2, <2>3, OneJobs DEF MissInv
  <2>5. e.knew \subseteq embedded' /\ (e.bought # {} \/ e.pc \in Planned => Version[j] \in planned')
    BY <1>0, <1>1, <2>2 DEF KeptInv, Planned
  <2>6. CeilingInv'
    <3> SUFFICES ASSUME ~unsure' PROVE CeilingInv'
      BY DEF CeilingInv
    <3>1. MayEmbed(j) /\ Spending = {} /\ ~unsure
      BY <1>4
    <3>2. job'[j] = e /\ \A i \in Jobs : i # j => job'[i] = job[i]
      BY <1>0, <2>1, <2>2, JobMoves
    <3>3. \A i \in Spending' : i = j
      BY <3>1, <3>2 DEF Spending
    <3>4. spent' <= Limit /\ spent' + Due(e) <= Limit
      <4>1. Due(e) = Len(x.missing) /\ Len(x.missing) \in Nat
        BY <1>0, <2>2 DEF Due, MissInv
      <4>2. spent + Len(x.missing) <= Limit /\ Limit \in Nat
        BY <3>1, RagAssumption DEF MayEmbed
      <4> QED BY <1>1, <1>3, <4>1, <4>2
    <3> QED BY <3>2, <3>3, <3>4 DEF CeilingInv
  <2> QED BY <1>0, <1>1, <1>2, <1>3, <2>1, <2>2, <2>3, <2>4, <2>5, <2>6, SpendMoves
<1>5. ASSUME Goto(j, "failed"), UNCHANGED unsure PROVE SpendInv'
  <2>1. "failed" \in JobPc \ (SpendPc \cup {"check"}) /\ "failed" \notin Planned
    BY DEF JobPc, SpendPc, Planned
  <2> QED BY <1>0, <1>1, <1>2, <1>5, <2>1, GotoSpends
<1> QED BY <1>4, <1>5 DEF Check

\* A request is answered, and billed.
LEMMA EmbedSpends == ASSUME SpendHyp, NEW j \in Jobs, Embed(j) PROVE SpendInv'
<1> DEFINE x == job[j]
           e == [x EXCEPT !.pc = "record", !.bought = @ \cup Batch(j)]
           n == Cardinality(Batch(j))
<1>0. /\ JobShape(x) /\ MissInv(j, x) /\ KeptInv(j, x, embedded, planned) /\ CachesType
      /\ Shapes /\ SpendInv /\ x.pc = "embed" /\ Batch(j) = BatchOf(j, x.missing)
  BY OfJob DEF SpendHyp, Embed
<1>1. /\ UNCHANGED <<planned, embedded, vectors, texts, spent, question, restarts, unsure>>
      /\ \E cost \in Nat : billed' = billed + n + cost /\ lost' = lost + cost
  <2>1. Thrown(j, MaxAttempts - 1) \subseteq Nat
    BY DEF Thrown
  <2> QED BY <2>1 DEF Embed, stores
<1>2. CachesType'
  BY <1>0, <1>1 DEF CachesType, Chunks, ChunksOf, Releases
<1>3. spent \in Nat /\ lost \in Nat /\ billed \in Nat
  BY <1>0 DEF SpendInv, ChargeInv
<1>4. job' = [job EXCEPT ![j] = e]
  BY DEF Embed
<1>5. /\ JobShape(e) /\ e.pc = "record" /\ e.at = x.at /\ e.missing = x.missing
      /\ e.knew = x.knew /\ e.bought = x.bought \cup Batch(j)
  BY <1>0 DEF JobShape, JobPc
<1> HIDE DEF e
<1>6. x.missing \in Seq(DOMAIN PlanOf(j)) /\ e.missing \in Seq(DOMAIN PlanOf(j))
  BY <1>0, <1>5 DEF MissInv
<1>7. /\ n \in Nat /\ Batch(j) \subseteq Chunks /\ Batch(j) \cap x.knew = {}
  <2>1. n \in Nat /\ Batch(j) \subseteq Chunks
    BY <1>0, <1>6, OneRequest
  <2>2. \A i \in 1..SizeOf(x.missing) : i \in DOMAIN x.missing
    BY <1>6, OneRequest
  <2>3. \A i \in DOMAIN x.missing : PlanOf(j)[x.missing[i]] \notin x.knew
    BY <1>0 DEF MissInv
  <2> QED BY <1>0, <2>1, <2>2, <2>3 DEF BatchOf
<1>8. MissInv(j, e)
  BY <1>0, <1>5, <1>7 DEF MissInv, SpendPc
<1>9. Cardinality(Mine(j, x)) = 0 /\ Cardinality(Mine(j, e)) = n
  BY <1>0, <1>5, <1>6, OneJobs
<1>10. e.knew \subseteq embedded' /\ (e.bought # {} \/ e.pc \in Planned => Version[j] \in planned')
  BY <1>0, <1>1, <1>5 DEF KeptInv, Planned
<1>11. CeilingInv'
  <2>1. Due(e) = Due(x) /\ Due(x) \in Nat
    BY <1>0, <1>5, <1>6 DEF Due
  <2>2. spent' \in Nat /\ spent' = spent /\ unsure' = unsure /\ x.pc \in SpendPc
    BY <1>0, <1>1, <1>3 DEF SpendPc
  <2>3. spent' + Due(e) <= spent + Due(x)
    BY <1>3, <2>1, <2>2
  <2> QED BY <1>0, <1>4, <1>5, <1>8, <2>2, <2>3, CeilingMoves
<1>12. /\ lost' \in Nat /\ billed' \in Nat
       /\ billed' + spent + lost + Cardinality(Mine(j, x)) = billed + spent' + lost' + Cardinality(Mine(j, e))
  <2>1. PICK cost \in Nat : billed' = billed + n + cost /\ lost' = lost + cost
    BY <1>1
  <2>2. n \in Nat /\ spent' = spent /\ Cardinality(Mine(j, x)) = 0 /\ Cardinality(Mine(j, e)) = n
    BY <1>1, <1>7, <1>9
  <2> HIDE DEF n
  <2> QED BY <1>3, <2>1, <2>2
<1> QED BY <1>0, <1>1, <1>2, <1>3, <1>4, <1>5, <1>8, <1>10, <1>11, <1>12, SpendMoves

\* What was bought is charged, or Redis did not take it.
LEMMA RecordSpends == ASSUME SpendHyp, NEW j \in Jobs, Record(j) PROVE SpendInv'
<1> DEFINE x == job[j]
           e == [x EXCEPT !.pc = "keep", !.at = 1, !.tree = TRUE, !.missing = x.missing]
           n == Cardinality(Batch(j))
<1>0. /\ JobShape(x) /\ MissInv(j, x) /\ KeptInv(j, x, embedded, planned) /\ CachesType
      /\ Shapes /\ SpendInv /\ x.pc = "record" /\ Batch(j) = BatchOf(j, x.missing)
  BY OfJob DEF SpendHyp, Record
<1>1. /\ UNCHANGED <<planned, embedded, vectors, texts, question, restarts, billed>>
      /\ \/ spent' = spent + n /\ lost' = lost /\ unsure' = unsure
         \/ spent' = spent /\ lost' = lost + n /\ unsure' = TRUE
  BY DEF Record
<1>2. CachesType'
  BY <1>0, <1>1 DEF CachesType, Chunks, ChunksOf, Releases
<1>3. spent \in Nat /\ lost \in Nat /\ billed \in Nat
  BY <1>0 DEF SpendInv, ChargeInv
<1>4. job' = [job EXCEPT ![j] = e]
  BY DEF Record, Goto
<1>5. /\ JobShape(e) /\ e.pc = "keep" /\ e.at = 1 /\ e.missing = x.missing
      /\ e.knew = x.knew /\ e.bought = x.bought
  BY <1>0 DEF JobShape, JobPc
<1> HIDE DEF e
<1>6. x.missing \in Seq(DOMAIN PlanOf(j)) /\ e.missing \in Seq(DOMAIN PlanOf(j)) /\ x.missing # <<>>
  BY <1>0, <1>5 DEF MissInv, SpendPc
<1>7. /\ n \in Nat /\ n <= SizeOf(x.missing) /\ SizeOf(x.missing) \in Nat /\ SizeOf(x.missing) >= 1
      /\ Len(x.missing) \in Nat /\ SizeOf(x.missing) <= Len(x.missing)
  BY <1>0, <1>6, OneRequest
<1>8. MissInv(j, e)
  BY <1>0, <1>5, <1>7 DEF MissInv, SpendPc
<1>9. Cardinality(Mine(j, x)) = n /\ Cardinality(Mine(j, e)) = 0
  BY <1>0, <1>5, <1>6, OneJobs
<1>10. e.knew \subseteq embedded' /\ (e.bought # {} \/ e.pc \in Planned => Version[j] \in planned')
  BY <1>0, <1>1, <1>5 DEF KeptInv, Planned
<1>11. CeilingInv'
  <2>1. CASE unsure' = TRUE
    BY <2>1 DEF CeilingInv
  <2>2. CASE spent' = spent + n /\ unsure' = unsure
    <3>1. Due(e) = Len(x.missing) - SizeOf(x.missing) /\ Due(x) = Len(x.missing)
      BY <1>0, <1>5 DEF Due
    <3>2. spent' + Due(e) <= spent + Due(x) /\ spent' <= spent + Due(x) /\ spent' \in Nat
      BY <1>3, <1>7, <2>2, <3>1
    <3>3. x.pc \in SpendPc
      BY <1>0 DEF SpendPc
    <3> QED BY <1>0, <1>4, <1>5, <1>8, <2>2, <3>2, <3>3, CeilingMoves
  <2> QED BY <1>1, <2>1, <2>2
<1>12. /\ spent' \in Nat /\ lost' \in Nat /\ billed' \in Nat
       /\ billed' + spent + lost + Cardinality(Mine(j, x)) = billed + spent' + lost' + Cardinality(Mine(j, e))
  BY <1>1, <1>3, <1>7, <1>9
<1> QED BY <1>0, <1>1, <1>2, <1>4, <1>5, <1>8, <1>10, <1>11, <1>12, SpendMoves

\* What follows the first n of a sequence.
LEMMA TheRest ==
  ASSUME NEW D, NEW q \in Seq(D), NEW n \in 0..Len(q)
  PROVE  LET rest == SubSeq(q, n + 1, Len(q))
         IN /\ rest \in Seq(D) /\ Len(rest) = Len(q) - n
            /\ \A i \in DOMAIN rest : i + n \in DOMAIN q /\ rest[i] = q[i + n]
<1> DEFINE rest == SubSeq(q, n + 1, Len(q))
<1>1. Len(q) \in Nat /\ n \in Nat /\ n <= Len(q)
  OBVIOUS
<1>2. Len(rest) = Len(q) - n
  BY <1>1
<1>3. rest \in Seq(D)
  BY <1>1
<1>4. \A i \in 1..Len(rest) : rest[i] = q[i + n]
  BY <1>1, <1>2
<1>5. DOMAIN rest = 1..Len(rest)
  BY <1>3
<1> QED BY <1>1, <1>2, <1>3, <1>4, <1>5

\* A vector is cached; after the last of a request the next one follows.
LEMMA KeepSpends == ASSUME SpendHyp, NEW j \in Jobs, Keep(j) PROVE SpendInv'
<1> DEFINE x == job[j]
           n == SizeOf(x.missing)
           rest == SubSeq(x.missing, n + 1, Len(x.missing))
           more == x.at < n
           e == [x EXCEPT !.at = IF more THEN x.at + 1 ELSE 1,
                          !.missing = IF more THEN x.missing ELSE rest,
                          !.pc = IF more THEN "keep"
                                 ELSE IF rest = <<>> THEN "dropVectors" ELSE "embed"]
           chunk == PlanOf(j)[x.missing[x.at]]
<1>0. /\ JobShape(x) /\ MissInv(j, x) /\ KeptInv(j, x, embedded, planned) /\ CachesType
      /\ Shapes /\ SpendInv /\ x.pc = "keep" /\ Size(j) = n
  BY OfJob DEF SpendHyp, Keep
<1>1. /\ UNCHANGED <<planned, vectors, texts, spent, question, restarts, billed, lost, unsure>>
      /\ embedded' = embedded \cup {chunk} /\ job' = [job EXCEPT ![j] = e]
  BY <1>0 DEF Keep, watched
<1>2. x.missing \in Seq(DOMAIN PlanOf(j)) /\ x.at \in 1..n
  BY <1>0 DEF MissInv
<1>3. n \in Nat /\ n <= Len(x.missing) /\ Len(x.missing) \in Nat
  BY <1>2, OneRequest
<1>4. chunk \in Chunks
  <2>1. chunk \in BatchOf(j, x.missing)
    BY <1>2 DEF BatchOf
  <2> QED BY <1>2, <2>1, OneRequest
<1>5. CachesType' /\ embedded \subseteq embedded'
  BY <1>0, <1>1, <1>4 DEF CachesType, Chunks, ChunksOf, Releases
<1>6. /\ rest \in Seq(DOMAIN PlanOf(j)) /\ Len(rest) = Len(x.missing) - n
      /\ \A i \in DOMAIN rest : i + n \in DOMAIN x.missing /\ rest[i] = x.missing[i + n]
  <2>1. n \in 0..Len(x.missing)
    BY <1>3
  <2> QED BY <1>2, <2>1, TheRest
<1> HIDE DEF n, rest, more, chunk
<1>7. /\ JobShape(e) /\ e.knew = x.knew /\ e.bought = x.bought
      /\ e.at = (IF more THEN x.at + 1 ELSE 1) /\ e.missing = (IF more THEN x.missing ELSE rest)
      /\ e.pc = (IF more THEN "keep" ELSE IF rest = <<>> THEN "dropVectors" ELSE "embed")
  BY <1>0 DEF JobShape, JobPc
<1> HIDE DEF e
<1>8. MissInv(j, e)
  <2>1. CASE more
    <3>1. x.at + 1 \in 1..n
      BY <1>2, <1>3, <2>1 DEF more
    <3>2. e.at = x.at + 1 /\ e.missing = x.missing /\ e.pc = "keep"
      BY <1>7, <2>1
    <3> QED BY <1>0, <1>7, <3>1, <3>2 DEF MissInv, SpendPc, n
  <2>2. CASE ~more
    <3>1. e.at = 1 /\ e.missing = rest /\ e.pc \in {"embed", "dropVectors"} /\ (e.pc = "embed" => rest # <<>>)
      BY <1>7, <2>2
    <3>2. \A i \in DOMAIN rest : PlanOf(j)[rest[i]] \notin x.knew
      BY <1>0, <1>6 DEF MissInv
    <3> QED BY <1>0, <1>6, <1>7, <3>1, <3>2 DEF MissInv, SpendPc
  <2> QED BY <2>1, <2>2
<1>9. e.pc \in SpendPc => Due(e) <= Due(x)
  <2>1. Due(x) = Len(x.missing) - n
    BY <1>0 DEF Due, n
  <2>2. CASE more
    BY <1>3, <1>7, <2>1, <2>2 DEF Due, n
  <2>3. CASE ~more
    BY <1>3, <1>6, <1>7, <2>1, <2>3 DEF Due
  <2> QED BY <2>2, <2>3
<1>10. e.knew \subseteq embedded' /\ (e.bought # {} \/ e.pc \in Planned => Version[j] \in planned')
  BY <1>0, <1>1, <1>7 DEF KeptInv, Planned
<1>11. e.pc # "record" /\ x.pc # "record" /\ x.pc \in SpendPc
  BY <1>0, <1>7 DEF SpendPc
<1> QED BY <1>0, <1>1, <1>5, <1>7, <1>8, <1>9, <1>10, <1>11, PaysNothing

\* A worker dies: what was bought and not recorded is lost.
LEMMA RestartSpends == ASSUME SpendHyp, NEW j \in Jobs, Restart(j) PROVE SpendInv'
<1> DEFINE x == job[j]
           n == IF x.pc = "record" THEN Cardinality(Batch(j)) ELSE 0
<1>0. /\ JobShape(x) /\ MissInv(j, x) /\ KeptInv(j, x, embedded, planned) /\ CachesType
      /\ Shapes /\ SpendInv /\ Batch(j) = BatchOf(j, x.missing)
  BY OfJob DEF SpendHyp
<1>1. /\ UNCHANGED <<planned, embedded, vectors, texts, spent, question, billed, unsure>>
      /\ lost' = lost + n /\ restarts' = restarts + 1 /\ restarts < MaxRestarts
      /\ job' = [job EXCEPT ![j] = Idle]
  BY DEF Restart, stores
<1>2. CachesType'
  <2>1. restarts' \in 0..MaxRestarts
    BY <1>0, <1>1, RagAssumption DEF CachesType
  <2> QED BY <1>0, <1>1, <2>1 DEF CachesType, Chunks, ChunksOf, Releases
<1>3. spent \in Nat /\ lost \in Nat /\ billed \in Nat
  BY <1>0 DEF SpendInv, ChargeInv
<1>4. JobShape(Idle) /\ Idle.pc = "idle" /\ Idle.missing = <<>> /\ Idle.at = 0 /\ Idle.knew = {} /\ Idle.bought = {}
  BY DEF Idle, JobShape, JobPc
<1>5. MissInv(j, Idle)
  BY <1>4 DEF MissInv, SpendPc
<1>6. Idle.pc \notin SpendPc /\ Idle.pc \notin Planned
  BY <1>4 DEF SpendPc, Planned
<1>7. n \in Nat /\ Cardinality(Mine(j, x)) = n /\ Cardinality(Mine(j, Idle)) = 0
  <2>1. x.missing \in Seq(DOMAIN PlanOf(j)) /\ Idle.missing \in Seq(DOMAIN PlanOf(j))
    BY <1>0, <1>5 DEF MissInv
  <2>2. Cardinality(Batch(j)) \in Nat
    BY <1>0, <2>1, OneRequest
  <2> QED BY <1>0, <1>4, <2>1, <2>2, OneJobs
<1> HIDE DEF n
<1>8. CeilingInv'
  BY <1>0, <1>1, <1>3, <1>4, <1>5, <1>6, CeilingMoves
<1>9. /\ spent' \in Nat /\ lost' \in Nat /\ billed' \in Nat
      /\ billed' + spent + lost + Cardinality(Mine(j, x)) = billed + spent' + lost' + Cardinality(Mine(j, Idle))
  BY <1>1, <1>3, <1>7
<1>10. Idle.knew \subseteq embedded' /\ (Idle.bought # {} \/ Idle.pc \in Planned => Version[j] \in planned')
  BY <1>4, <1>6
<1> QED BY <1>0, <1>1, <1>2, <1>4, <1>5, <1>8, <1>9, <1>10, SpendMoves

\* A step that moves no job and no counter leaves the ledger as it is.
LEMMA LedgerStays ==
  ASSUME ChargeInv, CeilingInv, UNCHANGED <<job, spent, restarts, billed, lost, unsure>>
  PROVE  ChargeInv' /\ CeilingInv'
<1>1. Unrecorded' = Unrecorded
  BY DEF Unrecorded, InFlight, Batch, Size, PlanOf
<1>2. Spending' = Spending
  BY DEF Spending
<1>3. ChargeInv'
  BY <1>1 DEF ChargeInv, SpendIsCharged
<1>4. CeilingInv'
  BY <1>2 DEF CeilingInv
<1> QED BY <1>3, <1>4

\* A question reads, and pays nothing here.
LEMMA QuestionSpends == ASSUME SpendHyp, NEW q \in Questions, QuestionStep(q) PROVE SpendInv'
<1>1. UNCHANGED <<job, planned, embedded, vectors, texts, spent, restarts, billed, lost, unsure>>
  BY DEF QuestionStep, Ask, Search, Lexical, Resolve, stores, watched
<1>2. CachesType
  BY DEF SpendHyp, SpendInv
<1>3. \A p \in Questions : question'[p].shown \cup question'[p].hits \subseteq Chunks
  <2>1. DOMAIN question = Questions /\ AskedShape(question[q])
    BY DEF SpendHyp, IndexInv, Shapes
  <2>2. CASE Ask(q)
    <3>1. \A p \in Questions : question'[p].shown = question[p].shown /\ question'[p].hits = question[p].hits
      BY <2>1, <2>2 DEF Ask
    <3> QED BY <1>2, <3>1 DEF CachesType
  <2>3. CASE Search(q)
    <3>1. \A p \in Questions : /\ question'[p].shown \subseteq question[p].shown
                                /\ question'[p].hits \subseteq question[p].hits \cup vectors
      BY <2>1, <2>3 DEF Search, AskedShape, Unasked
    <3> QED BY <1>2, <3>1 DEF CachesType
  <2>4. CASE Lexical(q)
    <3>1. \A p \in Questions : question'[p].shown = question[p].shown /\ question'[p].hits = question[p].hits
      BY <2>1, <2>4 DEF Lexical
    <3> QED BY <1>2, <3>1 DEF CachesType
  <2>5. CASE Resolve(q)
    <3>1. \A p \in Questions : /\ question'[p].shown \subseteq question[p].shown \cup texts
                                /\ question'[p].hits \subseteq question[p].hits
      BY <2>1, <2>5 DEF Resolve, AskedShape
    <3> QED BY <1>2, <3>1 DEF CachesType
  <2> QED BY <2>2, <2>3, <2>4, <2>5 DEF QuestionStep
<1>4. CachesType'
  BY <1>1, <1>2, <1>3 DEF CachesType, Chunks, ChunksOf, Releases
<1>5. ChargeInv' /\ CeilingInv'
  BY <1>1, LedgerStays DEF SpendHyp, SpendInv
<1> QED BY <1>1, <1>4, <1>5 DEF SpendHyp, SpendInv, KeptInv, MissInv

\* Every step keeps the ledger.
LEMMA SpendStep == IndexInv /\ SpendInv /\ [Next]_vars => SpendInv'
<1> SUFFICES ASSUME SpendHyp, [Next]_vars PROVE SpendInv'
  BY DEF SpendHyp
<1>1. CASE UNCHANGED vars
  <2>1. UNCHANGED <<job, planned, embedded, vectors, texts, spent, question, restarts, billed, lost, unsure>>
    BY <1>1 DEF vars, stores, watched
  <2>2. ChargeInv' /\ CeilingInv'
    BY <2>1, LedgerStays DEF SpendHyp, SpendInv
  <2>3. CachesType'
    BY <2>1 DEF SpendHyp, SpendInv, CachesType, Chunks, ChunksOf, Releases
  <2> QED BY <2>1, <2>2, <2>3 DEF SpendHyp, SpendInv, KeptInv, MissInv
<1>2. ASSUME NEW j \in Jobs, JobStep(j) \/ Restart(j) PROVE SpendInv'
  BY <1>2, QuietSpends, BeginSpends, LookSpends, RowsSpend, CheckSpends, EmbedSpends, RecordSpends, KeepSpends,
     RestartSpends DEF JobStep
<1> QED BY <1>1, <1>2, QuestionSpends DEF Next

\* What indexing costs is on the day's counter, but for what a crash, Redis or a
\* rejected reply lost, whichever request of a stage fails; what the cache held is never bought again; a stage that has
\* paid finds its plan; and the ceiling holds while Redis answers and one job
\* spends at a time (rag.ts, budgetHandle.ts).
THEOREM SpendHeld == Spec => []SpendIsHeld
<1>1. Init => SpendInv
  <2> SUFFICES ASSUME Init PROVE SpendInv
    OBVIOUS
  <2>1. \A j \in Jobs : job[j] = Idle
    BY DEF Init
  <2>2. Unrecorded = {} /\ Spending = {}
    BY <2>1 DEF Unrecorded, InFlight, Spending, Idle
  <2>3. ChargeInv /\ CeilingInv
    <3>1. IsFiniteSet(Unrecorded) /\ Cardinality(Unrecorded) = 0
      BY <2>2, FS_EmptySet
    <3> QED BY <2>2, <3>1, RagAssumption DEF Init, ChargeInv, SpendIsCharged, CeilingInv
  <2>4. CachesType
    BY RagAssumption DEF Init, CachesType, Unasked
  <2>5. \A j \in Jobs : MissInv(j, Idle) /\ KeptInv(j, Idle, embedded, planned)
    BY DEF Idle, MissInv, KeptInv, SpendPc, Planned
  <2> QED BY <2>1, <2>3, <2>4, <2>5 DEF SpendInv
<1>2. IndexInv /\ SpendInv => SpendIsHeld
  <2> SUFFICES ASSUME SpendHyp PROVE SpendIsHeld
    BY DEF SpendHyp
  <2>1. /\ ChargeInv /\ CeilingInv /\ CachesType /\ Shapes
        /\ \A j \in Jobs : MissInv(j, job[j]) /\ KeptInv(j, job[j], embedded, planned)
    BY DEF SpendHyp, SpendInv, IndexInv
  <2>2. spent \in Nat /\ lost \in Nat /\ billed \in Nat /\ Cardinality(Unrecorded) \in Nat
    BY <2>1, FS_CardinalityType DEF ChargeInv
  <2>3. billed = spent + lost + Cardinality(Unrecorded)
    BY <2>1 DEF ChargeInv, SpendIsCharged
  <2>4. TypeOK
    <3>1. spent \in 0..billed /\ lost \in 0..billed
      BY <2>2, <2>3
    <3>2. ASSUME NEW j \in Jobs
          PROVE  ToSet(job[j].missing) \subseteq DOMAIN PlanOf(j) /\ job[j].knew \subseteq Chunks /\ job[j].bought \subseteq Chunks
      <4>1. job[j].missing \in Seq(DOMAIN PlanOf(j))
        BY <2>1 DEF MissInv
      <4>2. ASSUME NEW D, NEW z \in Seq(D) PROVE ToSet(z) \subseteq D
        BY DEF ToSet
      <4>3. job[j].knew \subseteq embedded /\ embedded \subseteq Chunks /\ job[j].bought \subseteq Chunks
        BY <2>1 DEF MissInv, KeptInv, CachesType
      <4> QED BY <4>1, <4>2, <4>3
    <3>3. \A j \in Jobs : job[j].pc \in JobPc
      BY <2>1 DEF Shapes, JobShape
    <3>4. analyses \subseteq Releases
      BY <2>1 DEF Shapes
    <3> QED BY <2>1, <3>1, <3>2, <3>3, <3>4 DEF TypeOK, CachesType, JobPc
  <2>5. CachedIsFree /\ PlanSurvives
    BY <2>1 DEF CachedIsFree, PlanSurvives, MissInv, KeptInv
  <2>6. CeilingHolds
    <3> SUFFICES ASSUME ~unsure PROVE billed <= Limit + lost
      BY DEF CeilingHolds
    <3>1. spent + Cardinality(Unrecorded) <= Limit
      <4>1. CASE InFlight = {}
        <5>1. Unrecorded = {}
          BY <4>1 DEF Unrecorded
        <5> QED BY <2>1, <2>2, <5>1, FS_EmptySet DEF CeilingInv
      <4>2. CASE InFlight # {}
        <5>1. PICK j \in InFlight : TRUE
          BY <4>2
        <5>2. j \in Jobs /\ job[j].pc = "record" /\ j \in Spending
          BY <5>1 DEF InFlight, Spending
        <5>3. InFlight = {j}
          BY <2>1, <5>1, <5>2 DEF CeilingInv, InFlight, Spending
        <5>4. Unrecorded = Mine(j, job[j])
          <6>1. Batch(j) = BatchOf(j, job[j].missing)
            BY <5>2, OfJob
          <6>2. Unrecorded = {j} \X Batch(j)
            BY <5>3 DEF Unrecorded
          <6> QED BY <5>2, <6>1, <6>2 DEF Mine
        <5>5. job[j].missing \in Seq(DOMAIN PlanOf(j))
          BY <2>1, <5>2 DEF MissInv
        <5>6. Cardinality(Unrecorded) = Cardinality(BatchOf(j, job[j].missing))
          BY <5>2, <5>4, <5>5, OneJobs
        <5>7. /\ Cardinality(BatchOf(j, job[j].missing)) <= Len(job[j].missing) /\ Len(job[j].missing) \in Nat
          <6>1. /\ Cardinality(BatchOf(j, job[j].missing)) <= SizeOf(job[j].missing)
                /\ SizeOf(job[j].missing) <= Len(job[j].missing) /\ Len(job[j].missing) \in Nat
                /\ SizeOf(job[j].missing) \in Nat /\ Cardinality(BatchOf(j, job[j].missing)) \in Nat
            BY <5>2, <5>5, OneRequest
          <6> QED BY <6>1
        <5>8. spent + Len(job[j].missing) <= Limit
          BY <2>1, <5>2 DEF CeilingInv, Due
        <5> QED BY <2>2, <5>6, <5>7, <5>8, RagAssumption
      <4> QED BY <4>1, <4>2
    <3> QED BY <2>2, <2>3, <3>1, RagAssumption
  <2> QED BY <2>1, <2>4, <2>5, <2>6 DEF SpendIsHeld, ChargeInv
<1>3. Init => IndexInv
  BY IndexStarts
<1> QED BY <1>1, <1>2, <1>3, IndexStep, SpendStep, PTL DEF Spec
====
