------------------------------- MODULE Scoring -------------------------------
(***************************************************************************)
(* How the system grades itself (packages/eval/src, packages/arena/src):   *)
(* data sets and indexes that may be scored, retrieval, answers, the judge *)
(* and when it may gate, the verifiers of an arena, the questions generated *)
(* from a graph, the parity of the parsers and the comparison of two ways   *)
(* to embed.                                                                *)
(*                                                                         *)
(* A score is a fraction [n, d] with d > 0.  A place is [file, first, last] *)
(* where the line 0 is one that is not given.                               *)
(***************************************************************************)
EXTENDS CodeGraph

Ratio(n, d) == [n |-> n, d |-> d]
Zero == Ratio(0, 1)
One == Ratio(1, 1)
AtMost(a, b) == a.n * b.d <= b.n * a.d
Below(a, b) == ~AtMost(b, a)
Same(a, b) == a.n * b.d = b.n * a.d
Plus(a, b) == Ratio(a.n * b.d + b.n * a.d, a.d * b.d)
\* The share of n in d, or what is said when there is nothing to share.
Share(n, d, otherwise) == IF d = 0 THEN otherwise ELSE Ratio(n, d)
mean(scores) ==
  LET sum == FoldLeft(Plus, Zero, scores)
  IN IF scores = <<>> THEN Zero ELSE Ratio(sum.n, sum.d * Len(scores))
Each(f(_), s) == [i \in DOMAIN s |-> f(s[i])]
Prefix(s, k) == SubSeq(s, 1, Min({Max({k, 0}), Len(s)}))
Distinct(s) == Cardinality(Range(s)) = Len(s)

----------------------------------------------------------------------------
(* Data sets and indexes                                                    *)

\* A range that some chunk can hit, of a file the question expects.
rangeAccepted(q, r) == r.first >= 1 /\ r.last >= r.first /\ r.file \in Range(q.files)

\* Pinned to a commit, in a space, with questions that can be told apart.
assertDatasetShape(d) ==
  /\ d.space.dim > 0 /\ d.pinned
  /\ Distinct(Each(LAMBDA q : q.id, d.questions))
  /\ \A q \in Range(d.questions) : \A r \in Range(q.lines) : rangeAccepted(q, r)

\* A sidecar's chunks have a text, a possible range and the space's dimension.
assertEvalIndexShape(index) ==
  /\ index.space.dim > 0 /\ index.chunks # <<>>
  /\ Distinct(Each(LAMBDA c : c.id, index.chunks))
  /\ \A c \in Range(index.chunks) :
       c.first >= 1 /\ c.last >= c.first /\ c.text /\ c.dim = index.space.dim

\* What is loaded into both stores, under the namespace of the result's index;
\* the reason otherwise.
loadEvalIndex(rag, index) ==
  IF ~assertEvalIndexShape(index) THEN "shape"
  ELSE IF index.space # rag.space THEN "another run"
  ELSE IF ~rag.store THEN "inline index"
  ELSE "loaded"
hydrated(index) == [texts |-> {c.id : c \in {x \in Range(index.chunks) : x.text}},
                    vectors |-> {c.id : c \in Range(index.chunks)}]

----------------------------------------------------------------------------
(* Retrieval and synthesis                                                  *)

targetsFor(q) ==
  IF q.lines # <<>> THEN q.lines
  ELSE Each(LAMBDA f : [file |-> f, first |-> 0, last |-> 0], q.files)

chunkHitsTarget(c, t) ==
  /\ c.file = t.file
  /\ t.first = 0 \/ t.last = 0 \/ (c.first <= t.last /\ c.last >= t.first)

\* The share of the targets in what was retrieved, and the rank of the first hit.
recallOf(targets, top) ==
  LET hits == SelectSeq(targets, LAMBDA t : \E c \in Range(top) : chunkHitsTarget(c, t))
      ranks == {i \in DOMAIN top : \E t \in Range(targets) : chunkHitsTarget(top[i], t)}
  IN [recallAtK |-> Share(Len(hits), Len(targets), Zero), hit |-> hits # <<>>,
      reciprocalRank |-> IF ranks = {} THEN Zero ELSE Ratio(1, Min(ranks)),
      missed |-> SelectSeq(targets, LAMBDA t : t \notin Range(hits)),
      negativeControl |-> targets = <<>>]

\* Only the first k count, however many arrive.
scoreQuestion(q, ranking, k) == recallOf(targetsFor(q), Prefix(ranking, k))

\* Negative controls have nothing to recall and are counted apart.
aggregateRag(results) ==
  LET scored == SelectSeq(results, LAMBDA r : ~r.negativeControl)
  IN [meanRecallAtK |-> mean(Each(LAMBDA r : r.recallAtK, scored)),
      mrr |-> mean(Each(LAMBDA r : r.reciprocalRank, scored)),
      questionCount |-> Len(scored), negativeControlCount |-> Len(results) - Len(scored)]

\* reading: the files in their order.
scoreSynthesis(reading, dropped, keyFiles, nodeIds, expected, k) ==
  LET surfaced == Range(Prefix(reading, k)) \cup Range(Prefix(keyFiles, k))
      Found(s, S) == Len(SelectSeq(s, LAMBDA f : f \in S))
  IN [recallAtK |-> Share(Found(expected, surfaced), Len(expected), One),
      citationResolutionRate |-> Share(Found(reading, nodeIds), Len(reading), One),
      droppedCitationsRate |-> Share(dropped, Len(reading) + dropped, Zero)]

----------------------------------------------------------------------------
(* Answers                                                                  *)

\* Within one chunk that was retrieved; a line that is not given is anywhere.
citationInRetrieved(retrieved, c) ==
  \E chunk \in Range(retrieved) :
    /\ chunk.file = c.file
    /\ c.first = 0 \/ c.first >= chunk.first
    /\ c.last = 0 \/ c.last <= chunk.last

scoreAnswer(q, answer, retrieved) ==
  LET valid == SelectSeq(answer.citations, LAMBDA c : citationInRetrieved(retrieved, c))
      cited == {c.file : c \in Range(answer.citations)}
      retrievable == \E c \in Range(retrieved) : c.file \in Range(q.files)
  IN [citationValidity |-> Share(Len(valid), Len(answer.citations), IF answer.answered THEN Zero ELSE One),
      citationRelevance |-> Share(Cardinality(cited \cap Range(q.files)), Cardinality(cited), Zero),
      answered |-> answer.answered, droppedCitations |-> answer.dropped,
      refusalJustified |-> ~answer.answered /\ ~retrievable]

aggregateAnswers(results) ==
  LET refusals == SelectSeq(results, LAMBDA r : ~r.answered)
      justified == Len(SelectSeq(refusals, LAMBDA r : r.refusalJustified))
  IN [questionCount |-> Len(results),
      answerRate |-> Share(Len(results) - Len(refusals), Len(results), Zero),
      meanCitationValidity |-> mean(Each(LAMBDA r : r.citationValidity, results)),
      meanCitationRelevance |-> mean(Each(LAMBDA r : r.citationRelevance, results)),
      justifiedRefusals |-> justified, unjustifiedRefusals |-> Len(refusals) - justified,
      totalDroppedCitations |-> FoldLeft(LAMBDA sum, r : sum + r.droppedCitations, 0, results)]

\* The chunks an answer was built from: those whose text is still there.
answerRunner(answer, chunks, texts) ==
  Each(LAMBDA id : CHOOSE c \in Range(chunks) : c.id = id,
       SelectSeq(answer.retrieved, LAMBDA id : id \in texts /\ \E c \in Range(chunks) : c.id = id))

----------------------------------------------------------------------------
(* The judge                                                                *)

JUDGE_GATE_REQUIREMENTS == [minSampleSize |-> 20, minKappa |-> Ratio(6, 10), minAgreementLowerBound |-> Ratio(7, 10)]
EVAL_THRESHOLDS ==
  [readingOrderRecallAtK |-> Ratio(6, 10), ragRecallAtK |-> Ratio(6, 10), maxDroppedCitationsRate |-> Ratio(1, 10),
   minCitationValidity |-> Ratio(9, 10), maxUnjustifiedRefusals |-> 1, minJudgeFaithfulness |-> Ratio(8, 10)]

\* What a completion says, in tenths from 0 to 10; one that says nothing stops
\* the evaluation.
NoVerdict == -1
clamp01(tenths) == Max({0, Min({tenths, 10})})
parseJudgeVerdict(completion) == IF completion.numeric THEN clamp01(completion.tenths) ELSE NoVerdict

\* labelled: how many examples there are of each [human, tenths].
calibrateJudge(labelled, threshold) ==
  LET Count(human, yes) ==
        Total(LAMBDA l : labelled[l], {l \in DOMAIN labelled : l.human = human /\ (l.tenths >= threshold) = yes})
  IN [tp |-> Count(TRUE, TRUE), fp |-> Count(FALSE, TRUE), tn |-> Count(FALSE, FALSE), fn |-> Count(TRUE, FALSE)]
sampleSize(m) == m.tp + m.fp + m.tn + m.fn

\* Agreement beyond what chance would give, over the square of the sample.
kappaOf(n, agreed, expected) ==
  IF n = 0 \/ expected >= n * n THEN Zero ELSE Ratio(n * agreed - expected, n * n - expected)
cohensKappa(m) ==
  kappaOf(sampleSize(m), m.tp + m.tn, (m.tp + m.fp) * (m.tp + m.fn) + (m.fn + m.tn) * (m.fp + m.tn))

\* The low end of the interval, p - 1.96 sqrt(p(1 - p)/n) or 0, is at least
\* the bound, without the root.
waldInterval(agreed, n, bound) ==
  LET above == agreed * bound.d - bound.n * n
  IN /\ n > 0 /\ above >= 0
     /\ 625 * n * above * above >= 2401 * agreed * (n - agreed) * bound.d * bound.d

\* Mutant: that judge and human agree is enough.
enoughOnAgreement(n, agreed, kappa) ==
  n >= JUDGE_GATE_REQUIREMENTS.minSampleSize /\ waldInterval(agreed, n, JUDGE_GATE_REQUIREMENTS.minAgreementLowerBound)

enough(n, agreed, kappa) ==
  /\ n >= JUDGE_GATE_REQUIREMENTS.minSampleSize
  /\ ~Below(kappa, JUDGE_GATE_REQUIREMENTS.minKappa)
  /\ waldInterval(agreed, n, JUDGE_GATE_REQUIREMENTS.minAgreementLowerBound)
judgeIsGateable(m) == enough(sampleSize(m), m.tp + m.tn, cohensKappa(m))

----------------------------------------------------------------------------
(* A run of the evaluation                                                  *)

\* What was not scored.
None == [scored |-> FALSE]
Scored == "scored"

\* What is below its threshold.
evaluateThresholds(syn, rag, ans, faithfulness, gateable) ==
  LET limit == EVAL_THRESHOLDS
  IN {f \in {"readingOrderRecall", "droppedCitationsRate", "ragRecall", "citationValidity",
             "unjustifiedRefusals", "judgeFaithfulness"} :
        CASE f = "readingOrderRecall" -> Below(syn.recallAtK, limit.readingOrderRecallAtK)
          [] f = "droppedCitationsRate" -> Below(limit.maxDroppedCitationsRate, syn.droppedCitationsRate)
          [] f = "ragRecall" -> rag # None /\ Below(rag.meanRecallAtK, limit.ragRecallAtK)
          [] f = "citationValidity" ->
               ans # None /\ ans.questionCount > 0 /\ Below(ans.meanCitationValidity, limit.minCitationValidity)
          [] f = "unjustifiedRefusals" ->
               ans # None /\ ans.questionCount > 0 /\ ans.unjustifiedRefusals > limit.maxUnjustifiedRefusals
          [] f = "judgeFaithfulness" ->
               faithfulness # None /\ gateable /\ Below(faithfulness, limit.minJudgeFaithfulness)}

\* Why nothing is scored, if so.
Refusal(e) ==
  IF ~e.synthesis.present THEN "no synthesis"
  ELSE IF e.questions = <<>> THEN Scored
  ELSE IF ~e.indexed THEN "no index"
  ELSE IF e.clientSpace # e.space \/ e.indexSpace # e.space THEN "another space"
  ELSE IF ~e.stores THEN "no stores"
  ELSE Scored

\* What is told of what was scored.
reportOf(e, syn, perQuestion, perAnswer, verdicts, gateable) ==
  LET rag == IF e.questions # <<>> THEN aggregateRag(perQuestion) ELSE None
      ans == IF e.questions # <<>> /\ e.answering THEN aggregateAnswers(perAnswer) ELSE None
      faithfulness == IF verdicts = <<>> THEN None ELSE mean(Each(LAMBDA v : Ratio(v, 10), verdicts))
      Told(r, a, f) == [error |-> Scored, perQuestion |-> perQuestion, perAnswer |-> perAnswer, rag |-> r, ans |-> a,
                        gateable |-> gateable, faithfulness |-> f,
                        failures |-> evaluateThresholds(syn, r, a, f, gateable)]
  IN IF NoVerdict \in Range(verdicts) THEN [error |-> "no verdict"] ELSE Told(rag, ans, faithfulness)

\* A judge of which nothing was labelled is never measured.
calibrated(e) == e.judging /\ (\E l \in DOMAIN e.labelled : e.labelled[l] > 0) /\ judgeIsGateable(calibrateJudge(e.labelled, 7))

\* e: the data set's questions and space, the result, and what the client, the
\* stores, the answers and the judge give.  An answer is graded by the chunks it
\* was built from, or by the ranking where none are told.
runEval(e) ==
  LET s == e.synthesis
      SeenBy(own, ranking) == IF own # <<>> THEN own ELSE ranking
      Graded(i) == scoreAnswer(e.questions[i], e.answers[i],
                     SeenBy(answerRunner(e.answers[i], e.chunks, e.texts), Prefix(e.rankings[i], e.k)))
      all == DOMAIN e.questions
  IN IF Refusal(e) # Scored THEN [error |-> Refusal(e)]
     ELSE reportOf(e, scoreSynthesis(s.reading, s.dropped, s.keyFiles, s.nodeIds, s.expected, e.k),
            [i \in all |-> scoreQuestion(e.questions[i], e.rankings[i], e.k)],
            IF e.answering THEN [i \in all |-> Graded(i)] ELSE <<>>,
            IF e.answering /\ e.judging THEN Each(parseJudgeVerdict, e.completions) ELSE <<>>,
            calibrated(e))

----------------------------------------------------------------------------
(* The arena                                                                *)

clampScore(r) == IF r.n <= 0 THEN Zero ELSE IF r.n > r.d THEN One ELSE r
exactReward(passed, score) == [passed |-> passed, score |-> clampScore(score)]

\* Every file an output names is one of the repository's.
fileGrounding(output, files) ==
  LET claimed == output.fileIds \cup {c.file : c \in Range(output.citations)}
  IN exactReward(claimed \subseteq files, Share(Cardinality(claimed \cap files), Cardinality(claimed), One))

\* Every range with both ends is possible, and within the lines of its file
\* where they are known.
lineRange(output, loc) ==
  LET ranged == SelectSeq(output.citations, LAMBDA c : c.first # 0 /\ c.last # 0)
      Bad(c) == c.first < 1 \/ c.last < c.first \/ (c.file \in DOMAIN loc /\ c.last > loc[c.file])
      bad == SelectSeq(ranged, Bad)
  IN exactReward(bad = <<>>, Share(Len(ranged) - Len(bad), Len(ranged), One))

\* Every citation comes from what was retrieved.
citationVerifier(output, retrieved) ==
  LET outside == SelectSeq(output.citations, LAMBDA c : ~citationInRetrieved(retrieved, c))
  IN exactReward(outside = <<>>,
       Share(Len(output.citations) - Len(outside), Len(output.citations), One))

graphOracle(output, truth, files) ==
  LET graded == verify(truth, output.fileIds, files)
  IN exactReward(graded.passed, Ratio(graded.reward, 1))

\* A task is passed when all that grade it say so.
verdictOf(grades) ==
  [score |-> mean(Each(LAMBDA g : g.score, grades)),
   passed |-> grades # <<>> /\ \A g \in Range(grades) : g.passed]

\* oracle: whether the task has a question the graph answers.
runArenaTask(verifiers, oracle, output, w) ==
  LET applicable == SelectSeq(verifiers, LAMBDA v : v = "oracle" => oracle)
      Grade(v) == CASE v = "files" -> fileGrounding(output, w.files)
                    [] v = "lines" -> lineRange(output, w.loc)
                    [] v = "citations" -> citationVerifier(output, w.retrieved)
                    [] v = "oracle" -> graphOracle(output, w.truth, w.files)
  IN verdictOf(Each(Grade, applicable))

----------------------------------------------------------------------------
(* Questions generated from a graph                                         *)

Kinds == <<"imports-of", "who-calls", "blast-radius", "cycle-through", "entry-points">>
\* What the projection has, or else what the inventory has.
entryPointsOf(repo) == IF repo.projected # {} THEN repo.projected ELSE repo.inventoried
answerTo(kind, repo, id) == IF kind = "entry-points" THEN entryPointsOf(repo) ELSE truthFor(kind, repo, id)

\* The most connected first, by imports and calls.
orderedCandidates(repo) ==
  LET ends == repo.edges \o repo.cpgEdges
      Degree(id) == Len(SelectSeq(ends, LAMBDA e : e.from = id)) + Len(SelectSeq(ends, LAMBDA e : e.to = id))
  IN SortedBy({n.id : n \in Range(repo.nodes)} \cup UNION {{e.from, e.to} : e \in Range(ends)},
       LAMBDA a, b : Degree(a) > Degree(b) \/ (Degree(a) = Degree(b) /\ a < b))

sameCommunity(repo, id) ==
  IF id \notin DOMAIN repo.cluster THEN {} ELSE {f \in DOMAIN repo.cluster : repo.cluster[f] = repo.cluster[id]} \ {id}

\* What is near and wrong: the other direction, or the same neighbourhood.
mineHardNegatives(kind, repo, id, expected, count) ==
  LET near == CASE kind = "imports-of" -> {e.to : e \in {x \in Range(repo.edges) : x.from = id}}
                [] kind = "who-calls" -> sameCommunity(repo, id) \ get_callers(repo, id)
                [] kind = "blast-radius" -> Dependencies(buildImportGraph(repo.nodes, repo.edges), id)
                [] kind = "cycle-through" -> sameCommunity(repo, id)
                [] kind = "entry-points" -> Range(orderedCandidates(repo))
  IN Prefix(SortedBy(near \ (expected \cup {id}), <), count)

questionOf(kind, id, expected, negatives) ==
  [kind |-> kind, fileId |-> id, expected |-> expected, negativeControl |-> expected = {}, hardNegatives |-> negatives]
\* The answer is asked of the oracle once.
labelled(kind, repo, id, expected, limits) ==
  questionOf(kind, id, expected, mineHardNegatives(kind, repo, id, expected, limits.hard))
build(kind, repo, id, limits) == labelled(kind, repo, id, answerTo(kind, repo, id), limits)

\* So many with an answer, and so many without.
admit(asked, q, limits) ==
  IF Len(SelectSeq(asked, LAMBDA a : a.negativeControl = q.negativeControl))
       < (IF q.negativeControl THEN limits.negative ELSE limits.perKind)
  THEN Append(asked, q) ELSE asked
numbered(kind, asked) == [i \in DOMAIN asked |-> [id |-> <<kind, i - 1>>, q |-> asked[i]]]

\* Of each kind, about the best candidates.  The repository's entry points are
\* one question, if it has any.
generateSyntheticQuestions(repo, limits) ==
  LET candidates == orderedCandidates(repo)
      About(kind) == IF kind # "entry-points"
                     THEN FoldLeft(LAMBDA asked, id : admit(asked, build(kind, repo, id, limits), limits), <<>>, candidates)
                     ELSE IF entryPointsOf(repo) = {} THEN <<>>
                     ELSE <<build(kind, repo, Absent, limits)>>
  IN FlattenSeq(Each(LAMBDA kind : numbered(kind, About(kind)), Kinds))

\* The same questions as a data set, to be scored as the authored ones are.
buildSyntheticDataset(asked, space, pinned) ==
     [space |-> space, pinned |-> pinned,
      expectedEntryPoints |-> UNION {s.q.expected : s \in {x \in Range(asked) : x.q.kind = "entry-points"}},
      questions |-> Each(LAMBDA s : [id |-> s.id, files |-> SortedBy(s.q.expected, <), lines |-> <<>>], asked)]

----------------------------------------------------------------------------
(* Parity of the parsers, and the two ways to embed                         *)

harmonic(a, b) == Share(2 * a.n * b.n, a.n * b.d + b.n * a.d, Zero)
withF1(expected, found, hits, precision, recall) ==
  [expected |-> expected, found |-> found, hits |-> hits, precision |-> precision, recall |-> recall,
   f1 |-> harmonic(precision, recall)]
Measured(expected, found, hits) ==
  withF1(expected, found, hits, Share(hits, found, IF expected = 0 THEN One ELSE Zero), Share(hits, expected, One))
metric(expected, found) ==
  Measured(Cardinality(expected), Cardinality(found), Cardinality(expected \cap found))
\* Counts are pooled over the cases.
pool(metrics) ==
  LET Sum(f(_)) == FoldLeft(LAMBDA sum, m : sum + f(m), 0, metrics)
  IN Measured(Sum(LAMBDA m : m.expected), Sum(LAMBDA m : m.found), Sum(LAMBDA m : m.hits))

\* An engine's totals over the corpus: what was legacy's is only a floor.
aggregate(cases, engine) ==
  [symbols |-> pool(Each(LAMBDA c : metric(c.expected, c.found[engine]), cases)),
   core |-> pool(Each(LAMBDA c : metric(c.core, c.found[engine]), cases))]

\* The gated measures of which the tree has less than the scan.
regressions(tree, scan) ==
  {g \in {"precision", "recall", "f1"} : Below(tree.symbols[g], scan.symbols[g])}
  \cup {g \in {"core recall"} : Below(tree.core.recall, scan.core.recall)}
runParserParity(cases) == regressions(aggregate(cases, "tree"), aggregate(cases, "scan"))

\* One arm's recall and rank of each question.
scoreArm(questions, arm) ==
  Each(LAMBDA q : LET hits == {i \in DOMAIN q[arm] : q[arm][i] \in q.expected}
                  IN [recall |-> Share(Cardinality(hits), Cardinality(q.expected), One),
                      rank |-> IF hits = {} THEN Zero ELSE Ratio(1, Min(hits))],
       questions)
compareArms(enriched, raw) ==
  [enriched |-> mean(Each(LAMBDA s : s.recall, enriched)), raw |-> mean(Each(LAMBDA s : s.recall, raw)),
   won |-> {i \in DOMAIN raw : Below(raw[i].recall, enriched[i].recall)},
   lost |-> {i \in DOMAIN raw : Below(enriched[i].recall, raw[i].recall)}]
runEnrichmentAb(questions) == compareArms(scoreArm(questions, "enriched"), scoreArm(questions, "raw"))

----------------------------------------------------------------------------
(* What the scores promise                                                  *)

\* What is accepted can be scored: every question can be answered in full by
\* chunks that tile its files, both stores know the same chunks, and what was
\* hit was never rightly refused.
DatasetsAreFair(e, chunks) ==
  LET whole == SortedBy({[file |-> f, first |-> n, last |-> n] : f \in 1..2, n \in 1..2},
                        LAMBDA a, b : a.file < b.file \/ (a.file = b.file /\ a.first < b.first))
      index == [space |-> e.space, chunks |-> chunks]
      Refused(q, ranking) == scoreAnswer(q, [answered |-> FALSE, citations |-> <<>>, dropped |-> 0], ranking)
  IN /\ assertDatasetShape(e) => \A q \in Range(e.questions) :
          /\ Same(scoreQuestion(q, whole, Len(whole)).recallAtK, IF q.files = <<>> THEN Zero ELSE One)
          /\ \A r \in {e.rankings[i] : i \in DOMAIN e.questions} :
               scoreQuestion(q, r, Len(r)).hit => ~Refused(q, r).refusalJustified
          /\ q.files = <<>> => Refused(q, whole).refusalJustified
     /\ loadEvalIndex([space |-> e.indexSpace, store |-> e.stores], index) = "loaded"
          => /\ hydrated(index).texts = hydrated(index).vectors
             /\ Cardinality(hydrated(index).vectors) = Len(chunks)

\* A hit, a rank and something not missed are the same thing; more results lose
\* nothing; controls neither raise nor lower a mean.
RankAgrees(targets, now, more) ==
  /\ now.hit <=> now.reciprocalRank.n > 0
  /\ now.hit <=> now.missed # targets
  /\ AtMost(now.recallAtK, more.recallAtK) /\ AtMost(now.reciprocalRank, more.reciprocalRank)
  /\ AtMost(now.recallAtK, One)
ControlsAreApart(before, after) ==
  /\ Same(after.meanRecallAtK, before.meanRecallAtK) /\ Same(after.mrr, before.mrr)
  /\ after.questionCount = before.questionCount
RecallIsHonest(e) ==
  LET At(i, k) == scoreQuestion(e.questions[i], e.rankings[i], k)
      all == [i \in DOMAIN e.questions |-> At(i, e.k)]
      control == recallOf(<<>>, e.rankings[1])
  IN /\ \A i \in DOMAIN e.questions, k \in 0..3 : RankAgrees(targetsFor(e.questions[i]), At(i, k), At(i, k + 1))
     /\ ControlsAreApart(aggregateRag(all), aggregateRag(Append(all, control)))

\* Only a judge that was measured decides; a control rightly refused is held
\* against nobody; spaces are not mixed; and what passes has cited what it saw.
ReportIsEarned(e, report, unjudged) ==
  IF report.error # Scored
  THEN e.questions = <<>> => report.error = "no synthesis"
  ELSE /\ unjudged.failures \subseteq report.failures
       /\ report.failures # unjudged.failures => report.gateable /\ report.faithfulness # None
       /\ e.questions # <<>> => e.clientSpace = e.indexSpace
       /\ report.ans # None =>
            /\ report.ans.justifiedRefusals + report.ans.unjustifiedRefusals
                 = Cardinality({i \in DOMAIN e.answers : ~e.answers[i].answered})
            /\ \A i \in DOMAIN e.questions :
                 e.questions[i].files = <<>> /\ ~e.answers[i].answered => report.perAnswer[i].refusalJustified
            /\ (report.failures = {} /\ Len(e.questions) = 1) =>
                 \A c \in Range(e.answers[1].citations) : citationInRetrieved(e.chunks \o e.rankings[1], c)
VerdictsAreEarned(e) == ReportIsEarned(e, runEval(e), runEval([e EXCEPT !.judging = FALSE]))

\* A judge that gates has agreed with people on answers that were faithful and
\* on some that were not, and more than it disagreed; one of a single mind never
\* gates, whatever it agreed on (judge.ts:155-160).
MatrixIsMeasured(m) ==
  judgeIsGateable(m) =>
    /\ m.tp > 0 /\ m.tn > 0 /\ m.tp * m.tn > m.fp * m.fn
    /\ m.tp + m.tn > 2 * (m.fp + m.fn)
    /\ AtMost(cohensKappa(m), One)
JudgesAreMeasured(examples) == MatrixIsMeasured(calibrateJudge(examples, 7))

\* What passes every pass of the arena is real, within its file and seen; no
\* score is paid for by another; and nothing graded is nothing passed.
PassesAreReal(w) ==
  LET Graded(verifiers) == runArenaTask(verifiers, w.oracle, w.output, w)
      Real(c) ==
        /\ c.file \in w.files
        /\ (c.first # 0 /\ c.last # 0) =>
             /\ c.first <= c.last
             /\ c.file \in DOMAIN w.loc => c.last <= w.loc[c.file]
             /\ \E r \in Range(w.retrieved) :
                  r.file = c.file /\ c.first \in r.first..r.last /\ c.last \in r.first..r.last
      Earned(whole) ==
        /\ whole.passed =>
             /\ Same(whole.score, One)
             /\ \A c \in Range(w.output.citations) : Real(c)
             /\ w.oracle => w.output.fileIds = w.truth
        /\ AtMost(whole.score, One)
        /\ \A v \in {"files", "lines", "citations"} : whole.passed => Graded(<<v>>).passed
  IN /\ Earned(Graded(<<"files", "lines", "citations", "oracle">>))
     /\ ~w.oracle => ~Graded(<<"oracle">>).passed

\* A generated question's label is the oracle's, its negatives are not among
\* its answers, what is asked is what is most worth asking, and all of it makes
\* a data set that is accepted.
QuestionsAreExact(asked, repo, limits, files, space) ==
  LET Count(kind, negative) ==
        Cardinality({s \in Range(asked) : s.q.kind = kind /\ s.q.negativeControl = negative})
      Answer(q) == [fileIds |-> answerTo(q.kind, repo, q.fileId), citations |-> <<>>]
  IN /\ \A s \in Range(asked) :
          /\ runArenaTask(<<"oracle", "files">>, TRUE, Answer(s.q), [files |-> files, truth |-> s.q.expected]).passed
          /\ Range(s.q.hardNegatives) \cap (s.q.expected \cup {s.q.fileId}) = {}
          /\ Len(s.q.hardNegatives) <= limits.hard
     /\ \A kind \in Range(Kinds) \ {"entry-points"} :
          LET answerable == Cardinality({f \in files : answerTo(kind, repo, f) # {}})
          IN /\ Count(kind, FALSE) = Min({limits.perKind, answerable})
             /\ Count(kind, TRUE) = Min({limits.negative, Cardinality(files) - answerable})
     /\ Count("entry-points", TRUE) = 0
     /\ repo.sha => assertDatasetShape(buildSyntheticDataset(asked, space, TRUE))
\* Besides, what imports a file or shares a cycle with it is affected by it.
FlywheelIsExact(repo, limits, space) ==
  LET files == {n.id : n \in Range(repo.nodes)}
  IN /\ QuestionsAreExact(generateSyntheticQuestions(repo, limits), repo, limits, files, space)
     /\ \A f \in files : (answerTo("imports-of", repo, f) \ {f}) \cup answerTo("cycle-through", repo, f)
                           \subseteq answerTo("blast-radius", repo, f)

\* An engine that finds what the other found, and no more that is wrong, has
\* not regressed; and a score is full only for what is the truth.
ParityIsFair(cases) ==
  LET Better(c) == /\ c.expected \cap c.found.scan \subseteq c.found.tree
                   /\ c.found.tree \ c.expected \subseteq c.found.scan
      exact == {i \in DOMAIN cases : cases[i].expected = cases[i].found.tree}
  IN /\ (\A c \in Range(cases) : Better(c)) => runParserParity(cases) = {}
     /\ \A i \in DOMAIN cases : Same(metric(cases[i].expected, cases[i].found.tree).f1, One) <=> i \in exact
     /\ Same(aggregate(cases, "tree").symbols.f1, One) <=> exact = DOMAIN cases

\* Where no question is lost the mean is not lower, and where one is, it is told.
ReportIsFair(report) ==
  /\ report.lost \cap report.won = {}
  /\ Below(report.enriched, report.raw) => report.lost # {}
  /\ Below(report.raw, report.enriched) => report.won # {}
ArmsAreCompared(questions) == ReportIsFair(runEnrichmentAb(questions))
=============================================================================
