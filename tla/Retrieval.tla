------------------------------ MODULE Retrieval ------------------------------
(***************************************************************************)
(* What a question's candidates go through on their way to a prompt        *)
(* (packages/retrieval/src): the lexical arm, the fusion of both arms, the *)
(* reranker, the choice of a diverse few, and the enrichment a chunk was   *)
(* embedded with.  The stores behind it are in module RagIndex.            *)
(*                                                                         *)
(* A chunk is a number, in the order of ids.  Scores are whole numbers: a  *)
(* fraction is written over a common denominator, or rounded where said.   *)
(***************************************************************************)
EXTENDS Integers, Sequences, FiniteSets, SequencesExt, FiniteSetsExt

AddUp(f(_), S) == FoldSet(LAMBDA x, sum : f(x) + sum, 0, S)
\* By descending score, then by id.
ByScore(S, score) == SetToSortSeq(S, LAMBDA a, b : score[a] > score[b] \/ (score[a] = score[b] /\ a < b))
TopOf(s, k) == SubSeq(s, 1, Min({k, Len(s)}))
IndexIn(s, x) == CHOOSE i \in DOMAIN s : s[i] = x

----------------------------------------------------------------------------
(* The lexical arm                                                          *)

Occurs(word, text) == Cardinality({i \in DOMAIN text : text[i] = word})

\* The share of one word in a document's score.  The inverse document
\* frequency is some positive number that falls with the documents that have
\* the word; the saturation is the code's, with k1 = 1.2 and b = 0.75, rounded.
bm25Share(docs, id, word) ==
  LET df == Cardinality({d \in DOMAIN docs : Occurs(word, docs[d]) > 0})
      tf == Occurs(word, docs[id])
      n == Cardinality(DOMAIN docs)
      length == AddUp(LAMBDA d : Len(docs[d]), DOMAIN docs)
  IN IF tf = 0 THEN 0
     ELSE (1000 * (n - df + 1) * 22 * tf * length) \div (10 * tf * length + 3 * length + 9 * n * Len(docs[id]))

\* docs: the words of each chunk; the k best that share a word with the query.
bm25Search(docs, query, k) ==
  LET score == [d \in DOMAIN docs |-> AddUp(LAMBDA w : bm25Share(docs, d, w), Range(query))]
  IN TopOf(ByScore({d \in DOMAIN docs : score[d] > 0}, score), k)

----------------------------------------------------------------------------
(* Fusion                                                                   *)

\* 1 / (k + rank) over a denominator common to all ranks up to n.
RECURSIVE Denominator(_, _)
Denominator(k, n) == IF n = 0 THEN 1 ELSE (k + n) * Denominator(k, n - 1)

\* Mutant: a document's score is that of the last arm that has it.
reciprocalRankFusionLast(lists, k) ==
  LET n == Max({0} \cup {Len(lists[a]) : a \in DOMAIN lists})
      ids == UNION {Range(lists[a]) : a \in DOMAIN lists}
      Part(a, id) == Denominator(k, n) \div (k + IndexIn(lists[a], id))
      arms(id) == {a \in DOMAIN lists : id \in Range(lists[a])}
      score == [id \in ids |-> Part(Max(arms(id)), id)]
  IN [ids |-> ByScore(ids, score), score |-> score]

\* A document scores in each arm by its rank there alone.
reciprocalRankFusion(lists, k) ==
  LET n == Max({0} \cup {Len(lists[a]) : a \in DOMAIN lists})
      ids == UNION {Range(lists[a]) : a \in DOMAIN lists}
      Part(a, id) == IF id \in Range(lists[a]) THEN Denominator(k, n) \div (k + IndexIn(lists[a], id)) ELSE 0
      score == [id \in ids |-> AddUp(LAMBDA a : Part(a, id), DOMAIN lists)]
  IN [ids |-> ByScore(ids, score), score |-> score]

----------------------------------------------------------------------------
(* Reranking                                                                *)

\* |shared| / |together| of two sets of words, over the denominator d.
jaccard(a, b, d) ==
  IF a = {} \/ b = {} THEN 0 ELSE (d * Cardinality(a \cap b)) \div Cardinality(a \cup b)

lexicalOverlap(query, texts) ==
  LET d == 60
      score == [id \in DOMAIN texts |-> jaccard(Range(query), Range(texts[id]), d)]
  IN ByScore(DOMAIN texts, score)

Failed == <<-1>>

\* The cross-encoder's scores, a batch at a time; it fails when a batch comes
\* back with another number of scores than it has candidates.
scoresOf(candidates, batchSize, Model(_)) ==
  LET RECURSIVE From(_)
      From(offset) ==
        IF offset >= Len(candidates) THEN <<>>
        ELSE LET batch == SubSeq(candidates, offset + 1, Min({offset + batchSize, Len(candidates)}))
                 scores == Model(batch)
                 rest == From(offset + batchSize)
             IN IF Len(scores) # Len(batch) \/ rest = Failed THEN Failed ELSE scores \o rest
  IN From(0)

crossEncoder(candidates, batchSize, Model(_)) ==
  LET scores == scoresOf(candidates, batchSize, Model)
      score == [id \in Range(candidates) |-> scores[IndexIn(candidates, id)]]
  IN IF scores = Failed THEN Failed ELSE ByScore(Range(candidates), score)

\* Who the reranker does not mention comes last, in the order of fusion; the
\* order of fusion it is when the reranker fails.
reranked(candidates, ranked) ==
  IF ranked = Failed THEN candidates
  ELSE SelectSeq(ranked, LAMBDA id : id \in Range(candidates))
       \o SelectSeq(candidates, LAMBDA id : id \notin Range(ranked))

----------------------------------------------------------------------------
(* Diversity                                                                *)

\* The lowest id of those that score best.
mmrBest(remaining, Score(_)) ==
  CHOOSE i \in DOMAIN remaining :
    \A j \in DOMAIN remaining : \/ Score(remaining[i]) > Score(remaining[j])
                                \/ /\ Score(remaining[i]) = Score(remaining[j])
                                   /\ remaining[i].id <= remaining[j].id

\* candidates: [id, relevance, file], the relevance out of unit; lambda in
\* tenths.  Another chunk of a file that is chosen already is redundant.
mmrSelect(candidates, k, lambda, unit) ==
  LET RECURSIVE Select(_, _)
      Select(remaining, selected) ==
        IF Len(selected) >= k \/ remaining = <<>> THEN selected
        ELSE LET Redundancy(c) == IF \E i \in DOMAIN selected : selected[i].file = c.file THEN unit ELSE 0
                 Score(c) == lambda * c.relevance - (10 - lambda) * Redundancy(c)
                 best == mmrBest(remaining, Score)
             IN Select(RemoveAt(remaining, best), Append(selected, remaining[best]))
  IN IF Len(candidates) <= k /\ lambda >= 10 THEN candidates ELSE Select(candidates, <<>>)

\* Scores over their range, all 1 when they are equal: out of the range.
normalizeScores(scores) ==
  LET low == Min(Range(scores))
      high == Max(Range(scores))
  IN [unit |-> Max({1, high - low}), of |-> [i \in DOMAIN scores |-> IF low = high THEN 1 ELSE scores[i] - low]]

----------------------------------------------------------------------------
(* The whole way, from the two arms' rankings                               *)

MaxCandidates == 4
armCandidates(k, oversample) == Max({k, Min({k * oversample, MaxCandidates})})

\* The order of the arms' results; known: the chunks the analysis has, with
\* their files; texts: those whose text the store has.  ranked: the reranker's.
hybridSearch(vectorHits, lexicalHits, fileOf, texts, ranked, k, lambda) ==
  LET fused == reciprocalRankFusion(<<vectorHits, lexicalHits>>, 60).ids
      capped == TopOf(fused, MaxCandidates)
      candidates == SelectSeq(capped, LAMBDA id : id \in DOMAIN fileOf /\ id \in texts)
      ordered == IF Len(candidates) > 1 THEN reranked(candidates, ranked) ELSE candidates
      relevance == normalizeScores([i \in DOMAIN ordered |-> Len(ordered) - i])
      chosen == mmrSelect([i \in DOMAIN ordered |->
                            [id |-> ordered[i], relevance |-> relevance.of[i], file |-> fileOf[ordered[i]]]],
                          k, lambda, relevance.unit)
  IN IF vectorHits = <<>> \/ candidates = <<>> THEN [ids |-> <<>>, candidates |-> {}]
     ELSE [ids |-> [i \in DOMAIN chosen |-> chosen[i].id], candidates |-> Range(candidates)]

----------------------------------------------------------------------------
(* Enrichment                                                               *)

\* The symbols around a chunk of lines from..to, widest first, each name once.
scopeChainFor(symbols, own, from, to) ==
  LET around == {s \in symbols : /\ s.name # own /\ s.from <= from /\ s.to >= to
                                 /\ ~(s.from = from /\ s.to = to)}
      Before(a, b) == LET Key(s) == <<s.from - s.to, s.from, s.name>>
                      IN \E i \in 1..3 : Key(a)[i] < Key(b)[i] /\ \A j \in 1..(i - 1) : Key(a)[j] = Key(b)[j]
      chain == SetToSortSeq(around, Before)
      names == [i \in DOMAIN chain |-> chain[i].name]
  IN FoldLeft(LAMBDA kept, n : IF n \in Range(kept) THEN kept ELSE Append(kept, n), <<>>, names)

\* The lines of the comment right above a declaration, at most maxLines.
leadingComment(lines, start, maxLines) ==
  LET RECURSIVE Up(_, _, _)
      Up(n, inBlock, got) ==
        IF n < 1 \/ Cardinality(got) >= maxLines \/ lines[n] = "blank" THEN got
        ELSE CASE lines[n] = "whole" -> got \cup {n}
               [] lines[n] = "close" -> Up(n - 1, TRUE, got \cup {n})
               [] inBlock /\ lines[n] \notin {"whole", "close"} ->
                    IF lines[n] = "open" THEN got \cup {n} ELSE Up(n - 1, TRUE, got \cup {n})
               [] ~inBlock /\ lines[n] = "line" -> Up(n - 1, FALSE, got \cup {n})
               [] OTHER -> got
  IN Up(start - 1, FALSE, {})

----------------------------------------------------------------------------
(* Reference definitions                                                    *)

\* Who is ranked at least as well by every arm, and better by one, goes first.
AgreementWins(lists, k) ==
  LET fused == reciprocalRankFusion(lists, k).ids
      Rank(a, id) == IF id \in Range(lists[a]) THEN IndexIn(lists[a], id) ELSE Len(lists[a]) + 1
  IN /\ Range(fused) = UNION {Range(lists[a]) : a \in DOMAIN lists}
     /\ \A x, y \in Range(fused) :
          (/\ \A a \in DOMAIN lists : Rank(a, x) <= Rank(a, y)
           /\ \E a \in DOMAIN lists : Rank(a, x) < Rank(a, y))
          => IndexIn(fused, x) < IndexIn(fused, y)

\* The choice does not depend on the order the candidates come in.
OrderDoesNotMatter(candidates, k, lambda, unit) ==
  \A p \in {f \in [DOMAIN candidates -> DOMAIN candidates] : IsInjective(f)} :
    mmrSelect([i \in DOMAIN candidates |-> candidates[p[i]]], k, lambda, unit)
      = mmrSelect(candidates, k, lambda, unit)

\* A comment is read up to the first blank line or line of code.
BelongsToTheDeclaration(lines, start, maxLines) ==
  LET got == leadingComment(lines, start, maxLines)
  IN /\ \A n \in got : n..(start - 1) \subseteq got /\ lines[n] # "blank"
     /\ \A n \in got : lines[n] = "code" => \E m \in got : m > n /\ lines[m] = "close"
=============================================================================
