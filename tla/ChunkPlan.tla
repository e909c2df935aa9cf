------------------------------ MODULE ChunkPlan ------------------------------
(***************************************************************************)
(* How a file is cut into chunks, and chunks into embedding requests       *)
(* (packages/analyzers/src/stages/rag.ts).  A file is the sequence of the  *)
(* lengths of its lines; a symbol is [line, endLine], endLine = 0 when the *)
(* parser gave none; a chunk or a span is [start, end].                    *)
(***************************************************************************)
EXTENDS Integers, Sequences, FiniteSets, SequencesExt, FiniteSetsExt

CharsPerToken == 4

\* A text's estimate in tokens, rounded up.
estimateTokens(chars) == (chars + CharsPerToken - 1) \div CharsPerToken

clamp(value, low, high) == Max({low, Min({high, value})})

\* A chunk's text is its lines joined by newlines.
textLength(lines, c) ==
  MapThenSumSet(LAMBDA ln : lines[ln], c.start .. c.end) + (c.end - c.start)

tokenCount(lines, c) == estimateTokens(textLength(lines, c))

----------------------------------------------------------------------------

\* By line, and the longer first among those of one line.
sortedSymbols(symbols) ==
  LET end(s) == IF s.endLine = 0 THEN s.line ELSE s.endLine
  IN SetToSortSeq(symbols,
       LAMBDA a, b : a.line < b.line \/ (a.line = b.line /\ end(a) > end(b)))

\* A symbol without an end runs to the next one, within a window.
spansOf(lines, symbols, windowLines) ==
  LET sorted == sortedSymbols(symbols)
      start(i) == clamp(sorted[i].line, 1, Len(lines))
      next(i) == IF i < Len(sorted) THEN sorted[i + 1].line ELSE Len(lines) + 1
      end(i) == IF sorted[i].endLine # 0 THEN sorted[i].endLine
                ELSE Min({next(i) - 1, start(i) + windowLines - 1})
  IN [i \in DOMAIN sorted |->
        [start |-> start(i), end |-> clamp(end(i), start(i), Len(lines))]]

\* The interval cover: a span is selected when it starts after all before it.
coverOf(spans) ==
  FoldLeft(LAMBDA acc, s :
             [selected |-> IF s.start > acc.until THEN Append(acc.selected, s) ELSE acc.selected,
              until |-> Max({acc.until, s.end})],
           [selected |-> <<>>, until |-> 0], spans).selected

\* A span over the cap is cut between lines, never inside one.
splitByTokens(lines, span, cap) ==
  LET tokens(ln) == estimateTokens(lines[ln] + 1)
      swept == FoldLeft(LAMBDA acc, ln :
                 IF ln > acc.start /\ acc.tokens + tokens(ln) > cap
                 THEN [out |-> Append(acc.out, [start |-> acc.start, end |-> ln - 1]),
                       start |-> ln, tokens |-> tokens(ln)]
                 ELSE [acc EXCEPT !.tokens = @ + tokens(ln)],
               [out |-> <<>>, start |-> span.start, tokens |-> 0],
               [i \in 1..(span.end - span.start + 1) |-> span.start + i - 1])
  IN IF tokenCount(lines, span) <= cap THEN <<span>>
     ELSE Append(swept.out, [start |-> swept.start, end |-> span.end])

\* Windows of a fixed number of lines over from..to, each split in its turn.
windowChunks(lines, from, to, windowLines, cap) ==
  LET count == IF from > to THEN 0 ELSE (to - from) \div windowLines + 1
      start(i) == from + (i - 1) * windowLines
  IN FlattenSeq([i \in 1..count |->
       splitByTokens(lines, [start |-> start(i), end |-> Min({start(i) + windowLines - 1, to})], cap)])

\* The selected spans, and windows over the gaps before, between and after.
planSourceFile(lines, symbols, windowLines, cap) ==
  LET swept == FoldLeft(LAMBDA acc, s :
                 [out |-> acc.out \o windowChunks(lines, acc.cursor, s.start - 1, windowLines, cap)
                            \o splitByTokens(lines, s, cap),
                  cursor |-> s.end + 1],
               [out |-> <<>>, cursor |-> 1], coverOf(spansOf(lines, symbols, windowLines)))
  IN swept.out \o windowChunks(lines, swept.cursor, Len(lines), windowLines, cap)

----------------------------------------------------------------------------

\* Texts are packed in their order, under both limits of one request.
batchIndices(indices, tokens, maxTexts, maxTokens) ==
  LET Sum(b) == FoldLeft(LAMBDA acc, i : acc + tokens[i], 0, b)
      packed == FoldLeft(LAMBDA acc, i :
                  IF acc.current # <<>>
                     /\ (Len(acc.current) >= maxTexts \/ Sum(acc.current) + tokens[i] > maxTokens)
                  THEN [done |-> Append(acc.done, acc.current), current |-> <<i>>]
                  ELSE [acc EXCEPT !.current = Append(@, i)],
                [done |-> <<>>, current |-> <<>>], indices)
  IN IF packed.current = <<>> THEN packed.done ELSE Append(packed.done, packed.current)

----------------------------------------------------------------------------
(* What the plan is for                                                     *)

\* The spans follow one another from the first line to the last: every line
\* is in one chunk, and no two chunks have an id in common.
Tiles(chunks, lineCount) ==
  /\ Len(chunks) > 0
  /\ chunks[1].start = 1 /\ chunks[Len(chunks)].end = lineCount
  /\ \A i \in DOMAIN chunks :
       /\ chunks[i].start <= chunks[i].end
       /\ i < Len(chunks) => chunks[i + 1].start = chunks[i].end + 1

\* Only a line that is over the cap by itself makes a chunk over the cap.
OnlyLinesExceed(lines, chunks, cap) ==
  \A i \in DOMAIN chunks :
    tokenCount(lines, chunks[i]) > cap => chunks[i].start = chunks[i].end

\* Every text is sent once and in order, in requests the provider accepts
\* unless one text alone exceeds them.
BatchesAreSound(batches, indices, tokens, maxTexts, maxTokens) ==
  /\ FlattenSeq(batches) = indices
  /\ \A b \in ToSet(batches) :
       /\ Len(b) \in 1..maxTexts
       /\ Len(b) > 1 => FoldLeft(LAMBDA acc, i : acc + tokens[i], 0, b) <= maxTokens
=============================================================================
