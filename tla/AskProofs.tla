------------------------------ MODULE AskProofs ------------------------------
(***************************************************************************)
(* Proofs about the questions of module Ask, for any questions, sessions   *)
(* and caps: an answer of the agent is grounded, its bounds are hard, a    *)
(* conversation stays sound however its questions overlap, and a repeated  *)
(* question is free.                                                       *)
(***************************************************************************)
EXTENDS Ask, FiniteSetTheorems, SequenceTheorems, NaturalsInduction,
        WellFoundedInduction, TLAPS

----------------------------------------------------------------------------
(* The inductive invariant                                                 *)

Things == [kind : {"chunk", "file", "doc", "symbol"}, of : Analyses \cup {"elsewhere"}]

Turns == [by : Asks, about : Analyses, answered : BOOLEAN, n : Nat]
Entities == [value : Things, n : Nat]
Conversations == [analysis : Analyses, turns : Seq(Turns), entities : Seq(Entities)]

Stops == {"answered", "refused", "turn-limit", "tool-call-limit",
          "parse-failure", "budget-exhausted"}

Questions ==
  [pc : AskPc, about : Analyses, session : Sessions \cup {"none"},
   memory : Conversations \cup {<<>>}, base : Conversations \cup {<<>>},
   turn : 1..MaxTurns, toolCalls : 0..MaxToolCalls, badReplies : Nat, tool : Tools,
   chunks : SUBSET Things, files : SUBSET Things, calls : 0..MaxTurns,
   ran : 0..MaxToolCalls, ranAt : 0..MaxTurns,
   stop : Stops, answered : BOOLEAN, cites : SUBSET Things]

TypeInv ==
  /\ shared \in BOOLEAN
  /\ ask \in [Asks -> Questions]
  /\ store \in [Sessions -> Conversations \cup {<<>>}]
  /\ cached \in [embedded : SUBSET Analyses, answers : [Analyses -> {"none", "yes", "no"}]]
  /\ spent \in [Units -> Nat] /\ billed \in [Units -> Nat]
  /\ unheard \in [Units -> Nat] /\ passed \in [Units -> Nat] /\ lost \in [Units -> Nat]
  /\ missed \subseteq Asks

\* Where a question is before its loop, in its loop and in a single shot.
Waiting == {"idle", "load"}
SingleShot == {"embed", "embedCall", "embedStore", "retrieve", "onceCall", "onceStore"}
Over == {"failed", "refused", "capacity", "unavailable"}

\* How many calls a question has paid for follows from where it is.
CallsOf(q) ==
  /\ q.pc \in Waiting => q.turn = 1 /\ q.calls = 0 /\ q.ran = 0
  /\ q.pc \in {"turn", "call"} => q.calls + 1 = q.turn
  /\ q.pc \in {"act", "tool"} => q.calls = q.turn
  /\ q.pc \in SingleShot => q.calls <= 1 /\ q.ran = 0
  /\ q.pc \in SingleShot \ {"onceStore"} => q.calls = 0

\* What tools returned was returned before the call under way.
ToolsOf(q) ==
  /\ q.ran <= q.toolCalls
  /\ q.pc = "tool" => q.toolCalls < MaxToolCalls /\ q.turn < MaxTurns
  /\ q.pc \in {"turn", "call"} /\ q.ran > 0 => q.ranAt <= q.calls
  /\ q.pc \in {"act", "tool"} /\ q.ran > 0 => q.ranAt < q.calls
  /\ q.pc \in {"read", "write", "done"} /\ q.ran > 0 =>
       q.calls > q.ranAt \/ ~Affordable("chat")

\* The evidence of a question is its own, and its answer cites some of it.
EvidenceOf(q) ==
  /\ q.chunks \subseteq {Chunk(q.about)} /\ q.files \subseteq {File(q.about)}
  /\ q.ran = 0 => q.chunks = {} /\ q.files = {}
  /\ q.cites \subseteq q.chunks \cup q.files
  /\ q.stop = "answered" => q.cites # {} /\ q.pc \in {"read", "write", "done"}

\* Only a question without a graph takes a single shot, and only one of a
\* conversation writes one.
Placed(q) ==
  /\ q.pc \in SingleShot => q.about \in NoGraph
  /\ q.pc \in {"load", "read", "write"} => q.session # "none"

\* What one question keeps to, wherever it is.
Fine(q) == CallsOf(q) /\ ToolsOf(q) /\ EvidenceOf(q)

LoopInv == \A a \in Asks : Fine(ask[a]) /\ Placed(ask[a])

\* The questions whose call was allowed and not yet recorded, those of them
\* whose call was billed, and those whose call threw.
Allowed == {a \in Asks : ask[a].pc \in {"call", "act", "onceCall", "onceStore"}}
Billed == {a \in Asks : ask[a].pc \in {"act", "onceStore"}}
Failed == {a \in Asks : ask[a].pc = "failed"}

CeilingInv ==
  /\ spent["chat"] + Cardinality(Allowed) <= Limit + Cardinality(Asks) - 1 + passed["chat"]
  /\ billed["chat"] = spent["chat"] + Cardinality(Billed) + unheard["chat"] + lost["chat"]
  /\ unheard["chat"] <= Cardinality(Failed)

\* A conversation as FoldedTurn leaves it.
Numbered(turns) ==
  \A i \in 1..Len(turns), j \in 1..Len(turns) : j = i + 1 => turns[j].n = turns[i].n + 1

Recent(entities) ==
  \A i, j \in 1..Len(entities) : i < j =>
    /\ entities[j].n <= entities[i].n
    /\ entities[j].value # entities[i].value

Sound(c) ==
  /\ c \in Conversations
  /\ Len(c.turns) <= MaxSessionTurns
  /\ \A i \in 1..Len(c.turns) : c.turns[i].about = c.analysis
  /\ \A i \in 1..Len(c.entities) : c.entities[i].value.of = c.analysis
  /\ Numbered(c.turns) /\ Recent(c.entities)
  /\ c.turns = <<>> => c.entities = <<>>
  /\ \A i \in 1..Len(c.entities) : c.entities[i].n <= c.turns[Len(c.turns)].n

SessionsInv ==
  /\ \A s \in Sessions : store[s] = <<>> \/ Sound(store[s])
  /\ \A a \in Asks : ask[a].pc = "write" =>
       shared /\ Sound(ask[a].base) /\ ask[a].base.analysis = ask[a].about

\* What a process of its own remembers of its conversations.
Scoped(a) == \A b \in Asks : ask[b].session = ask[a].session => ask[b].about = ask[a].about

LocalInv ==
  /\ \A s \in Sessions : store[s] # <<>> =>
       \E a \in Asks : ask[a].session = s /\ ask[a].about = store[s].analysis
  /\ ~shared => \A a \in Asks :
       (ask[a].pc = "done" /\ ask[a].session # "none" /\ ask[a].about \notin NoGraph /\ Scoped(a))
       => /\ store[ask[a].session] # <<>>
          /\ LET turns == store[ask[a].session].turns
             IN Len(turns) = MaxSessionTurns \/ \E i \in 1..Len(turns) : turns[i].by = a

AskInv == TypeInv /\ LoopInv /\ CeilingInv /\ SessionsInv /\ LocalInv
----------------------------------------------------------------------------
(* A question in its loop                                                  *)

\* A question stays about its analysis, and in its session.
Same(q, r) == r.about = q.about /\ r.session = q.session

\* The loop is left for the conversation, or for good.
LEMMA GivenUpIsFine ==
  ASSUME NEW q \in Questions, NEW stop \in Stops \ {"answered"},
         q.ran <= q.toolCalls, q.ran > 0 => q.calls > q.ranAt \/ ~Affordable("chat"),
         EvidenceOf(q)
  PROVE  LET r == GivenUp(q, stop)
         IN r \in Questions /\ Fine(r) /\ Same(q, r) /\ Placed(r)
PROOF
<1> DEFINE r == GivenUp(q, stop)
<1>1. /\ r.pc = NextPc(q) /\ r.pc \in {"done", "read"}
      /\ r.pc = "read" => q.session # "none"
      /\ r.stop \in Stops \ {"answered"}
  BY DEF GivenUp, NextPc, Questions, Stops
<1>2. /\ r \in Questions /\ Same(q, r) /\ r.calls = q.calls /\ r.ran = q.ran
      /\ r.toolCalls = q.toolCalls /\ r.ranAt = q.ranAt /\ r.cites = q.cites
      /\ r.chunks = q.chunks /\ r.files = q.files
  BY <1>1 DEF GivenUp, Questions, AskPc, Same
<1>3. Fine(r)
  BY <1>1, <1>2 DEF Fine, CallsOf, ToolsOf, EvidenceOf, Waiting, SingleShot, Same
<1>4. Placed(r)
  BY <1>1, <1>2 DEF Placed, SingleShot, Same
<1> QED
  BY <1>2, <1>3, <1>4

\* What follows a tool that was refused, or that ran: another turn, or the forced
\* answer once the turns are up, and the question is accounted for either way.
LEMMA NextTurnIsFine ==
  ASSUME NEW q \in Questions, q.calls = q.turn, q.ran <= q.toolCalls,
         q.ran > 0 => q.ranAt <= q.calls /\ (q.turn = MaxTurns => q.ranAt < q.calls),
         EvidenceOf(q), q.stop # "answered"
  PROVE  LET r == NextTurn(q)
         IN r \in Questions /\ Fine(r) /\ Same(q, r) /\ Placed(r)
PROOF
<1>1. CASE q.turn = MaxTurns
  <2>1. q.ran > 0 => q.calls > q.ranAt
    BY <1>1 DEF Questions
  <2>2. NextTurn(q) = GivenUp(q, "turn-limit")
    BY <1>1 DEF NextTurn
  <2> QED
    BY <2>1, <2>2, GivenUpIsFine DEF Stops
<1>2. CASE q.turn # MaxTurns
  <2> DEFINE r == [q EXCEPT !.turn = @ + 1, !.pc = "turn"]
  <2>0. NextTurn(q) = r
    BY <1>2 DEF NextTurn
  <2>1. q.turn + 1 \in 1..MaxTurns
    BY <1>2, AskAssumption DEF Questions
  <2>2. /\ r \in Questions /\ Same(q, r) /\ r.pc = "turn" /\ r.turn = q.turn + 1
        /\ r.calls = q.calls /\ r.ran = q.ran /\ r.toolCalls = q.toolCalls
        /\ r.ranAt = q.ranAt /\ r.cites = q.cites /\ r.chunks = q.chunks
        /\ r.files = q.files /\ r.stop = q.stop
    BY <2>1 DEF Questions, AskPc, Same
  <2>3. Fine(r) /\ Placed(r)
    BY <2>2 DEF Fine, CallsOf, ToolsOf, EvidenceOf, Waiting, SingleShot, Same, Placed
  <2> QED
    BY <2>0, <2>2, <2>3
<1> QED
  BY <1>1, <1>2

\* A reply that cannot be read is asked for again, or given up, within the bounds.
LEMMA UnparseableIsFine ==
  ASSUME NEW q \in Questions, q.pc = "act", Fine(q)
  PROVE  LET r == Unparseable(q)
         IN r \in Questions /\ Fine(r) /\ Same(q, r) /\ Placed(r)
PROOF
<1> DEFINE r == [q EXCEPT !.badReplies = @ + 1]
<1>1. /\ r \in Questions /\ r.pc = "act" /\ Same(q, r) /\ r.turn = q.turn
      /\ r.calls = q.calls /\ r.ran = q.ran /\ r.toolCalls = q.toolCalls
      /\ r.ranAt = q.ranAt /\ r.cites = q.cites /\ r.chunks = q.chunks
      /\ r.files = q.files /\ r.stop = q.stop
  BY DEF Questions, Same
<1>2. /\ r.calls = r.turn /\ r.ran <= r.toolCalls /\ r.stop # "answered"
      /\ r.ran > 0 => r.ranAt < r.calls
      /\ EvidenceOf(r)
  BY <1>1 DEF Fine, CallsOf, ToolsOf, EvidenceOf, Same
<1>3. CASE r.badReplies > MaxParseRetries
  <2>1. Unparseable(q) = GivenUp(r, "parse-failure")
    BY <1>3 DEF Unparseable
  <2>2. r.ran > 0 => r.calls > r.ranAt
    BY <1>1, <1>2 DEF Questions
  <2> HIDE DEF r
  <2>3. /\ GivenUp(r, "parse-failure") \in Questions /\ Fine(GivenUp(r, "parse-failure"))
        /\ Same(r, GivenUp(r, "parse-failure")) /\ Placed(GivenUp(r, "parse-failure"))
    BY <1>1, <1>2, <2>2, GivenUpIsFine DEF Stops
  <2> QED
    BY <1>1, <2>1, <2>3 DEF Same
<1>4. CASE ~(r.badReplies > MaxParseRetries)
  <2>1. Unparseable(q) = NextTurn(r)
    BY <1>4 DEF Unparseable
  <2>2. r.ran > 0 => r.ranAt <= r.calls /\ (r.turn = MaxTurns => r.ranAt < r.calls)
    BY <1>1, <1>2 DEF Questions
  <2> HIDE DEF r
  <2>3. /\ NextTurn(r) \in Questions /\ Fine(NextTurn(r))
        /\ Same(r, NextTurn(r)) /\ Placed(NextTurn(r))
    BY <1>1, <1>2, <2>2, NextTurnIsFine
  <2> QED
    BY <1>1, <2>1, <2>3 DEF Same
<1> QED
  BY <1>3, <1>4

\* Dropping what no tool returned leaves an answer that is grounded, or none.
LEMMA GroundedIsFine ==
  ASSUME NEW q \in Questions, q.pc = "act", Fine(q),
         NEW claim \in Claims(q)
  PROVE  LET r == Grounded(q, claim)
         IN r \in Questions /\ Fine(r) /\ Same(q, r) /\ Placed(r)
PROOF
<1> DEFINE cites == {c \in claim.cites : c \in q.chunks \cup q.files}
           answered == claim.answered /\ cites # {}
           r == Grounded(q, claim)
<1>1. /\ cites \subseteq q.chunks \cup q.files /\ cites \in SUBSET Things
      /\ answered \in BOOLEAN /\ claim.answered \in BOOLEAN
  BY DEF Questions, Claims
<1>2. NextPc(q) \in {"done", "read"} /\ (NextPc(q) = "read" => q.session # "none")
  BY DEF NextPc
<1>3. r = [q EXCEPT !.pc = NextPc(q), !.answered = answered, !.cites = cites,
                    !.stop = IF answered THEN "answered" ELSE "refused"]
  BY DEF Grounded
<1>4. answered => cites # {}
  OBVIOUS
<1> HIDE DEF cites, answered, r
<1>5. /\ r \in Questions /\ r.pc = NextPc(q) /\ Same(q, r) /\ r.turn = q.turn
      /\ r.calls = q.calls /\ r.ran = q.ran /\ r.toolCalls = q.toolCalls
      /\ r.ranAt = q.ranAt /\ r.cites = cites /\ r.chunks = q.chunks
      /\ r.files = q.files /\ (r.stop = "answered" => answered)
  <2>1. (IF answered THEN "answered" ELSE "refused") \in Stops
    BY DEF Stops
  <2>2. NextPc(q) \in AskPc
    BY <1>2 DEF AskPc
  <2> QED
    BY <1>1, <1>3, <2>1, <2>2 DEF Questions, Same
<1>6. CallsOf(r) /\ ToolsOf(r)
  BY <1>2, <1>5 DEF Fine, CallsOf, ToolsOf, Waiting, SingleShot, Questions
<1>7. EvidenceOf(r)
  BY <1>1, <1>2, <1>4, <1>5 DEF Fine, EvidenceOf, Same
<1>8. Placed(r)
  BY <1>2, <1>5 DEF Placed, SingleShot, Same
<1> QED
  BY <1>5, <1>6, <1>7, <1>8 DEF Fine, r

\* What a tool returned is the question's own, and was returned before a turn
\* that is still to come.
LEMMA ReturnIsFine ==
  ASSUME NEW q \in Questions, q.pc = "tool", Fine(q),
         NEW o \in Outcomes(q.tool, q.about)
  PROVE  LET r == NextTurn([q EXCEPT
                    !.toolCalls = @ + 1, !.ran = @ + 1, !.ranAt = q.turn,
                    !.chunks = @ \cup o.chunks,
                    !.files = @ \cup (o.files \cap {File(q.about)})])
         IN r \in Questions /\ Fine(r) /\ Same(q, r) /\ Placed(r)
PROOF
<1> DEFINE chunks == q.chunks \cup o.chunks
           files == q.files \cup (o.files \cap {File(q.about)})
           r == [q EXCEPT !.toolCalls = @ + 1, !.ran = @ + 1, !.ranAt = q.turn,
                          !.chunks = @ \cup o.chunks,
                          !.files = @ \cup (o.files \cap {File(q.about)})]
<1>1. Chunk(q.about) \in Things /\ File(q.about) \in Things
  BY DEF Chunk, File, Things, Questions
<1>2. o.chunks \subseteq {Chunk(q.about)}
  BY DEF Outcomes
<1>3. /\ chunks \in SUBSET Things /\ chunks \subseteq {Chunk(q.about)}
      /\ files \in SUBSET Things /\ files \subseteq {File(q.about)}
      /\ q.cites \subseteq chunks \cup files
  BY <1>1, <1>2 DEF Questions, Fine, EvidenceOf
<1>4. /\ q.toolCalls + 1 \in 0..MaxToolCalls /\ q.ran + 1 \in 0..MaxToolCalls
      /\ q.ran + 1 <= q.toolCalls + 1 /\ q.ran + 1 # 0
      /\ q.turn < MaxTurns /\ q.turn \in 0..MaxTurns /\ q.calls = q.turn
  BY AskAssumption DEF Questions, Fine, ToolsOf, CallsOf
<1>5. r = [q EXCEPT !.toolCalls = q.toolCalls + 1, !.ran = q.ran + 1, !.ranAt = q.turn,
                    !.chunks = chunks, !.files = files]
  OBVIOUS
<1> HIDE DEF chunks, files, r
<1>6. /\ r \in Questions /\ Same(q, r) /\ r.turn = q.turn /\ r.calls = q.calls
      /\ r.ran = q.ran + 1 /\ r.toolCalls = q.toolCalls + 1 /\ r.ranAt = q.turn
      /\ r.cites = q.cites /\ r.chunks = chunks /\ r.files = files
      /\ r.stop = q.stop /\ r.pc = "tool"
  BY <1>3, <1>4, <1>5 DEF Questions, Same
<1>7. EvidenceOf(r) /\ r.stop # "answered"
  BY <1>3, <1>4, <1>6 DEF Fine, EvidenceOf, Same
<1>8. /\ r.calls = r.turn /\ r.ran <= r.toolCalls
      /\ r.ran > 0 => r.ranAt <= r.calls /\ (r.turn = MaxTurns => r.ranAt < r.calls)
  BY <1>4, <1>6
<1>9. /\ NextTurn(r) \in Questions /\ Fine(NextTurn(r))
      /\ Same(r, NextTurn(r)) /\ Placed(NextTurn(r))
  BY <1>6, <1>7, <1>8, NextTurnIsFine
<1> QED
  BY <1>6, <1>9 DEF Same, r

----------------------------------------------------------------------------
(* The steps of a question                                                 *)

\* No step of a question takes back what the day's counter holds of calls.
LEMMA SpentGrows ==
  ASSUME TypeInv, NEW a \in Asks, Answer(a)
  PROVE  /\ spent' \in [Units -> Nat] /\ billed' \in [Units -> Nat]
         /\ spent'["chat"] >= spent["chat"] /\ spent["chat"] \in Nat /\ spent'["chat"] \in Nat
PROOF
<1>1. \/ spent' = spent
      \/ \E u \in Units : spent' = [spent EXCEPT ![u] = @ + 1]
  BY DEF Answer, Begin, Load, CheckTurn, Reply, Act, ToolReturns, ReadSession, WriteSession,
         EmbedQuery, Embed, StoreEmbedding, Retrieve, CompleteOnce, StoreAnswer, Record, Units
<1>2. \/ billed' = billed
      \/ \E u \in Units : billed' = [billed EXCEPT ![u] = @ + 1]
  BY DEF Answer, Begin, Load, CheckTurn, Reply, Act, ToolReturns, ReadSession, WriteSession, Throws,
         EmbedQuery, Embed, StoreEmbedding, Retrieve, CompleteOnce, StoreAnswer, Bill, Units
<1>3. spent \in [Units -> Nat] /\ billed \in [Units -> Nat] /\ "chat" \in Units
  BY DEF TypeInv, Units
<1>4. spent' \in [Units -> Nat] /\ spent'["chat"] >= spent["chat"]
  BY <1>1, <1>3
<1>5. billed' \in [Units -> Nat]
  BY <1>2, <1>3
<1> QED
  BY <1>3, <1>4, <1>5

\* What is only observed keeps its shape.
LEMMA SlipsStep ==
  ASSUME TypeInv, NEW a \in Asks, Answer(a)
  PROVE  /\ unheard' \in [Units -> Nat] /\ passed' \in [Units -> Nat] /\ lost' \in [Units -> Nat]
         /\ missed' \subseteq Asks
PROOF
<1>0. /\ unheard \in [Units -> Nat] /\ passed \in [Units -> Nat] /\ lost \in [Units -> Nat]
      /\ missed \subseteq Asks /\ "chat" \in Units /\ "embedding" \in Units
  BY DEF TypeInv, Units
<1>1. \/ unheard' = unheard
      \/ \E u \in Units : unheard' = [unheard EXCEPT ![u] = @ + 1]
  BY <1>0 DEF Answer, Begin, Load, CheckTurn, Reply, Act, ToolReturns, ReadSession, WriteSession, slips,
         EmbedQuery, Embed, StoreEmbedding, Retrieve, CompleteOnce, StoreAnswer, Throws
<1>2. \/ passed' = passed
      \/ \E u \in Units : passed' = [passed EXCEPT ![u] = @ + 1]
  <2>1. \A u \in Units : LetThrough(u) \/ (\E pc : Budgeted(a, u, pc)) =>
          passed' = passed \/ passed' = [passed EXCEPT ![u] = @ + 1]
    BY DEF LetThrough, Budgeted
  <2> QED
    BY <1>0, <2>1 DEF Answer, Begin, Load, CheckTurn, Reply, Act, ToolReturns, ReadSession, WriteSession,
           slips, EmbedQuery, Embed, StoreEmbedding, Retrieve, CompleteOnce, StoreAnswer
<1>3. \/ lost' = lost
      \/ \E u \in Units : lost' = [lost EXCEPT ![u] = @ + 1]
  BY <1>0 DEF Answer, Begin, Load, CheckTurn, Reply, Act, ToolReturns, ReadSession, WriteSession, slips,
         EmbedQuery, Embed, StoreEmbedding, Retrieve, CompleteOnce, StoreAnswer, Record
<1>4. missed' = missed \/ missed' = missed \cup {a}
  BY DEF Answer, Begin, Load, CheckTurn, Reply, Act, ToolReturns, ReadSession, WriteSession, slips,
         EmbedQuery, Embed, StoreEmbedding, Retrieve, CompleteOnce, StoreAnswer
<1> QED
  BY <1>0, <1>1, <1>2, <1>3, <1>4

\* A ceiling that is reached stays reached.
LEMMA ToolsLater ==
  ASSUME TypeInv, spent'["chat"] \in Nat, spent'["chat"] >= spent["chat"],
         NEW r \in Questions, Fine(r)
  PROVE  CallsOf(r) /\ ToolsOf(r)' /\ EvidenceOf(r)
PROOF
<1>1. spent["chat"] \in Nat /\ Limit \in Nat
  BY AskAssumption DEF TypeInv, Units
<1>2. ~Affordable("chat") => ~Affordable("chat")'
  BY <1>1 DEF Affordable
<1> QED
  BY <1>2 DEF Fine, ToolsOf

\* The session made for a question is a conversation.
LEMMA EmptySessionIsConversation ==
  ASSUME NEW x \in Analyses
  PROVE  EmptySession(x) \in Conversations
PROOF
<1>1. <<>> \in Seq(Turns) /\ <<>> \in Seq(Entities)
  OBVIOUS
<1> QED
  BY <1>1 DEF EmptySession, Conversations

\* So is the one a question goes on with, whatever was stored.
LEMMA ContinuedIsConversation ==
  ASSUME NEW c \in Conversations \cup {<<>>}, NEW x \in Analyses
  PROVE  Continued(c, x) \in Conversations
PROOF
  BY EmptySessionIsConversation DEF Continued

\* A step that only moves a question on.
LEMMA PcIsFine ==
  ASSUME NEW q \in Questions, NEW pc \in AskPc, NEW r, r = [q EXCEPT !.pc = pc],
         CallsOf(r), ToolsOf(r), Placed(r), EvidenceOf(q),
         q.stop = "answered" => pc \in {"read", "write", "done"}
  PROVE  r \in Questions /\ Fine(r) /\ Same(q, r) /\ Placed(r)
PROOF
<1>1. /\ r \in Questions /\ Same(q, r) /\ r.chunks = q.chunks /\ r.files = q.files
      /\ r.ran = q.ran /\ r.cites = q.cites /\ r.stop = q.stop /\ r.pc = pc
  BY DEF Questions, Same
<1>2. EvidenceOf(r)
  BY <1>1 DEF EvidenceOf, Same
<1> QED
  BY <1>1, <1>2 DEF Fine

\* A question that only moves on keeps all but its place.
LEMMA PcFields ==
  ASSUME NEW q \in Questions, NEW pc, NEW r, r = [q EXCEPT !.pc = pc]
  PROVE  /\ r.pc = pc /\ r.calls = q.calls /\ r.turn = q.turn /\ r.ran = q.ran
         /\ r.about = q.about /\ r.session = q.session /\ r.toolCalls = q.toolCalls
         /\ r.ranAt = q.ranAt
PROOF
  BY DEF Questions

\* Every step of a question leaves it one, in keeping with what it may be.
LEMMA AnswerMoves ==
  ASSUME TypeInv, LoopInv, NEW a \in Asks, Answer(a)
  PROVE  \E r \in Questions :
           /\ ask' = [ask EXCEPT ![a] = r] /\ Same(ask[a], r)
           /\ Fine(r) /\ Placed(r)
PROOF
<1> DEFINE q == ask[a]
           Moved(r) == /\ r \in Questions /\ ask' = [ask EXCEPT ![a] = r]
                       /\ Same(q, r) /\ Fine(r) /\ Placed(r)
<1> SUFFICES \E r : Moved(r)
  OBVIOUS
<1>0. ask \in [Asks -> Questions] /\ q \in Questions /\ Fine(q) /\ Placed(q)
  BY DEF TypeInv, LoopInv
<1>1. /\ q \in Questions /\ Fine(q) /\ Placed(q) /\ ask \in [Asks -> Questions]
      /\ q.calls \in 0..MaxTurns /\ q.turn \in 1..MaxTurns /\ q.ran \in 0..MaxToolCalls
      /\ MaxTurns \in Nat \ {0} /\ MaxToolCalls \in Nat
      /\ q.ranAt \in Nat /\ q.toolCalls \in Nat
  <2>1. /\ q.calls \in 0..MaxTurns /\ q.turn \in 1..MaxTurns /\ q.ran \in 0..MaxToolCalls
        /\ q.ranAt \in 0..MaxTurns /\ q.toolCalls \in 0..MaxToolCalls
    BY <1>0 DEF Questions
  <2> QED BY <1>0, <2>1, AskAssumption
<1>2. ASSUME NEW pc \in AskPc, ask' = [ask EXCEPT ![a].pc = pc],
             NEW r, r = [q EXCEPT !.pc = pc],
             CallsOf(r), ToolsOf(r), Placed(r),
             q.stop = "answered" => pc \in {"read", "write", "done"}
      PROVE  \E s : Moved(s)
  <2>1. r \in Questions /\ Fine(r) /\ Same(q, r) /\ Placed(r)
    BY <1>1, <1>2, PcIsFine DEF Fine
  <2>2. ask' = [ask EXCEPT ![a] = r]
    BY <1>2
  <2> QED
    BY <2>1, <2>2
<1>3. ASSUME Begin(a) PROVE \E r : Moved(r)
  <2> PICK pc \in {"unavailable", "embed", "turn", "load"} :
        /\ Goto(a, pc)
        /\ pc = "embed" => q.about \in NoGraph
        /\ pc = "load" => q.session # "none"
    BY <1>3 DEF Begin
  <2> DEFINE r == [q EXCEPT !.pc = pc]
  <2>1. /\ r.pc = pc /\ r.calls = q.calls /\ r.turn = q.turn /\ r.ran = q.ran
        /\ r.about = q.about /\ r.session = q.session /\ r.toolCalls = q.toolCalls
        /\ r.ranAt = q.ranAt
    BY <1>1, PcFields
  <2>2. q.turn = 1 /\ q.calls = 0 /\ q.ran = 0 /\ q.stop # "answered"
    BY <1>1, <1>3 DEF Begin, Fine, CallsOf, EvidenceOf, Waiting
  <2>3. pc \in AskPc
    BY DEF AskPc
  <2>4. CallsOf(r) /\ ToolsOf(r) /\ Placed(r)
    BY <1>1, <2>1, <2>2 DEF CallsOf, ToolsOf, Placed, Waiting, SingleShot
  <2> HIDE DEF r
  <2> QED
    BY <1>2, <2>2, <2>3, <2>4 DEF r, Goto
<1>4. ASSUME Load(a) PROVE \E r : Moved(r)
  <2> PICK m \in {store[q.session]} \cup (IF shared /\ "session" \in Faults THEN {<<>>} ELSE {}) :
        ask' = [ask EXCEPT ![a].pc = "turn", ![a].memory = m]
    BY <1>4 DEF Load
  <2> DEFINE r == [q EXCEPT !.pc = "turn", !.memory = m]
  <2>0. q.session # "none"
    BY <1>1, <1>4 DEF Load, Placed
  <2>1. m \in Conversations \cup {<<>>}
    BY <1>1, <2>0 DEF TypeInv, Questions
  <2>2. ask' = [ask EXCEPT ![a] = r]
    BY <1>1
  <2>3. /\ r \in Questions /\ Same(q, r) /\ r.pc = "turn" /\ r.calls = q.calls
        /\ r.turn = q.turn /\ r.ran = q.ran /\ r.toolCalls = q.toolCalls /\ r.ranAt = q.ranAt
        /\ r.chunks = q.chunks /\ r.files = q.files /\ r.cites = q.cites /\ r.stop = q.stop
    BY <1>1, <2>1 DEF Questions, Same, AskPc
  <2>4. q.turn = 1 /\ q.calls = 0 /\ q.ran = 0 /\ q.stop # "answered"
    BY <1>1, <1>4 DEF Load, Fine, CallsOf, EvidenceOf, Waiting
  <2>5. Fine(r) /\ Placed(r)
    BY <1>1, <2>3, <2>4 DEF Fine, CallsOf, ToolsOf, EvidenceOf, Placed, Waiting, SingleShot, Same
  <2> QED
    BY <2>2, <2>3, <2>5
<1>5. ASSUME CheckTurn(a) PROVE \E r : Moved(r)
  <2>1. CASE LetThrough("chat") /\ Goto(a, "call")
    <3> DEFINE r == [q EXCEPT !.pc = "call"]
    <3>1. /\ r.pc = "call" /\ r.calls = q.calls /\ r.turn = q.turn /\ r.ran = q.ran
          /\ r.about = q.about /\ r.session = q.session /\ r.toolCalls = q.toolCalls
          /\ r.ranAt = q.ranAt
      BY <1>1, PcFields
    <3>2. q.pc = "turn" /\ q.stop # "answered"
      BY <1>1, <1>5 DEF CheckTurn, Fine, EvidenceOf
    <3>3. CallsOf(r) /\ ToolsOf(r) /\ Placed(r)
      BY <1>1, <3>1, <3>2 DEF Fine, CallsOf, ToolsOf, Placed, Waiting, SingleShot
    <3> HIDE DEF r
    <3> QED
      BY <1>2, <2>1, <3>2, <3>3 DEF Goto, r, AskPc
  <2>2. CASE ~Affordable("chat") /\ ask' = [ask EXCEPT ![a] = GivenUp(@, "budget-exhausted")]
    <3>1. q.ran <= q.toolCalls /\ EvidenceOf(q)
      BY <1>1 DEF Fine, ToolsOf
    <3> DEFINE r == GivenUp(q, "budget-exhausted")
    <3>2. r \in Questions /\ Fine(r) /\ Same(q, r) /\ Placed(r)
      BY <1>1, <2>2, <3>1, GivenUpIsFine DEF Stops
    <3>3. ask' = [ask EXCEPT ![a] = r]
      BY <1>1, <2>2
    <3> QED
      BY <3>2, <3>3
  <2> QED
    BY <1>5, <2>1, <2>2 DEF CheckTurn
<1>6. ASSUME Reply(a) PROVE \E r : Moved(r)
  <2>0. q.pc = "call" /\ q.stop # "answered" /\ q.calls + 1 = q.turn
    BY <1>1, <1>6 DEF Reply, Fine, EvidenceOf, CallsOf
  <2>1. CASE ask' = [ask EXCEPT ![a].pc = "act", ![a].calls = @ + 1]
    <3> DEFINE r == [q EXCEPT !.pc = "act", !.calls = q.calls + 1]
    <3>1. q.calls + 1 \in 0..MaxTurns
      BY <1>1, <2>0
    <3>2. ask' = [ask EXCEPT ![a] = r]
      BY <1>1, <2>1
    <3>3. /\ r \in Questions /\ Same(q, r) /\ r.pc = "act" /\ r.calls = q.calls + 1
          /\ r.turn = q.turn /\ r.ran = q.ran /\ r.toolCalls = q.toolCalls /\ r.ranAt = q.ranAt
          /\ r.chunks = q.chunks /\ r.files = q.files /\ r.cites = q.cites /\ r.stop = q.stop
      BY <1>1, <3>1 DEF Questions, Same, AskPc
    <3>4. Fine(r) /\ Placed(r)
      BY <1>1, <2>0, <3>3
         DEF Fine, CallsOf, ToolsOf, EvidenceOf, Placed, Waiting, SingleShot, Same
    <3> QED
      BY <3>2, <3>3, <3>4
  <2>2. CASE Goto(a, "failed")
    <3> DEFINE r == [q EXCEPT !.pc = "failed"]
    <3>1. /\ r.pc = "failed" /\ r.calls = q.calls /\ r.turn = q.turn /\ r.ran = q.ran
          /\ r.about = q.about /\ r.session = q.session /\ r.toolCalls = q.toolCalls
          /\ r.ranAt = q.ranAt
      BY <1>1, PcFields
    <3>2. CallsOf(r) /\ ToolsOf(r) /\ Placed(r)
      BY <1>1, <2>0, <3>1 DEF Fine, CallsOf, ToolsOf, Placed, Waiting, SingleShot
    <3> HIDE DEF r
    <3> QED
      BY <1>2, <2>0, <2>2, <3>2 DEF Goto, r, AskPc
  <2> QED
    BY <1>6, <2>1, <2>2 DEF Reply, Throws
<1>7. ASSUME Act(a) PROVE \E r : Moved(r)
  <2>0. /\ q.pc = "act" /\ q.calls = q.turn /\ q.ran <= q.toolCalls /\ EvidenceOf(q)
        /\ q.ran > 0 => q.ranAt < q.calls
        /\ q.stop # "answered"
    BY <1>1, <1>7 DEF Act, Fine, CallsOf, ToolsOf, EvidenceOf
  <2>1. CASE ask' = [ask EXCEPT ![a] = Unparseable(q)]
    BY <1>1, <2>0, <2>1, UnparseableIsFine
  <2>2. CASE \E claim \in Claims(q) : ask' = [ask EXCEPT ![a] = Grounded(q, claim)]
    BY <1>1, <2>0, <2>2, GroundedIsFine
  <2>3. CASE ask' = [ask EXCEPT ![a] = NextTurn(q)]
    <3>1. q.ran > 0 => q.ranAt <= q.calls /\ (q.turn = MaxTurns => q.ranAt < q.calls)
      BY <1>1, <2>0
    <3>2. NextTurn(q) \in Questions /\ Fine(NextTurn(q)) /\ Same(q, NextTurn(q)) /\ Placed(NextTurn(q))
      BY <1>1, <2>0, <3>1, NextTurnIsFine
    <3> QED
      BY <2>3, <3>2
  <2>4. CASE ~Forced(q) /\ ask' = [ask EXCEPT ![a] = NextTurn([q EXCEPT !.toolCalls = @ + 1])]
    <3> DEFINE r == [q EXCEPT !.toolCalls = q.toolCalls + 1]
    <3>0. q.toolCalls + 1 \in 0..MaxToolCalls
      BY <1>1, <2>4 DEF Forced, Questions
    <3>1. /\ r \in Questions /\ Same(q, r) /\ r.calls = q.calls /\ r.turn = q.turn
          /\ r.ran = q.ran /\ r.ranAt = q.ranAt /\ r.toolCalls = q.toolCalls + 1
          /\ r.chunks = q.chunks /\ r.files = q.files /\ r.cites = q.cites
          /\ r.stop = q.stop /\ r.pc = q.pc
      BY <1>1, <3>0 DEF Questions, Same
    <3>2. /\ r.calls = r.turn /\ r.ran <= r.toolCalls /\ r.stop # "answered"
          /\ r.ran > 0 => r.ranAt <= r.calls /\ (r.turn = MaxTurns => r.ranAt < r.calls)
      BY <1>1, <2>0, <3>1
    <3>3. EvidenceOf(r)
      BY <2>0, <3>1 DEF EvidenceOf, Same
    <3>4. ask' = [ask EXCEPT ![a] = NextTurn(r)]
      BY <2>4
    <3> HIDE DEF r
    <3>5. /\ NextTurn(r) \in Questions /\ Fine(NextTurn(r)) /\ Same(r, NextTurn(r))
          /\ Placed(NextTurn(r))
      BY <3>1, <3>2, <3>3, NextTurnIsFine
    <3> QED
      BY <3>1, <3>4, <3>5 DEF Same
  <2>5. CASE ~Forced(q) /\ \E t \in Tools : ask' = [ask EXCEPT ![a].pc = "tool", ![a].tool = t]
    <3> PICK t \in Tools : ask' = [ask EXCEPT ![a].pc = "tool", ![a].tool = t]
      BY <2>5
    <3> DEFINE r == [q EXCEPT !.pc = "tool", !.tool = t]
    <3>1. ask' = [ask EXCEPT ![a] = r]
      BY <1>1
    <3>2. /\ r \in Questions /\ Same(q, r) /\ r.pc = "tool" /\ r.calls = q.calls
          /\ r.turn = q.turn /\ r.ran = q.ran /\ r.toolCalls = q.toolCalls /\ r.ranAt = q.ranAt
          /\ r.chunks = q.chunks /\ r.files = q.files /\ r.cites = q.cites /\ r.stop = q.stop
      BY <1>1 DEF Questions, Same, AskPc
    <3>3. q.toolCalls < MaxToolCalls /\ q.turn < MaxTurns
      BY <1>1, <2>5 DEF Forced
    <3>4. Fine(r) /\ Placed(r)
      BY <1>1, <2>0, <3>2, <3>3
         DEF Fine, CallsOf, ToolsOf, EvidenceOf, Placed, Waiting, SingleShot, Same
    <3> QED
      BY <3>1, <3>2, <3>4
  <2> QED
    BY <1>7, <2>1, <2>2, <2>3, <2>4, <2>5 DEF Act
<1>8. ASSUME ToolReturns(a) PROVE \E r : Moved(r)
  <2>1. q.pc = "tool"
    BY <1>8 DEF ToolReturns
  <2> PICK o \in Outcomes(q.tool, q.about) :
        ask' = [ask EXCEPT ![a] = NextTurn([q EXCEPT
          !.toolCalls = @ + 1, !.ran = @ + 1, !.ranAt = q.turn,
          !.chunks = @ \cup o.chunks,
          !.files = @ \cup (o.files \cap {File(q.about)})])]
    BY <1>8 DEF ToolReturns
  <2> QED
    BY <1>1, <2>1, ReturnIsFine
<1>9. ASSUME ReadSession(a) PROVE \E r : Moved(r)
  <2>0. q.pc = "read" /\ q.session # "none"
    BY <1>1, <1>9 DEF ReadSession, Placed
  <2>1. CASE Goto(a, "done")
    <3> DEFINE r == [q EXCEPT !.pc = "done"]
    <3>1. /\ r.pc = "done" /\ r.calls = q.calls /\ r.turn = q.turn /\ r.ran = q.ran
          /\ r.about = q.about /\ r.session = q.session /\ r.toolCalls = q.toolCalls
          /\ r.ranAt = q.ranAt
      BY <1>1, PcFields
    <3>2. CallsOf(r) /\ ToolsOf(r) /\ Placed(r)
      BY <1>1, <2>0, <3>1 DEF Fine, CallsOf, ToolsOf, Placed, Waiting, SingleShot
    <3> HIDE DEF r
    <3> QED
      BY <1>2, <2>0, <2>1, <3>2 DEF Goto, r, AskPc
  <2>2. CASE \E base \in {Continued(store[q.session], q.about)} \cup {EmptySession(q.about)} :
               ask' = [ask EXCEPT ![a].pc = "write", ![a].base = base]
    <3> PICK base \in {Continued(store[q.session], q.about)} \cup {EmptySession(q.about)} :
               ask' = [ask EXCEPT ![a].pc = "write", ![a].base = base]
      BY <2>2
    <3> DEFINE r == [q EXCEPT !.pc = "write", !.base = base]
    <3>1. q.about \in Analyses /\ store[q.session] \in Conversations \cup {<<>>}
      BY <1>1, <2>0 DEF TypeInv, Questions
    <3>2. base \in Conversations
      BY <3>1, EmptySessionIsConversation, ContinuedIsConversation
    <3>3. ask' = [ask EXCEPT ![a] = r]
      BY <1>1
    <3>4. /\ r \in Questions /\ Same(q, r) /\ r.pc = "write" /\ r.calls = q.calls
          /\ r.turn = q.turn /\ r.ran = q.ran /\ r.toolCalls = q.toolCalls /\ r.ranAt = q.ranAt
          /\ r.chunks = q.chunks /\ r.files = q.files /\ r.cites = q.cites /\ r.stop = q.stop
      BY <1>1, <3>2 DEF Questions, Same, AskPc
    <3>5. Fine(r) /\ Placed(r)
      BY <1>1, <2>0, <3>4
         DEF Fine, CallsOf, ToolsOf, EvidenceOf, Placed, Waiting, SingleShot, Same
    <3> QED
      BY <3>3, <3>4, <3>5
  <2> QED
    BY <1>9, <2>1, <2>2 DEF ReadSession
<1>10. ASSUME WriteSession(a) PROVE \E r : Moved(r)
  <2> DEFINE r == [q EXCEPT !.pc = "done"]
  <2>0. q.pc = "write" /\ Goto(a, "done")
    BY <1>10 DEF WriteSession
  <2>1. /\ r.pc = "done" /\ r.calls = q.calls /\ r.turn = q.turn /\ r.ran = q.ran
        /\ r.about = q.about /\ r.session = q.session /\ r.toolCalls = q.toolCalls
        /\ r.ranAt = q.ranAt
    BY <1>1, PcFields
  <2>2. CallsOf(r) /\ ToolsOf(r) /\ Placed(r)
    BY <1>1, <2>0, <2>1 DEF Fine, CallsOf, ToolsOf, Placed, Waiting, SingleShot
  <2> HIDE DEF r
  <2> QED
    BY <1>2, <2>0, <2>2 DEF Goto, r, AskPc
\* In a single shot nothing but the place changes, until the call.
<1>11. ASSUME q.pc \in SingleShot \ {"onceStore"}, NEW pc \in AskPc \ {"load", "read", "write", "idle",
                "turn", "call", "act", "tool"},
              Goto(a, pc)
       PROVE  \E r : Moved(r)
  <2> DEFINE r == [q EXCEPT !.pc = pc]
  <2>1. /\ r.pc = pc /\ r.calls = q.calls /\ r.turn = q.turn /\ r.ran = q.ran
        /\ r.about = q.about /\ r.session = q.session /\ r.toolCalls = q.toolCalls
        /\ r.ranAt = q.ranAt
    BY <1>1, PcFields
  <2>2. q.calls = 0 /\ q.ran = 0 /\ q.stop # "answered" /\ q.about \in NoGraph
    BY <1>1, <1>11 DEF Fine, CallsOf, EvidenceOf, Placed, SingleShot
  <2>3. CallsOf(r) /\ ToolsOf(r) /\ Placed(r)
    BY <1>1, <2>1, <2>2, <1>11 DEF CallsOf, ToolsOf, Placed, Waiting, SingleShot
  <2> HIDE DEF r
  <2> QED
    BY <1>2, <1>11, <2>2, <2>3 DEF Goto, r
<1>12. ASSUME q.pc \in SingleShot, NEW answered \in BOOLEAN,
              ask' = [ask EXCEPT ![a].pc = "done", ![a].answered = answered]
       PROVE  \E r : Moved(r)
  <2> DEFINE r == [q EXCEPT !.pc = "done", !.answered = answered]
  <2>1. ask' = [ask EXCEPT ![a] = r]
    BY <1>1, <1>12
  <2>2. /\ r \in Questions /\ Same(q, r) /\ r.pc = "done" /\ r.calls = q.calls
        /\ r.turn = q.turn /\ r.ran = q.ran /\ r.toolCalls = q.toolCalls /\ r.ranAt = q.ranAt
        /\ r.chunks = q.chunks /\ r.files = q.files /\ r.cites = q.cites /\ r.stop = q.stop
    BY <1>1 DEF Questions, Same, AskPc
  <2>3. q.ran = 0 /\ q.stop # "answered" /\ q.about \in NoGraph
    BY <1>1, <1>12 DEF Fine, CallsOf, EvidenceOf, Placed, SingleShot
  <2>4. Fine(r) /\ Placed(r)
    BY <1>1, <2>2, <2>3
       DEF Fine, CallsOf, ToolsOf, EvidenceOf, Placed, Waiting, SingleShot, Same
  <2> QED
    BY <2>1, <2>2, <2>4
<1>13. ASSUME CompleteOnce(a) PROVE \E r : Moved(r)
  <2>0. /\ q.pc = "onceCall" /\ q.calls = 0 /\ q.ran = 0 /\ q.stop # "answered"
        /\ q.about \in NoGraph
    BY <1>1, <1>13 DEF CompleteOnce, Fine, CallsOf, EvidenceOf, Placed, SingleShot
  <2>1. CASE ask' = [ask EXCEPT ![a].pc = "onceStore", ![a].calls = @ + 1]
    <3> DEFINE r == [q EXCEPT !.pc = "onceStore", !.calls = q.calls + 1]
    <3>1. ask' = [ask EXCEPT ![a] = r]
      BY <1>1, <2>1
    <3>2. q.calls + 1 \in 0..MaxTurns
      BY <1>1, <2>0
    <3>3. /\ r \in Questions /\ Same(q, r) /\ r.pc = "onceStore" /\ r.calls = q.calls + 1
          /\ r.turn = q.turn /\ r.ran = q.ran /\ r.toolCalls = q.toolCalls /\ r.ranAt = q.ranAt
          /\ r.chunks = q.chunks /\ r.files = q.files /\ r.cites = q.cites /\ r.stop = q.stop
      BY <1>1, <3>2 DEF Questions, Same, AskPc
    <3>4. Fine(r) /\ Placed(r)
      BY <1>1, <2>0, <3>3
         DEF Fine, CallsOf, ToolsOf, EvidenceOf, Placed, Waiting, SingleShot, Same
    <3> QED
      BY <3>1, <3>3, <3>4
  <2>2. CASE Goto(a, "failed")
    BY <1>11, <2>0, <2>2 DEF SingleShot, AskPc
  <2> QED
    BY <1>13, <2>1, <2>2 DEF CompleteOnce, Throws
<1>14. ASSUME Retrieve(a) PROVE \E r : Moved(r)
  <2>1. q.pc \in SingleShot \ {"onceStore"}
    BY <1>14 DEF Retrieve, SingleShot
  <2>2. CASE \E pc \in {"refused", "onceCall", "capacity"} : Goto(a, pc)
    BY <1>11, <2>1, <2>2 DEF AskPc
  <2>3. CASE ask' = [ask EXCEPT ![a].pc = "done", ![a].answered = cached.answers[ask[a].about] = "yes"]
    <3> DEFINE answered == cached.answers[ask[a].about] = "yes"
    <3>1. answered \in BOOLEAN
      OBVIOUS
    <3>2. ask' = [ask EXCEPT ![a].pc = "done", ![a].answered = answered]
      BY <2>3
    <3> HIDE DEF answered
    <3> QED
      BY <1>12, <2>1, <3>1, <3>2
  <2> QED
    BY <1>14, <2>2, <2>3 DEF Retrieve, Budgeted
<1>15. ASSUME StoreAnswer(a) PROVE \E r : Moved(r)
  <2> PICK answer \in {"yes", "no"} :
        ask' = [ask EXCEPT ![a].pc = "done", ![a].answered = answer = "yes"]
    BY <1>15 DEF StoreAnswer
  <2> DEFINE answered == answer = "yes"
  <2>1. answered \in BOOLEAN
    OBVIOUS
  <2>2. ask' = [ask EXCEPT ![a].pc = "done", ![a].answered = answered]
    OBVIOUS
  <2>3. q.pc \in SingleShot
    BY <1>15 DEF StoreAnswer, SingleShot
  <2> HIDE DEF answered
  <2> QED
    BY <1>12, <2>1, <2>2, <2>3
<1>16. ASSUME EmbedQuery(a) \/ Embed(a) \/ StoreEmbedding(a) PROVE \E r : Moved(r)
  <2>1. /\ q.pc \in SingleShot \ {"onceStore"}
        /\ \E pc \in {"retrieve", "embedCall", "capacity", "embedStore", "failed"} : Goto(a, pc)
    BY <1>16 DEF EmbedQuery, Embed, StoreEmbedding, SingleShot, Budgeted, Throws
  <2> QED
    BY <1>11, <2>1 DEF AskPc
<1> HIDE DEF Moved
<1> QED
  BY <1>3, <1>4, <1>5, <1>6, <1>7, <1>8, <1>9, <1>10, <1>13, <1>14, <1>15, <1>16 DEF Answer

----------------------------------------------------------------------------
(* The ceiling                                                             *)

InAllowed == {"call", "act", "onceCall", "onceStore"}
InBilled == {"act", "onceStore"}

\* The loop goes on with the next turn, or is left.
LEMMA LoopGoes ==
  ASSUME NEW q \in Questions
  PROVE  /\ NextTurn(q).pc \in {"turn", NextPc(q)}
         /\ Unparseable(q).pc \in {"turn", NextPc(q)}
         /\ \A claim \in Claims(q) : Grounded(q, claim).pc = NextPc(q)
         /\ \A stop : GivenUp(q, stop).pc = NextPc(q)
PROOF
<1>1. \A x \in Questions : \A stop : GivenUp(x, stop).pc = NextPc(x)
  BY DEF GivenUp, Questions
<1>2. ASSUME NEW x \in Questions PROVE NextTurn(x).pc \in {"turn", NextPc(x)}
  <2>1. CASE x.turn = MaxTurns
    BY <1>1, <2>1 DEF NextTurn
  <2>2. CASE x.turn # MaxTurns
    BY <2>2 DEF NextTurn, Questions
  <2> QED
    BY <2>1, <2>2
<1>3. Unparseable(q).pc \in {"turn", NextPc(q)}
  <2> DEFINE r == [q EXCEPT !.badReplies = @ + 1]
  <2>1. r \in Questions /\ NextPc(r) = NextPc(q)
    BY DEF Questions, NextPc
  <2>2. Unparseable(q) = GivenUp(r, "parse-failure") \/ Unparseable(q) = NextTurn(r)
    BY DEF Unparseable
  <2> HIDE DEF r
  <2> QED
    BY <1>1, <1>2, <2>1, <2>2
<1>4. \A claim \in Claims(q) : Grounded(q, claim).pc = NextPc(q)
  BY DEF Grounded, Questions
<1> QED
  BY <1>1, <1>2, <1>3, <1>4

\* Where the steps of the loop lead.
LEMMA LoopSteps ==
  ASSUME TypeInv, LoopInv, NEW a \in Asks
  PROVE  /\ Act(a) => ask'[a].pc \in {"turn", "tool", NextPc(ask[a])}
         /\ ToolReturns(a) => ask'[a].pc \in {"turn", NextPc(ask[a])}
PROOF
<1> DEFINE q == ask[a]
<1>0. q \in Questions /\ ask \in [Asks -> Questions]
  BY DEF TypeInv
<1>1. ASSUME Act(a) PROVE ask'[a].pc \in {"turn", "tool", NextPc(q)}
  <2>1. CASE ask' = [ask EXCEPT ![a] = Unparseable(q)]
    BY <1>0, <2>1, LoopGoes
  <2>2. CASE \E claim \in Claims(q) : ask' = [ask EXCEPT ![a] = Grounded(q, claim)]
    BY <1>0, <2>2, LoopGoes
  <2>3. CASE ask' = [ask EXCEPT ![a] = NextTurn(q)]
    BY <1>0, <2>3, LoopGoes
  <2>4. CASE ~Forced(q) /\ ask' = [ask EXCEPT ![a] = NextTurn([q EXCEPT !.toolCalls = @ + 1])]
    <3> DEFINE r == [q EXCEPT !.toolCalls = @ + 1]
    <3>0. q.toolCalls + 1 \in 0..MaxToolCalls
      <4>1. q.toolCalls \in 0..MaxToolCalls /\ MaxToolCalls \in Nat
        BY <1>0, AskAssumption DEF Questions
      <4> QED
        BY <2>4, <4>1 DEF Forced
    <3>1. r \in Questions /\ NextPc(r) = NextPc(q)
      BY <1>0, <3>0 DEF Questions, NextPc
    <3>2. ask'[a] = NextTurn(r)
      BY <1>0, <2>4
    <3> HIDE DEF r
    <3> QED
      BY <3>1, <3>2, LoopGoes
  <2>5. CASE \E t \in Tools : ask' = [ask EXCEPT ![a].pc = "tool", ![a].tool = t]
    BY <1>0, <2>5 DEF Questions
  <2> QED
    BY <1>1, <2>1, <2>2, <2>3, <2>4, <2>5 DEF Act
<1>2. ASSUME ToolReturns(a) PROVE ask'[a].pc \in {"turn", NextPc(q)}
  <2> PICK o \in Outcomes(q.tool, q.about) :
        ask' = [ask EXCEPT ![a] = NextTurn([q EXCEPT
          !.toolCalls = @ + 1, !.ran = @ + 1, !.ranAt = q.turn,
          !.chunks = @ \cup o.chunks,
          !.files = @ \cup (o.files \cap {File(q.about)})])]
    BY <1>2 DEF ToolReturns
  <2> DEFINE r == [q EXCEPT
          !.toolCalls = @ + 1, !.ran = @ + 1, !.ranAt = q.turn,
          !.chunks = @ \cup o.chunks,
          !.files = @ \cup (o.files \cap {File(q.about)})]
  <2>1. NextPc(r) = NextPc(q)
    BY <1>0 DEF Questions, NextPc
  <2>2. ask'[a] = NextTurn(r)
    BY <1>0
  <2>3. NextTurn(r).pc = NextPc(r) \/ NextTurn(r).pc = "turn"
    BY <1>0 DEF NextTurn, GivenUp, Questions
  <2> HIDE DEF r
  <2> QED
    BY <2>1, <2>2, <2>3
<1> QED
  BY <1>1, <1>2

\* What a step does to the call of its question and to the counters.
LEMMA CallSteps ==
  ASSUME TypeInv, LoopInv, NEW a \in Asks, Answer(a)
  PROVE  LET pc == ask[a].pc
             next == ask'[a].pc
             s == spent["chat"]
             b == billed["chat"]
             u == unheard["chat"]
             l == lost["chat"]
             p == passed["chat"]
         IN /\ pc # "failed"
            /\ \/ /\ pc \notin InAllowed /\ next \notin InAllowed /\ p' = p
                  /\ s' = s /\ b' = b /\ u' = u /\ l' = l
               \/ /\ pc \notin InAllowed /\ next \in InAllowed \ InBilled
                  /\ (Affordable("chat") /\ p' = p) \/ p' = p + 1
                  /\ s' = s /\ b' = b /\ u' = u /\ l' = l
               \/ /\ pc \in InAllowed \ InBilled /\ next \in InBilled /\ p' = p
                  /\ s' = s /\ b' = b + 1 /\ u' = u /\ l' = l
               \/ /\ pc \in InAllowed \ InBilled /\ next = "failed" /\ p' = p
                  /\ s' = s /\ l' = l
                  /\ \/ b' = b /\ u' = u
                     \/ b' = b + 1 /\ u' = u + 1
               \/ /\ pc \in InBilled /\ next \notin InAllowed /\ p' = p
                  /\ b' = b /\ u' = u
                  /\ \/ s' = s + 1 /\ l' = l
                     \/ s' = s /\ l' = l + 1
PROOF
<1> DEFINE q == ask[a]
           s == spent["chat"]
           b == billed["chat"]
           u == unheard["chat"]
           l == lost["chat"]
           p == passed["chat"]
<1>0. /\ q \in Questions /\ ask \in [Asks -> Questions]
      /\ spent \in [Units -> Nat] /\ billed \in [Units -> Nat]
      /\ unheard \in [Units -> Nat] /\ lost \in [Units -> Nat] /\ passed \in [Units -> Nat]
      /\ "chat" \in Units /\ "embedding" \in Units /\ "chat" # "embedding"
  BY DEF TypeInv, Units
<1>1. \A pc : Goto(a, pc) => ask'[a].pc = pc
  BY <1>0 DEF Goto, Questions
<1>2. /\ Record("chat") => \/ s' = s + 1 /\ l' = l
                           \/ s' = s /\ l' = l + 1
      /\ Record("embedding") => s' = s /\ l' = l
      /\ Bill("chat") => b' = b + 1
      /\ Bill("embedding") => b' = b
      /\ LetThrough("chat") => (Affordable("chat") /\ p' = p) \/ p' = p + 1
      /\ LetThrough("embedding") => p' = p
  <2>1. ASSUME Record("chat") PROVE \/ s' = s + 1 /\ l' = l
                                    \/ s' = s /\ l' = l + 1
    BY <1>0, <2>1 DEF Record
  <2>4. ASSUME Record("embedding") PROVE s' = s /\ l' = l
    BY <1>0, <2>4 DEF Record
  <2>2. /\ Bill("chat") => b' = b + 1
        /\ Bill("embedding") => b' = b
    BY <1>0 DEF Bill
  <2>3. /\ LetThrough("chat") => (Affordable("chat") /\ p' = p) \/ p' = p + 1
        /\ LetThrough("embedding") => p' = p
    BY <1>0 DEF LetThrough
  <2> QED
    BY <2>1, <2>2, <2>3, <2>4
<1>15. /\ Throws(a, "chat") => /\ ask'[a].pc = "failed"
                               /\ \/ b' = b /\ u' = u
                                  \/ b' = b + 1 /\ u' = u + 1
       /\ Throws(a, "embedding") => ask'[a].pc = "failed" /\ b' = b /\ u' = u
  BY <1>0, <1>1, <1>2 DEF Throws
<1>3. CASE Begin(a)
  BY <1>1, <1>3 DEF Begin, InAllowed, slips
<1>4. CASE Load(a)
  <2>1. ask'[a].pc = "turn"
    BY <1>0, <1>4 DEF Load, Questions
  <2> QED
    BY <2>1, <1>4 DEF Load, InAllowed, slips
<1>5. CASE CheckTurn(a)
  <2>1. CASE LetThrough("chat") /\ Goto(a, "call")
    BY <1>1, <1>2, <1>5, <2>1 DEF CheckTurn, InAllowed, InBilled
  <2>2. CASE ask' = [ask EXCEPT ![a] = GivenUp(@, "budget-exhausted")] /\ UNCHANGED passed
    <3>1. ask'[a].pc = NextPc(q)
      BY <1>0, <2>2 DEF GivenUp, Questions
    <3> QED
      BY <3>1, <1>5, <2>2 DEF CheckTurn, InAllowed, NextPc
  <2> QED
    BY <1>5, <2>1, <2>2 DEF CheckTurn
<1>6. CASE Reply(a)
  <2>0. q.pc = "call" /\ s' = s /\ l' = l /\ p' = p
    BY <1>6 DEF Reply
  <2>1. CASE ask' = [ask EXCEPT ![a].pc = "act", ![a].calls = @ + 1] /\ Bill("chat") /\ UNCHANGED unheard
    <3>1. ask'[a].pc = "act"
      BY <1>0, <2>1 DEF Questions
    <3> QED
      BY <1>2, <2>0, <2>1, <3>1 DEF InAllowed, InBilled
  <2>2. CASE Throws(a, "chat")
    BY <1>15, <2>0, <2>2 DEF InAllowed, InBilled
  <2> QED
    BY <1>6, <2>1, <2>2 DEF Reply
<1>7. CASE Act(a)
  <2>1. q.pc = "act" /\ q.pc \in InBilled
    BY <1>7 DEF Act, InBilled
  <2>2. ask'[a].pc \notin InAllowed
    BY <1>7, LoopSteps DEF NextPc, InAllowed
  <2>3. b' = b /\ u' = u /\ p' = p /\ Record("chat")
    BY <1>7 DEF Act
  <2> QED
    BY <1>2, <2>1, <2>2, <2>3
<1>8. CASE ToolReturns(a)
  <2>1. q.pc = "tool" /\ q.pc \notin InAllowed
    BY <1>8 DEF ToolReturns, InAllowed
  <2>2. ask'[a].pc \notin InAllowed
    BY <1>8, LoopSteps DEF NextPc, InAllowed
  <2>3. s' = s /\ b' = b /\ u' = u /\ l' = l /\ p' = p
    BY <1>2, <1>8 DEF ToolReturns, slips
  <2> QED
    BY <2>1, <2>2, <2>3
<1>9. CASE ReadSession(a)
  <2>1. q.pc = "read" /\ s' = s /\ b' = b /\ u' = u /\ l' = l /\ p' = p
    BY <1>9 DEF ReadSession, slips
  <2>2. ask'[a].pc \in {"write", "done"}
    <3>1. CASE Goto(a, "done")
      BY <1>1, <3>1
    <3>2. CASE \E base : ask' = [ask EXCEPT ![a].pc = "write", ![a].base = base]
      BY <1>0, <3>2 DEF Questions
    <3> QED
      BY <1>9, <3>1, <3>2 DEF ReadSession
  <2> QED
    BY <2>1, <2>2 DEF InAllowed
<1>10. CASE WriteSession(a)
  BY <1>1, <1>10 DEF WriteSession, InAllowed, slips
<1>11. CASE EmbedQuery(a) \/ Embed(a) \/ StoreEmbedding(a)
  <2>1. CASE EmbedQuery(a)
    BY <1>1, <1>2, <2>1 DEF EmbedQuery, Budgeted, InAllowed
  <2>2. CASE Embed(a)
    BY <1>1, <1>2, <1>15, <2>2 DEF Embed, InAllowed
  <2>3. CASE StoreEmbedding(a)
    BY <1>1, <1>2, <2>3 DEF StoreEmbedding, InAllowed
  <2> QED
    BY <1>11, <2>1, <2>2, <2>3
<1>12. CASE Retrieve(a)
  <2>0. q.pc = "retrieve" /\ s' = s /\ b' = b /\ u' = u /\ l' = l
    BY <1>12 DEF Retrieve
  <2>1. CASE (Goto(a, "refused") \/ Goto(a, "capacity")) /\ UNCHANGED passed
    BY <1>1, <2>0, <2>1 DEF InAllowed
  <2>2. CASE /\ ask' = [ask EXCEPT ![a].pc = "done", ![a].answered = cached.answers[ask[a].about] = "yes"]
             /\ UNCHANGED passed
    <3>1. ask'[a].pc = "done"
      BY <1>0, <2>2 DEF Questions
    <3> QED
      BY <2>0, <2>2, <3>1 DEF InAllowed
  <2>3. CASE LetThrough("chat") /\ Goto(a, "onceCall")
    BY <1>1, <1>2, <2>0, <2>3 DEF InAllowed, InBilled
  <2> QED
    BY <1>12, <2>1, <2>2, <2>3 DEF Retrieve, Budgeted
<1>13. CASE CompleteOnce(a)
  <2>0. q.pc = "onceCall" /\ s' = s /\ l' = l /\ p' = p
    BY <1>13 DEF CompleteOnce
  <2>1. CASE /\ ask' = [ask EXCEPT ![a].pc = "onceStore", ![a].calls = @ + 1]
             /\ Bill("chat") /\ UNCHANGED unheard
    <3>1. ask'[a].pc = "onceStore"
      BY <1>0, <2>1 DEF Questions
    <3> QED
      BY <1>2, <2>0, <2>1, <3>1 DEF InAllowed, InBilled
  <2>2. CASE Throws(a, "chat")
    BY <1>15, <2>0, <2>2 DEF InAllowed, InBilled
  <2> QED
    BY <1>13, <2>1, <2>2 DEF CompleteOnce
<1>14. CASE StoreAnswer(a)
  <2>1. ask'[a].pc = "done"
    BY <1>0, <1>14 DEF StoreAnswer, Questions
  <2>2. q.pc = "onceStore" /\ b' = b /\ u' = u /\ p' = p /\ Record("chat")
    BY <1>14 DEF StoreAnswer
  <2> QED
    BY <1>2, <2>1, <2>2 DEF InAllowed, InBilled
<1> HIDE DEF s, b, u, l, p
<1> QED
  BY <1>3, <1>4, <1>5, <1>6, <1>7, <1>8, <1>9, <1>10, <1>11, <1>12, <1>13, <1>14 DEF Answer

\* The questions past their check are never more than all of them, so the day's
\* ceiling is passed by at most all but one of them, and by the calls nobody
\* checked.
LEMMA CeilingStep ==
  ASSUME TypeInv, LoopInv, CeilingInv, NEW a \in Asks, Answer(a)
  PROVE  CeilingInv'
PROOF
<1>1. \A b \in Asks : b # a => ask'[b] = ask[b]
  <2> PICK r \in Questions : ask' = [ask EXCEPT ![a] = r]
    BY AnswerMoves
  <2> QED
    BY DEF TypeInv
<1> DEFINE AllowedAt(f) == {b \in Asks : f[b].pc \in InAllowed}
           BilledAt(f) == {b \in Asks : f[b].pc \in InBilled}
           FailedAt(f) == {b \in Asks : f[b].pc = "failed"}
<1>2. /\ Allowed = AllowedAt(ask) /\ Allowed' = AllowedAt(ask')
      /\ Billed = BilledAt(ask) /\ Billed' = BilledAt(ask')
      /\ Failed = FailedAt(ask) /\ Failed' = FailedAt(ask')
  BY DEF Allowed, Billed, Failed, InAllowed, InBilled
<1>3. /\ IsFiniteSet(Asks) /\ Cardinality(Asks) \in Nat /\ Asks # {}
      /\ Limit \in Nat /\ Cardinality(Asks) > 0
  BY AskAssumption, FS_CardinalityType, FS_EmptySet
<1>4. /\ IsFiniteSet(Allowed) /\ Cardinality(Allowed) \in Nat
      /\ IsFiniteSet(Billed) /\ Cardinality(Billed) \in Nat
      /\ IsFiniteSet(Failed) /\ Cardinality(Failed) \in Nat
      /\ Cardinality(Allowed) <= Cardinality(Asks)
  BY <1>3, FS_Subset, FS_CardinalityType DEF Allowed, Billed, Failed
<1>5. /\ spent["chat"] \in Nat /\ billed["chat"] \in Nat /\ unheard["chat"] \in Nat
      /\ lost["chat"] \in Nat /\ passed["chat"] \in Nat
      /\ InBilled \subseteq InAllowed
  BY DEF TypeInv, Units, InAllowed, InBilled
<1> DEFINE pc == ask[a].pc
           next == ask'[a].pc
<1> HIDE DEF pc, next
<1>6. /\ pc \notin InAllowed /\ next \notin InAllowed => Allowed' = Allowed
      /\ pc \in InAllowed /\ next \in InAllowed => Allowed' = Allowed
      /\ pc \notin InAllowed /\ next \in InAllowed => Allowed' = Allowed \cup {a} /\ a \notin Allowed
      /\ pc \in InAllowed /\ next \notin InAllowed => Allowed' = Allowed \ {a} /\ a \in Allowed
  BY <1>1, <1>2 DEF pc, next
<1>7. /\ pc \notin InBilled /\ next \notin InBilled => Billed' = Billed
      /\ pc \notin InBilled /\ next \in InBilled => Billed' = Billed \cup {a} /\ a \notin Billed
      /\ pc \in InBilled /\ next \notin InBilled => Billed' = Billed \ {a} /\ a \in Billed
  BY <1>1, <1>2 DEF pc, next
<1>20. pc # "failed" => \/ Failed' = Failed /\ next # "failed"
                        \/ Failed' = Failed \cup {a} /\ a \notin Failed /\ next = "failed"
  BY <1>1, <1>2 DEF pc, next
<1>8. /\ a \notin Allowed => Cardinality(Allowed \cup {a}) = Cardinality(Allowed) + 1
      /\ a \in Allowed => Cardinality(Allowed \ {a}) = Cardinality(Allowed) - 1
      /\ a \notin Billed => Cardinality(Billed \cup {a}) = Cardinality(Billed) + 1
      /\ a \in Billed => Cardinality(Billed \ {a}) = Cardinality(Billed) - 1
      /\ a \notin Failed => Cardinality(Failed \cup {a}) = Cardinality(Failed) + 1
  BY <1>4, FS_AddElement, FS_RemoveElement
<1>9. a \notin Allowed => Cardinality(Allowed) <= Cardinality(Asks) - 1
  <2>1. SUFFICES ASSUME a \notin Allowed PROVE Cardinality(Allowed) <= Cardinality(Asks) - 1
    OBVIOUS
  <2>2. Allowed \subseteq Asks \ {a}
    BY <2>1 DEF Allowed
  <2>3. Cardinality(Asks \ {a}) = Cardinality(Asks) - 1 /\ IsFiniteSet(Asks \ {a})
    BY <1>3, FS_RemoveElement
  <2> QED
    BY <2>2, <2>3, FS_Subset
<1> DEFINE s == spent["chat"]
           b == billed["chat"]
           u == unheard["chat"]
           l == lost["chat"]
           p == passed["chat"]
           m == Cardinality(Allowed)
           n == Cardinality(Billed)
           f == Cardinality(Failed)
           Room == Limit + Cardinality(Asks) - 1
<1>10. /\ pc # "failed"
       /\ \/ /\ pc \notin InAllowed /\ next \notin InAllowed /\ p' = p
             /\ s' = s /\ b' = b /\ u' = u /\ l' = l
          \/ /\ pc \notin InAllowed /\ next \in InAllowed \ InBilled
             /\ (Affordable("chat") /\ p' = p) \/ p' = p + 1
             /\ s' = s /\ b' = b /\ u' = u /\ l' = l
          \/ /\ pc \in InAllowed \ InBilled /\ next \in InBilled /\ p' = p
             /\ s' = s /\ b' = b + 1 /\ u' = u /\ l' = l
          \/ /\ pc \in InAllowed \ InBilled /\ next = "failed" /\ p' = p
             /\ s' = s /\ l' = l
             /\ \/ b' = b /\ u' = u
                \/ b' = b + 1 /\ u' = u + 1
          \/ /\ pc \in InBilled /\ next \notin InAllowed /\ p' = p
             /\ b' = b /\ u' = u
             /\ \/ s' = s + 1 /\ l' = l
                \/ s' = s /\ l' = l + 1
  BY CallSteps DEF pc, next
<1>11. s + m <= Room + p /\ b = s + n + u + l /\ u <= f
  BY DEF CeilingInv
<1>12. CeilingInv' <=> /\ s' + m' <= Room + p'
                       /\ b' = s' + n' + u' + l'
                       /\ u' <= f'
  BY DEF CeilingInv
<1>13. Affordable("chat") <=> s + 1 <= Limit
  BY DEF Affordable
<1>14. /\ s \in Nat /\ b \in Nat /\ u \in Nat /\ l \in Nat /\ p \in Nat
       /\ m \in Nat /\ n \in Nat /\ f \in Nat /\ Room \in Nat /\ Room = Limit + Cardinality(Asks) - 1
  BY <1>3, <1>4, <1>5
\* How the three sets grow.
<1>21. /\ pc \notin InAllowed /\ next \notin InAllowed => m' = m /\ n' = n
       /\ pc \notin InAllowed /\ next \in InAllowed \ InBilled => m' = m + 1 /\ n' = n /\ m <= Cardinality(Asks) - 1
       /\ pc \in InAllowed \ InBilled /\ next \in InBilled => m' = m /\ n' = n + 1
       /\ pc \in InAllowed \ InBilled /\ next \notin InAllowed => m' = m - 1 /\ n' = n
       /\ pc \in InBilled /\ next \notin InAllowed => m' = m - 1 /\ n' = n - 1
  BY <1>5, <1>6, <1>7, <1>8, <1>9
<1>22. pc # "failed" => \/ f' = f /\ next # "failed"
                        \/ f' = f + 1 /\ next = "failed"
  <2>1. CASE Failed' = Failed /\ next # "failed"
    BY <2>1
  <2>2. CASE Failed' = Failed \cup {a} /\ a \notin Failed /\ next = "failed"
    BY <1>8, <2>2
  <2> QED
    BY <1>20, <2>1, <2>2
<1>23. "failed" \notin InAllowed
  BY DEF InAllowed
<1> HIDE DEF s, b, u, l, p, m, n, f, Room, AllowedAt, BilledAt, FailedAt
<1>15. CASE pc \notin InAllowed /\ next \notin InAllowed
  BY <1>5, <1>10, <1>11, <1>12, <1>14, <1>15, <1>21, <1>22
<1>16. CASE pc \notin InAllowed /\ next \in InAllowed \ InBilled
  <2>1. /\ s' = s /\ b' = b /\ u' = u /\ l' = l
        /\ (s + 1 <= Limit /\ p' = p) \/ p' = p + 1
    BY <1>5, <1>10, <1>13, <1>16, <1>23
  <2>2. m' = m + 1 /\ n' = n /\ m <= Cardinality(Asks) - 1 /\ f' \in {f, f + 1}
    BY <1>10, <1>16, <1>21, <1>22
  <2>3. CASE p' = p + 1
    BY <1>11, <1>12, <1>14, <2>1, <2>2, <2>3
  <2>4. CASE s + 1 <= Limit /\ p' = p
    <3>1. s + (m + 1) <= Limit + Cardinality(Asks) - 1
      BY <1>3, <1>14, <2>2, <2>4
    <3> QED
      BY <1>11, <1>12, <1>14, <2>1, <2>2, <2>4, <3>1
  <2> QED
    BY <2>1, <2>3, <2>4
<1>17. CASE pc \in InAllowed \ InBilled /\ next \in InBilled
  <2>1. s' = s /\ b' = b + 1 /\ u' = u /\ l' = l /\ p' = p
    BY <1>5, <1>10, <1>17, <1>23
  <2>2. m' = m /\ n' = n + 1 /\ f' \in {f, f + 1}
    BY <1>10, <1>17, <1>21, <1>22
  <2> QED
    BY <1>11, <1>12, <1>14, <2>1, <2>2
<1>18. CASE pc \in InAllowed \ InBilled /\ next = "failed"
  <2>1. /\ s' = s /\ l' = l /\ p' = p
        /\ \/ b' = b /\ u' = u
           \/ b' = b + 1 /\ u' = u + 1
    BY <1>5, <1>10, <1>18, <1>23
  <2>2. m' = m - 1 /\ n' = n /\ f' = f + 1
    BY <1>10, <1>18, <1>21, <1>22, <1>23
  <2> QED
    BY <1>11, <1>12, <1>14, <2>1, <2>2
<1>19. CASE pc \in InBilled /\ next \notin InAllowed
  <2>1. /\ b' = b /\ u' = u /\ p' = p
        /\ \/ s' = s + 1 /\ l' = l
           \/ s' = s /\ l' = l + 1
    BY <1>5, <1>10, <1>19
  <2>2. m' = m - 1 /\ n' = n - 1 /\ f' \in {f, f + 1}
    BY <1>10, <1>19, <1>21, <1>22
  <2> QED
    BY <1>11, <1>12, <1>14, <2>1, <2>2
<1> QED
  BY <1>10, <1>15, <1>16, <1>17, <1>18, <1>19

----------------------------------------------------------------------------
(* What is kept of a sequence                                              *)

\* Every set of numbers that is not empty has a least.
LEMMA LeastElement ==
  ASSUME NEW S \in SUBSET Nat, S # {}
  PROVE  \E n \in S : \A m \in S : n <= m
PROOF
<1> DEFINE R == OpToRel(<, Nat)
<1>1. PICK n \in S : \A m \in S : <<m, n>> \notin R
  <2>1. IsWellFoundedOn(R, Nat)
    BY NatLessThanWellFounded
  <2> HIDE DEF R
  <2> QED
    BY <2>1, WFMin
<1>2. ASSUME NEW m \in S, m < n PROVE <<m, n>> \in R
  BY <1>2 DEF OpToRel
<1> HIDE DEF R
<1>3. \A m \in S : ~(m < n)
  BY <1>1, <1>2
<1>4. \A m \in S : m \in Nat /\ n \in Nat
  OBVIOUS
<1> QED
  BY <1>3, <1>4

Increasing(f, K) == \A i, j \in 1..Cardinality(K) : i < j => f[i] < f[j]

\* A finite set of numbers can be counted from the least to the greatest.
LEMMA Counted ==
  ASSUME NEW n \in Nat, NEW K \in SUBSET (1..n)
  PROVE  \E f \in [1..Cardinality(K) -> K] : Increasing(f, K)
PROOF
<1> DEFINE Has(L) == \E f \in [1..Cardinality(L) -> L] : Increasing(f, L)
           Bad == {m \in Nat : \E L \in SUBSET (1..m) : ~Has(L)}
<1> SUFFICES ASSUME ~Has(K) PROVE FALSE
  OBVIOUS
<1>1. Bad \in SUBSET Nat /\ n \in Bad
  OBVIOUS
<1>2. PICK m \in Bad : \A k \in Bad : m <= k
  <2> HIDE DEF Bad
  <2> QED
    BY <1>1, LeastElement
<1>3. PICK L \in SUBSET (1..m) : ~Has(L)
  OBVIOUS
<1>13. ASSUME NEW k \in Nat, NEW M \in SUBSET (1..k), ~Has(M) PROVE m <= k
  <2>1. k \in Bad
    BY <1>13
  <2> HIDE DEF Bad
  <2> QED
    BY <1>2, <2>1
<1>14. m \in Nat
  OBVIOUS
<1> HIDE DEF Bad, Has
<1>4. m \in Nat /\ IsFiniteSet(L) /\ Cardinality(L) \in Nat
  <2>1. IsFiniteSet(1..m) /\ m \in Nat
    BY <1>14, FS_Interval
  <2> QED
    BY <2>1, FS_Subset, FS_CardinalityType
<1>5. m \in L
  <2> SUFFICES ASSUME m \notin L PROVE FALSE
    OBVIOUS
  <2>1. CASE m = 0
    <3>0. L = {}
      BY <2>1
    <3>1. Cardinality(L) = 0
      BY <3>0, FS_EmptySet
    <3> DEFINE f == [i \in 1..Cardinality(L) |-> i]
    <3>2. f \in [1..Cardinality(L) -> L] /\ Increasing(f, L)
      BY <3>1 DEF Increasing
    <3> QED
      BY <1>3, <3>2 DEF Has
  <2>2. CASE m > 0
    <3>1. m - 1 \in Nat /\ L \in SUBSET (1..(m - 1))
      BY <1>4, <2>2
    <3>2. m <= m - 1
      BY <1>3, <1>13, <3>1
    <3> QED
      BY <1>4, <3>2
  <2> QED
    BY <1>4, <2>1, <2>2
<1> DEFINE R == L \ {m}
           c == Cardinality(R)
<1>6. IsFiniteSet(R) /\ c \in Nat /\ Cardinality(L) = c + 1
  <2>1. IsFiniteSet(R) /\ c = Cardinality(L) - 1
    BY <1>4, <1>5, FS_RemoveElement
  <2>2. c \in Nat
    BY <2>1, FS_CardinalityType
  <2> QED
    BY <1>4, <2>1, <2>2
<1>7. m > 0 /\ m - 1 \in Nat /\ R \in SUBSET (1..(m - 1))
  BY <1>4, <1>5
<1>8. Has(R)
  <2> SUFFICES ASSUME ~Has(R) PROVE FALSE
    OBVIOUS
  <2> HIDE DEF R
  <2>1. m <= m - 1
    BY <1>7, <1>13
  <2> QED
    BY <1>4, <2>1
<1>9. PICK f \in [1..c -> R] : Increasing(f, R)
  BY <1>8 DEF Has
<1> DEFINE g == [i \in 1..(c + 1) |-> IF i = c + 1 THEN m ELSE f[i]]
<1>10. g \in [1..(c + 1) -> L]
  <2> SUFFICES ASSUME NEW i \in 1..(c + 1) PROVE (IF i = c + 1 THEN m ELSE f[i]) \in L
    OBVIOUS
  <2>1. i # c + 1 => i \in 1..c
    BY <1>6
  <2> QED
    BY <1>5, <2>1
<1>11. \A i, j \in 1..(c + 1) : i < j => g[i] < g[j]
  <2> SUFFICES ASSUME NEW i \in 1..(c + 1), NEW j \in 1..(c + 1), i < j PROVE g[i] < g[j]
    OBVIOUS
  <2> HIDE DEF R, c
  <2>1. i \in 1..c /\ g[i] = f[i] /\ f[i] \in R
    BY <1>6
  <2>2. CASE j = c + 1
    <3>1. g[j] = m /\ f[i] \in 1..(m - 1)
      BY <1>7, <2>1, <2>2
    <3> QED
      BY <1>4, <2>1, <3>1
  <2>3. CASE j # c + 1
    <3>1. j \in 1..c /\ g[j] = f[j]
      BY <1>6, <2>3
    <3> QED
      BY <1>9, <2>1, <3>1 DEF Increasing, c
  <2> QED
    BY <2>2, <2>3
<1>12. g \in [1..Cardinality(L) -> L] /\ Increasing(g, L)
  BY <1>6, <1>10, <1>11 DEF Increasing
<1> QED
  BY <1>3, <1>12 DEF Has

\* The kept elements are elements, in the order they had.
LEMMA KeptInOrder ==
  ASSUME NEW S, NEW s \in Seq(S), NEW K \in SUBSET (1..Len(s))
  PROVE  /\ Kept(s, K) \in Seq(S) /\ Len(Kept(s, K)) = Cardinality(K)
         /\ \E f \in [1..Cardinality(K) -> K] :
              /\ Increasing(f, K)
              /\ \A i \in 1..Cardinality(K) : Kept(s, K)[i] = s[f[i]]
PROOF
<1>1. Len(s) \in Nat
  OBVIOUS
<1> DEFINE f == CHOOSE f \in [1..Cardinality(K) -> K] :
                  \A i, j \in 1..Cardinality(K) : i < j => f[i] < f[j]
<1>2. f \in [1..Cardinality(K) -> K] /\ Increasing(f, K)
  BY <1>1, Counted DEF Increasing
<1>3. Cardinality(K) \in Nat
  <2>1. IsFiniteSet(1..Len(s))
    BY <1>1, FS_Interval
  <2> QED
    BY <2>1, FS_Subset, FS_CardinalityType
<1>4. Kept(s, K) = [i \in 1..Cardinality(K) |-> s[f[i]]]
  BY DEF Kept
<1> HIDE DEF f
<1>5. \A i \in 1..Cardinality(K) : s[f[i]] \in S
  BY <1>2, ElementOfSeq
<1>6. Kept(s, K) \in [1..Cardinality(K) -> S]
  BY <1>4, <1>5
<1>7. Kept(s, K) \in Seq(S) /\ Len(Kept(s, K)) = Cardinality(K)
  BY <1>3, <1>6
<1> QED
  BY <1>2, <1>4, <1>7

\* The last n of a sequence are its end, in its order.
LEMMA LastOnes ==
  ASSUME NEW S, NEW s \in Seq(S), NEW n \in Nat
  PROVE  /\ LastN(s, n) \in Seq(S)
         /\ Len(LastN(s, n)) = IF Len(s) > n THEN n ELSE Len(s)
         /\ \A i \in 1..Len(LastN(s, n)) :
              LastN(s, n)[i] = s[i + Len(s) - Len(LastN(s, n))]
PROOF
<1> DEFINE first == IF Len(s) > n THEN Len(s) - n + 1 ELSE 1
<1>1. Len(s) \in Nat /\ first \in Int /\ first \in 1..(Len(s) + 1) /\ LastN(s, n) = SubSeq(s, first, Len(s))
  BY DEF LastN
<1>2. \A i \in first..Len(s) : s[i] \in S
  BY <1>1, ElementOfSeq
<1>3. /\ LastN(s, n) \in Seq(S)
      /\ Len(LastN(s, n)) = IF first <= Len(s) THEN Len(s) - first + 1 ELSE 0
      /\ \A i \in 1..(Len(s) - first + 1) : LastN(s, n)[i] = s[first + i - 1]
  BY <1>1, <1>2, SubSeqProperties
<1>4. Len(LastN(s, n)) = Len(s) - first + 1
  BY <1>1, <1>3
<1>5. Len(s) - first + 1 = IF Len(s) > n THEN n ELSE Len(s)
  BY <1>1
<1> HIDE DEF first
<1>6. ASSUME NEW i \in 1..Len(LastN(s, n))
      PROVE  LastN(s, n)[i] = s[i + Len(s) - Len(LastN(s, n))]
  <2>1. LastN(s, n)[i] = s[first + i - 1]
    BY <1>3, <1>4
  <2>2. first + i - 1 = i + Len(s) - Len(LastN(s, n))
    BY <1>1, <1>4
  <2> QED
    BY <2>1, <2>2
<1> QED
  BY <1>3, <1>4, <1>5, <1>6

\* The first n of a sequence are its beginning.
LEMMA FirstOnes ==
  ASSUME NEW S, NEW s \in Seq(S), NEW n \in Nat
  PROVE  /\ FirstN(s, n) \in Seq(S)
         /\ Len(FirstN(s, n)) \in 0..Len(s)
         /\ \A i \in 1..Len(FirstN(s, n)) : FirstN(s, n)[i] = s[i]
PROOF
<1> DEFINE last == IF Len(s) > n THEN n ELSE Len(s)
<1>1. Len(s) \in Nat /\ last \in Nat /\ last <= Len(s) /\ FirstN(s, n) = SubSeq(s, 1, last)
  BY DEF FirstN
<1>2. \A i \in 1..last : s[i] \in S
  BY <1>1, ElementOfSeq
<1>3. /\ FirstN(s, n) \in Seq(S)
      /\ Len(FirstN(s, n)) = IF 1 <= last THEN last - 1 + 1 ELSE 0
      /\ \A i \in 1..(last - 1 + 1) : FirstN(s, n)[i] = s[1 + i - 1]
  BY <1>1, <1>2, SubSeqProperties
<1>4. Len(FirstN(s, n)) = last
  BY <1>1, <1>3
<1> HIDE DEF last
<1>5. \A i \in 1..last : FirstN(s, n)[i] = s[i]
  BY <1>1, <1>3
<1> QED
  BY <1>1, <1>3, <1>4, <1>5

----------------------------------------------------------------------------
(* What a turn leaves of a conversation                                    *)

\* A turn's mentions are about its analysis, and none comes twice.
Mentions(m, x) ==
  /\ m \in Seq(Things)
  /\ \A i \in 1..Len(m) : m[i].of = x
  /\ \A i, j \in 1..Len(m) : i < j => m[j] # m[i]

Among(s, E) == \A i \in 1..Len(s) : s[i] \in E

\* One entity at most is mentioned once.
LEMMA MentionedAlone ==
  ASSUME NEW x, NEW e \in Things, e.of = x, NEW s, s = <<>> \/ s = <<e>>
  PROVE  Mentions(s, x) /\ Among(s, {e})
PROOF
<1>1. CASE s = <<>>
  <2>1. s \in Seq(Things) /\ Len(s) = 0
    BY <1>1
  <2> QED
    BY <2>1 DEF Mentions, Among
<1>2. CASE s = <<e>>
  <2>1. s \in Seq(Things) /\ Len(s) = 1 /\ s[1] = e
    BY <1>2
  <2>2. \A i \in 1..Len(s) : i = 1
    BY <2>1
  <2> QED
    BY <2>1, <2>2 DEF Mentions, Among
<1> QED
  BY <1>1, <1>2

\* Two lists of mentions without a common entity are one list of mentions.
LEMMA MentionedTogether ==
  ASSUME NEW x, NEW s, NEW t, NEW E, NEW F, Mentions(s, x), Mentions(t, x),
         Among(s, E), Among(t, F), E \cap F = {}
  PROVE  Mentions(s \o t, x) /\ Among(s \o t, E \cup F)
PROOF
<1> DEFINE all == s \o t
<1>1. /\ s \in Seq(Things) /\ t \in Seq(Things) /\ Len(s) \in Nat /\ Len(t) \in Nat
  BY DEF Mentions
<1>2. /\ all \in Seq(Things) /\ Len(all) = Len(s) + Len(t)
      /\ \A i \in 1..Len(all) : all[i] = IF i <= Len(s) THEN s[i] ELSE t[i - Len(s)]
  BY <1>1, ConcatProperties
<1> HIDE DEF all
<1>3. ASSUME NEW i \in 1..Len(all)
      PROVE  \/ i \in 1..Len(s) /\ all[i] = s[i] /\ s[i] \in E /\ s[i].of = x
             \/ /\ i \notin 1..Len(s) /\ i - Len(s) \in 1..Len(t) /\ all[i] = t[i - Len(s)]
                /\ t[i - Len(s)] \in F /\ t[i - Len(s)].of = x
  <2>1. CASE i <= Len(s)
    BY <1>1, <1>2, <2>1 DEF Mentions, Among
  <2>2. CASE ~(i <= Len(s))
    <3>1. i - Len(s) \in 1..Len(t) /\ i \notin 1..Len(s) /\ all[i] = t[i - Len(s)]
      BY <1>1, <1>2, <2>2
    <3> QED
      BY <3>1 DEF Mentions, Among
  <2> QED
    BY <2>1, <2>2
<1>4. ASSUME NEW i \in 1..Len(all), NEW j \in 1..Len(all), i < j PROVE all[j] # all[i]
  <2>1. CASE j \in 1..Len(s)
    <3>1. i \in 1..Len(s)
      BY <1>1, <1>4, <2>1
    <3> QED
      BY <1>3, <1>4, <2>1, <3>1 DEF Mentions
  <2>2. CASE i \in 1..Len(s) /\ j \notin 1..Len(s)
    BY <1>3, <2>2
  <2>3. CASE i \notin 1..Len(s)
    <3>1. j \notin 1..Len(s)
      BY <1>1, <1>4, <2>3
    <3>2. /\ i - Len(s) \in 1..Len(t) /\ j - Len(s) \in 1..Len(t) /\ i - Len(s) < j - Len(s)
          /\ all[i] = t[i - Len(s)] /\ all[j] = t[j - Len(s)]
      BY <1>1, <1>3, <1>4, <2>3, <3>1
    <3> QED
      BY <3>2 DEF Mentions
  <2> QED
    BY <2>1, <2>2, <2>3
<1>5. \A i \in 1..Len(all) : all[i].of = x /\ all[i] \in E \cup F
  BY <1>3
<1> QED
  BY <1>2, <1>4, <1>5 DEF Mentions, Among, all

\* An answer mentions each entity once, and only entities of its analysis.
LEMMA MentionedIsDistinct ==
  ASSUME NEW q \in Questions
  PROVE  Mentions(Mentioned(q), q.about)
PROOF
<1> DEFINE x == q.about
           docs == IF Chunk(x) \in q.cites THEN <<Doc(x)>> ELSE <<>>
           files == IF File(x) \in q.cites THEN <<File(x)>> ELSE <<>>
           symbols == IF Chunk(x) \in q.chunks THEN <<Symbol(x)>> ELSE <<>>
<1>1. /\ Doc(x) \in Things /\ File(x) \in Things /\ Symbol(x) \in Things
      /\ Doc(x).of = x /\ File(x).of = x /\ Symbol(x).of = x
      /\ Doc(x) # File(x) /\ File(x) # Symbol(x) /\ Doc(x) # Symbol(x)
  BY DEF Doc, File, Symbol, Things, Questions
<1>2. Mentioned(q) = docs \o files \o symbols
  BY DEF Mentioned
<1>3. /\ docs = <<>> \/ docs = <<Doc(x)>>
      /\ files = <<>> \/ files = <<File(x)>>
      /\ symbols = <<>> \/ symbols = <<Symbol(x)>>
  OBVIOUS
<1> HIDE DEF docs, files, symbols
<1>4. /\ Mentions(docs, x) /\ Among(docs, {Doc(x)})
      /\ Mentions(files, x) /\ Among(files, {File(x)})
      /\ Mentions(symbols, x) /\ Among(symbols, {Symbol(x)})
  BY <1>1, <1>3, MentionedAlone
<1>5. {Doc(x)} \cap {File(x)} = {} /\ ({Doc(x)} \cup {File(x)}) \cap {Symbol(x)} = {}
  BY <1>1
<1>6. Mentions(docs \o files, x) /\ Among(docs \o files, {Doc(x)} \cup {File(x)})
  BY <1>4, <1>5, MentionedTogether
<1>7. Mentions(docs \o files \o symbols, x)
  BY <1>4, <1>5, <1>6, MentionedTogether
<1> QED
  BY <1>2, <1>7

\* The entities after a turn: what it mentions, then what else was known.
\* Entities of the turns before n, the entities turn n mentions, and both.
Earlier(old, x, n) ==
  /\ old \in Seq(Entities) /\ Recent(old)
  /\ \A i \in 1..Len(old) : old[i].n < n /\ old[i].value.of = x

Anew(fresh, m, n) ==
  /\ fresh \in Seq(Entities) /\ Len(fresh) = Len(m)
  /\ \A i \in 1..Len(m) : fresh[i] = [value |-> m[i], n |-> n]

UpTo(all, x, n) ==
  /\ all \in Seq(Entities) /\ Recent(all)
  /\ \A i \in 1..Len(all) : all[i].n <= n /\ all[i].value.of = x

\* What appendTurn makes of the entities, those of the turn before the rest of the
\* old ones, has each entity once and the latest mentioned first.
LEMMA EntitiesAreRecent ==
  ASSUME NEW x, NEW n \in Nat, NEW m, Mentions(m, x),
         NEW old, Earlier(old, x, n), NEW fresh, Anew(fresh, m, n)
  PROVE  UpTo(fresh \o Kept(old, Unseen(old, m)), x, n)
PROOF
<1> DEFINE K == Unseen(old, m)
           rest == Kept(old, K)
           all == fresh \o rest
<1>0. /\ m \in Seq(Things) /\ Len(m) \in Nat
      /\ old \in Seq(Entities) /\ Recent(old)
      /\ \A i \in 1..Len(old) : old[i].n < n /\ old[i].value.of = x
      /\ fresh \in Seq(Entities) /\ Len(fresh) = Len(m)
      /\ \A i \in 1..Len(m) : fresh[i] = [value |-> m[i], n |-> n]
  BY DEF Mentions, Earlier, Anew
<1>1. K \in SUBSET (1..Len(old)) /\ \A i \in K : old[i].value \notin ToSet(m)
  BY <1>0 DEF Unseen
<1> HIDE DEF K
<1>2. /\ rest \in Seq(Entities) /\ Len(rest) = Cardinality(K)
      /\ \E f \in [1..Cardinality(K) -> K] :
           /\ Increasing(f, K)
           /\ \A i \in 1..Cardinality(K) : rest[i] = old[f[i]]
  BY <1>0, <1>1, KeptInOrder
<1> HIDE DEF rest
<1>3. PICK f \in [1..Len(rest) -> K] :
           /\ \A i, j \in 1..Len(rest) : i < j => f[i] < f[j]
           /\ \A i \in 1..Len(rest) : rest[i] = old[f[i]]
  BY <1>2 DEF Increasing
<1>4. ASSUME NEW i \in 1..Len(rest)
      PROVE  /\ rest[i] \in Entities /\ rest[i].n < n /\ rest[i].value.of = x
             /\ rest[i].value \notin ToSet(m)
  <2>1. f[i] \in K /\ f[i] \in 1..Len(old) /\ rest[i] = old[f[i]]
    BY <1>1, <1>3
  <2> QED
    BY <1>0, <1>1, <1>2, <2>1, ElementOfSeq
<1>5. ASSUME NEW i \in 1..Len(rest), NEW j \in 1..Len(rest), i < j
      PROVE  rest[j].n <= rest[i].n /\ rest[j].value # rest[i].value
  <2>1. /\ f[i] \in 1..Len(old) /\ rest[i] = old[f[i]]
        /\ f[j] \in 1..Len(old) /\ rest[j] = old[f[j]] /\ f[i] < f[j]
    BY <1>1, <1>3, <1>5
  <2> QED
    BY <1>0, <2>1 DEF Recent
<1>6. ASSUME NEW i \in 1..Len(fresh)
      PROVE  /\ fresh[i].n = n /\ fresh[i].value = m[i] /\ fresh[i].value.of = x
             /\ fresh[i].value \in ToSet(m)
  <2>1. i \in 1..Len(m) /\ fresh[i] = [value |-> m[i], n |-> n]
    BY <1>0
  <2>2. m[i] \in ToSet(m)
    BY <1>0, <2>1 DEF ToSet
  <2> QED
    BY <2>1, <2>2 DEF Mentions
<1>7. Len(fresh) \in Nat /\ Len(rest) \in Nat
  BY <1>0, <1>2
<1>8. /\ all \in Seq(Entities) /\ Len(all) = Len(fresh) + Len(rest)
      /\ \A i \in 1..Len(all) : all[i] = IF i <= Len(fresh) THEN fresh[i] ELSE rest[i - Len(fresh)]
  BY <1>0, <1>2, ConcatProperties
<1> HIDE DEF all
<1>9. ASSUME NEW i \in 1..Len(all)
      PROVE  \/ i \in 1..Len(fresh) /\ all[i] = fresh[i]
             \/ /\ i > Len(fresh) /\ i - Len(fresh) \in 1..Len(rest)
                /\ all[i] = rest[i - Len(fresh)]
  BY <1>7, <1>8
<1>10. ASSUME NEW i \in 1..Len(all) PROVE all[i].n <= n /\ all[i].value.of = x
  <2>1. CASE i \in 1..Len(fresh) /\ all[i] = fresh[i]
    BY <1>6, <2>1
  <2>2. CASE i - Len(fresh) \in 1..Len(rest) /\ all[i] = rest[i - Len(fresh)]
    <3>1. all[i].n \in Nat /\ all[i].n < n /\ all[i].value.of = x
      BY <1>4, <2>2 DEF Entities
    <3> QED
      BY <3>1
  <2> QED
    BY <1>9, <2>1, <2>2
<1>11. ASSUME NEW i \in 1..Len(all), NEW j \in 1..Len(all), i < j
       PROVE  all[j].n <= all[i].n /\ all[j].value # all[i].value
  <2>1. CASE j \in 1..Len(fresh)
    <3>0. i \in 1..Len(fresh)
      BY <1>7, <1>11, <2>1
    <3>1. all[i] = fresh[i] /\ all[j] = fresh[j]
      BY <1>7, <1>9, <2>1, <3>0
    <3>2. m[j] # m[i]
      BY <1>0, <1>11, <2>1, <3>0 DEF Mentions
    <3>3. /\ fresh[i].n = n /\ fresh[j].n = n
          /\ fresh[i].value = m[i] /\ fresh[j].value = m[j]
      BY <1>6, <2>1, <3>0
    <3> QED
      BY <3>1, <3>2, <3>3
  <2>2. CASE i \in 1..Len(fresh) /\ j \notin 1..Len(fresh)
    <3>1. /\ all[i] = fresh[i] /\ j - Len(fresh) \in 1..Len(rest)
          /\ all[j] = rest[j - Len(fresh)]
      BY <1>7, <1>9, <2>2
    <3>2. /\ all[i].n = n /\ all[i].value \in ToSet(m) /\ all[j].n < n /\ all[j].n \in Nat
          /\ all[j].value \notin ToSet(m)
      BY <1>4, <1>6, <2>2, <3>1 DEF Entities
    <3> QED
      BY <3>2
  <2>3. CASE i \notin 1..Len(fresh)
    <3>1. /\ i - Len(fresh) \in 1..Len(rest) /\ all[i] = rest[i - Len(fresh)]
          /\ j - Len(fresh) \in 1..Len(rest) /\ all[j] = rest[j - Len(fresh)]
          /\ i - Len(fresh) < j - Len(fresh)
      BY <1>7, <1>9, <1>11, <2>3
    <3> QED
      BY <1>5, <3>1
  <2> QED
    BY <2>1, <2>2, <2>3
<1> QED
  BY <1>8, <1>10, <1>11 DEF UpTo, Recent, all, rest, K

\* A conversation is never the empty value of a session that is not there.
LEMMA NotNothing ==
  ASSUME NEW c \in Conversations
  PROVE  c # <<>>
PROOF
<1>1. DOMAIN c = {"analysis", "turns", "entities"}
  BY DEF Conversations
<1>2. DOMAIN <<>> = {}
  OBVIOUS
<1> QED
  BY <1>1, <1>2

\* A turn that is folded into a sound conversation leaves a sound one, of which
\* it is the last turn; the earlier ones are there until there are too many.
LEMMA FoldedIsSound ==
  ASSUME NEW c, Sound(c),
         NEW turn \in [by : Asks, about : Analyses, answered : BOOLEAN],
         turn.about = c.analysis,
         NEW m \in Seq(Things), Mentions(m, c.analysis)
  PROVE  LET r == FoldedTurn(c, turn, m)
         IN /\ Sound(r) /\ r.analysis = c.analysis
            /\ Len(r.turns) >= Len(c.turns)
            /\ \E j \in 1..Len(r.turns) : r.turns[j].by = turn.by
            /\ \/ Len(r.turns) = MaxSessionTurns
               \/ \A i \in 1..Len(c.turns) : \E j \in 1..Len(r.turns) : r.turns[j].by = c.turns[i].by
PROOF
<1> DEFINE n == NextTurnNumber(c)
           last == [by |-> turn.by, about |-> turn.about, answered |-> turn.answered, n |-> n]
           fresh == [i \in DOMAIN m |-> [value |-> m[i], n |-> n]]
           turns == Append(c.turns, last)
           all == fresh \o Kept(c.entities, Unseen(c.entities, m))
           r == FoldedTurn(c, turn, m)
           b == n - 1
<1>1. /\ c \in Conversations /\ c.turns \in Seq(Turns) /\ c.entities \in Seq(Entities)
      /\ c.analysis \in Analyses /\ Len(c.turns) \in Nat /\ Len(c.turns) <= MaxSessionTurns
      /\ MaxSessionTurns \in Nat \ {0} /\ MaxSessionEntities \in Nat \ {0}
  BY ConversationAssumption DEF Sound, Conversations
<1>2. /\ n \in Nat /\ b \in Nat
      /\ Len(c.turns) # 0 => b = c.turns[Len(c.turns)].n
      /\ c.turns = <<>> <=> Len(c.turns) = 0
  <2>1. Len(c.turns) # 0 => c.turns[Len(c.turns)] \in Turns
    BY <1>1, ElementOfSeq
  <2>2. c.turns = <<>> <=> Len(c.turns) = 0
    BY <1>1
  <2>3. CASE Len(c.turns) = 0
    <3>1. n = 1
      BY <2>2, <2>3 DEF NextTurnNumber
    <3> QED
      BY <2>2, <2>3, <3>1
  <2>4. CASE Len(c.turns) # 0
    <3>1. n = c.turns[Len(c.turns)].n + 1
      BY <2>2, <2>4 DEF NextTurnNumber, Last
    <3>2. c.turns[Len(c.turns)].n \in Nat
      BY <2>1, <2>4 DEF Turns
    <3> QED
      BY <2>2, <2>4, <3>1, <3>2
  <2> QED
    BY <2>3, <2>4
<1>3. r = [analysis |-> c.analysis, turns |-> LastN(turns, MaxSessionTurns),
           entities |-> FirstN(all, MaxSessionEntities)]
  BY DEF FoldedTurn, Bounded
<1>4. /\ last \in Turns /\ last.n = n /\ last.about = c.analysis /\ last.by = turn.by
  BY <1>2 DEF Turns
<1> HIDE DEF n, last
<1>5. /\ turns \in Seq(Turns) /\ Len(turns) = Len(c.turns) + 1
      /\ \A i \in 1..Len(c.turns) : turns[i] = c.turns[i]
      /\ turns[Len(c.turns) + 1] = last
  BY <1>1, <1>4, AppendProperties
<1>6. /\ fresh \in Seq(Entities) /\ Len(fresh) = Len(m)
      /\ \A i \in 1..Len(m) : fresh[i] = [value |-> m[i], n |-> n]
  <2>1. DOMAIN m = 1..Len(m) /\ Len(m) \in Nat /\ \A i \in 1..Len(m) : m[i] \in Things
    BY ElementOfSeq
  <2>2. \A i \in 1..Len(m) : [value |-> m[i], n |-> n] \in Entities
    BY <1>2, <2>1 DEF Entities
  <2>3. fresh \in [1..Len(m) -> Entities]
    BY <2>1, <2>2
  <2> QED
    BY <2>1, <2>3
<1>7. \A i \in 1..Len(c.entities) : c.entities[i].n <= b /\ c.entities[i].value.of = c.analysis
  <2>1. CASE Len(c.turns) = 0
    <3>1. c.entities = <<>>
      BY <1>2, <2>1 DEF Sound
    <3> QED
      BY <3>1
  <2>2. CASE Len(c.turns) # 0
    BY <1>2, <2>2 DEF Sound
  <2> QED
    BY <2>1, <2>2
<1> HIDE DEF turns, fresh
<1>8. /\ all \in Seq(Entities) /\ Recent(all)
      /\ \A i \in 1..Len(all) : all[i].n <= n /\ all[i].value.of = c.analysis
  <2>1. Recent(c.entities) /\ b < n
    BY <1>2 DEF Sound
  <2> HIDE DEF b
  <2>2. ASSUME NEW i \in 1..Len(c.entities)
        PROVE  c.entities[i].n < n /\ c.entities[i].value.of = c.analysis
    <3>1. c.entities[i] \in Entities
      BY <1>1, ElementOfSeq
    <3>2. c.entities[i].n \in Nat
      BY <3>1 DEF Entities
    <3> QED
      BY <1>2, <1>7, <2>1, <3>2
  <2>3. Earlier(c.entities, c.analysis, n)
    BY <1>1, <2>1, <2>2 DEF Earlier
  <2>4. Anew(fresh, m, n)
    BY <1>6 DEF Anew
  <2> DEFINE x == c.analysis
             old == c.entities
  <2> HIDE DEF all
  <2>5. all = fresh \o Kept(old, Unseen(old, m))
    BY DEF all
  <2>6. Mentions(m, x) /\ Earlier(old, x, n) /\ n \in Nat
    BY <1>2, <2>3
  <2> HIDE DEF x, old
  <2>7. UpTo(all, x, n)
    BY <2>4, <2>5, <2>6, EntitiesAreRecent
  <2> QED
    BY <2>7 DEF x, UpTo
<1> HIDE DEF all, r
<1> DEFINE t == LastN(turns, MaxSessionTurns)
           e == FirstN(all, MaxSessionEntities)
           off == Len(turns) - Len(t)
<1>9. /\ t \in Seq(Turns) /\ off \in Nat
      /\ Len(t) = IF Len(turns) > MaxSessionTurns THEN MaxSessionTurns ELSE Len(turns)
      /\ \A i \in 1..Len(t) : t[i] = turns[i + Len(turns) - Len(t)]
  <2>1. /\ LastN(turns, MaxSessionTurns) \in Seq(Turns)
        /\ Len(LastN(turns, MaxSessionTurns)) = IF Len(turns) > MaxSessionTurns THEN MaxSessionTurns
                                                ELSE Len(turns)
        /\ \A i \in 1..Len(LastN(turns, MaxSessionTurns)) :
             LastN(turns, MaxSessionTurns)[i]
               = turns[i + Len(turns) - Len(LastN(turns, MaxSessionTurns))]
    <3>1. MaxSessionTurns \in Nat
      BY <1>1
    <3> QED
      BY <1>5, <3>1, LastOnes
  <2> HIDE DEF t
  <2>2. Len(turns) \in Nat
    BY <1>1, <1>5
  <2>3. /\ t \in Seq(Turns)
        /\ Len(t) = IF Len(turns) > MaxSessionTurns THEN MaxSessionTurns ELSE Len(turns)
        /\ \A i \in 1..Len(t) : t[i] = turns[i + Len(turns) - Len(t)]
    BY <2>1 DEF t
  <2>4. Len(turns) - Len(t) \in Nat
    BY <1>1, <2>2, <2>3
  <2> QED
    BY <2>3, <2>4
<1>10. /\ e \in Seq(Entities) /\ Len(e) \in 0..Len(all) /\ Len(all) \in Nat
       /\ \A i \in 1..Len(e) : e[i] = all[i]
  BY <1>1, <1>8, FirstOnes
<1>11. r.analysis = c.analysis /\ r.turns = t /\ r.entities = e /\ r \in Conversations
  BY <1>1, <1>3, <1>9, <1>10 DEF Conversations
<1> HIDE DEF t, e, b, off
<1>12. /\ Len(t) \in Nat /\ Len(t) >= 1 /\ Len(t) <= MaxSessionTurns /\ Len(turns) \in Nat
       /\ Len(t) <= Len(turns)
       /\ off = Len(turns) - Len(t)
       /\ \A i \in 1..Len(t) : i + off \in 1..Len(turns) /\ t[i] = turns[i + off]
  <2>1. /\ Len(t) \in Nat /\ Len(t) >= 1 /\ Len(t) <= MaxSessionTurns /\ Len(turns) \in Nat
        /\ Len(t) <= Len(turns) /\ off = Len(turns) - Len(t)
    BY <1>1, <1>5, <1>9 DEF off
  <2>2. ASSUME NEW i \in 1..Len(t)
        PROVE  i + off \in 1..Len(turns) /\ i + off = i + Len(turns) - Len(t)
    BY <2>1
  <2> QED
    BY <1>9, <2>1, <2>2
<1>13. t[Len(t)] = last
  BY <1>1, <1>5, <1>12
<1>14. ASSUME NEW i \in 1..Len(turns) PROVE turns[i].about = c.analysis
  BY <1>1, <1>4, <1>5 DEF Sound
<1>15. ASSUME NEW i \in 1..Len(turns), NEW j \in 1..Len(turns), j = i + 1
       PROVE  turns[j].n = turns[i].n + 1
  <2>1. CASE j \in 1..Len(c.turns)
    <3>1. i \in 1..Len(c.turns)
      BY <1>1, <1>15, <2>1
    <3> QED
      BY <1>5, <1>15, <2>1, <3>1 DEF Sound, Numbered
  <2>2. CASE j \notin 1..Len(c.turns)
    <3>1. j = Len(c.turns) + 1 /\ i = Len(c.turns) /\ Len(c.turns) # 0
      BY <1>1, <1>5, <1>15, <2>2
    <3>2. turns[j].n = n /\ turns[i].n = b /\ n = b + 1
      BY <1>1, <1>2, <1>4, <1>5, <3>1 DEF b
    <3> QED
      BY <3>2
  <2> QED
    BY <2>1, <2>2
<1>16. Numbered(t)
  <2> SUFFICES ASSUME NEW i \in 1..Len(t), NEW j \in 1..Len(t), j = i + 1
               PROVE  t[j].n = t[i].n + 1
    BY DEF Numbered
  <2>1. i + off \in 1..Len(turns) /\ j + off \in 1..Len(turns)
    BY <1>12
  <2>2. j + off = (i + off) + 1
    BY <1>9
  <2> QED
    BY <1>12, <1>15, <2>1, <2>2
<1>17. Recent(e)
  <2> SUFFICES ASSUME NEW i \in 1..Len(e), NEW j \in 1..Len(e), i < j
               PROVE  e[j].n <= e[i].n /\ e[j].value # e[i].value
    BY DEF Recent
  <2>1. i \in 1..Len(all) /\ j \in 1..Len(all) /\ e[i] = all[i] /\ e[j] = all[j]
    BY <1>10
  <2> QED
    BY <1>8, <2>1 DEF Recent
<1>18. \A i \in 1..Len(e) : e[i].value.of = c.analysis /\ e[i].n <= n
  <2> TAKE i \in 1..Len(e)
  <2>1. i \in 1..Len(all) /\ e[i] = all[i]
    BY <1>10
  <2> QED
    BY <1>8, <2>1
<1>19. Sound(r)
  <2>1. t # <<>>
    BY <1>12
  <2> QED
    BY <1>4, <1>11, <1>12, <1>13, <1>14, <1>16, <1>17, <1>18, <2>1 DEF Sound
<1>20. \E j \in 1..Len(t) : t[j].by = turn.by
  BY <1>4, <1>12, <1>13
<1>21. \/ Len(t) = MaxSessionTurns
       \/ \A i \in 1..Len(c.turns) : \E j \in 1..Len(t) : t[j].by = c.turns[i].by
  <2>1. CASE Len(turns) > MaxSessionTurns
    BY <1>9, <2>1
  <2>2. CASE ~(Len(turns) > MaxSessionTurns)
    <3>1. Len(t) = Len(turns) /\ off = 0
      BY <1>9, <1>12, <2>2
    <3>2. \A i \in 1..Len(turns) : t[i] = turns[i]
      BY <1>12, <3>1
    <3>3. ASSUME NEW i \in 1..Len(c.turns) PROVE i \in 1..Len(t) /\ t[i].by = c.turns[i].by
      BY <1>1, <1>5, <3>1, <3>2
    <3> QED
      BY <3>3
  <2> QED
    BY <2>1, <2>2
<1>22. Len(t) >= Len(c.turns)
  BY <1>1, <1>5, <1>9
<1> QED
  BY <1>11, <1>19, <1>20, <1>21, <1>22 DEF r

----------------------------------------------------------------------------
(* The conversations                                                       *)

\* The session made for a question is a sound one, of its analysis.
LEMMA EmptyIsSound ==
  ASSUME NEW x \in Analyses
  PROVE  Sound(EmptySession(x)) /\ EmptySession(x).analysis = x
PROOF
<1>1. EmptySession(x) \in Conversations
  BY EmptySessionIsConversation
<1>2. /\ EmptySession(x).analysis = x /\ EmptySession(x).turns = <<>>
      /\ EmptySession(x).entities = <<>>
  BY DEF EmptySession
<1>3. MaxSessionTurns \in Nat
  BY ConversationAssumption
<1> QED
  BY <1>1, <1>2, <1>3 DEF Sound, Numbered, Recent

\* A question goes on with a sound session of its analysis, whatever was stored.
LEMMA ContinuedIsSound ==
  ASSUME NEW c, c = <<>> \/ Sound(c), NEW x \in Analyses
  PROVE  Sound(Continued(c, x)) /\ Continued(c, x).analysis = x
PROOF
  BY EmptyIsSound DEF Continued

\* What is written: the turn of a question, into a sound conversation about its
\* analysis.
LEMMA WrittenIsSound ==
  ASSUME TypeInv, NEW a \in Asks, NEW c, Sound(c), c.analysis = ask[a].about
  PROVE  LET r == FoldedTurn(c, TurnOf(a), Mentioned(ask[a]))
         IN /\ Sound(r) /\ r # <<>> /\ r.analysis = ask[a].about
            /\ Len(r.turns) >= Len(c.turns) /\ Len(r.turns) \in Nat
            /\ \E j \in 1..Len(r.turns) : r.turns[j].by = a
            /\ \/ Len(r.turns) = MaxSessionTurns
               \/ \A i \in 1..Len(c.turns) : \E j \in 1..Len(r.turns) : r.turns[j].by = c.turns[i].by
PROOF
<1> DEFINE r == FoldedTurn(c, TurnOf(a), Mentioned(ask[a]))
<1>1. ask[a] \in Questions
  BY DEF TypeInv
<1>2. /\ TurnOf(a) \in [by : Asks, about : Analyses, answered : BOOLEAN]
      /\ TurnOf(a).about = c.analysis /\ TurnOf(a).by = a
  BY <1>1 DEF TurnOf, Questions
<1> DEFINE m == Mentioned(ask[a])
           turn == TurnOf(a)
<1>3. Mentions(m, c.analysis) /\ m \in Seq(Things)
  BY <1>1, MentionedIsDistinct DEF Mentions
<1> HIDE DEF m, turn
<1>4. /\ Sound(FoldedTurn(c, turn, m)) /\ FoldedTurn(c, turn, m).analysis = c.analysis
      /\ Len(FoldedTurn(c, turn, m).turns) >= Len(c.turns)
      /\ \E j \in 1..Len(FoldedTurn(c, turn, m).turns) : FoldedTurn(c, turn, m).turns[j].by = turn.by
      /\ \/ Len(FoldedTurn(c, turn, m).turns) = MaxSessionTurns
         \/ \A i \in 1..Len(c.turns) : \E j \in 1..Len(FoldedTurn(c, turn, m).turns) :
              FoldedTurn(c, turn, m).turns[j].by = c.turns[i].by
  BY <1>2, <1>3, FoldedIsSound DEF turn
<1>5. r = FoldedTurn(c, turn, m)
  BY DEF turn, m
<1> HIDE DEF r
<1>6. r # <<>> /\ Len(r.turns) \in Nat
  BY <1>4, <1>5, NotNothing DEF Sound, Conversations
<1> QED
  BY <1>2, <1>4, <1>5, <1>6 DEF r, turn

\* Only a question of a conversation writes one, or is over after it.
LEMMA OtherSteps ==
  ASSUME TypeInv, LoopInv, NEW a \in Asks, Answer(a), ~ReadSession(a), ~WriteSession(a)
  PROVE  /\ store' = store /\ ask'[a].pc # "write"
         /\ ask'[a].pc = "done" => ask[a].session = "none" \/ ask[a].about \in NoGraph
PROOF
<1> DEFINE q == ask[a]
<1>0. q \in Questions /\ ask \in [Asks -> Questions] /\ Placed(q)
  BY DEF TypeInv, LoopInv
<1>1. \A pc : Goto(a, pc) => ask'[a].pc = pc
  BY <1>0 DEF Goto, Questions
<1>2. store' = store
  BY DEF Answer, Begin, Load, CheckTurn, Reply, Act, ToolReturns, EmbedQuery, Embed,
         StoreEmbedding, Retrieve, CompleteOnce, StoreAnswer
<1>3. NextPc(q) # "write" /\ (NextPc(q) = "done" => q.session = "none")
  BY DEF NextPc
<1>4. CASE q.pc \in SingleShot
  <2>1. q.about \in NoGraph
    BY <1>0, <1>4 DEF Placed
  <2>2. ask'[a].pc # "write"
    <3>1. EmbedQuery(a) \/ Embed(a) \/ StoreEmbedding(a) \/ Retrieve(a) \/ CompleteOnce(a) \/ StoreAnswer(a)
      BY <1>4 DEF Answer, SingleShot, Begin, Load, CheckTurn, Reply, Act, ToolReturns
    <3>2. CASE EmbedQuery(a) \/ Embed(a) \/ StoreEmbedding(a)
      BY <1>1, <3>2 DEF EmbedQuery, Embed, StoreEmbedding, Budgeted, Throws
    <3>3. CASE Retrieve(a)
      <4>1. CASE \E pc \in {"refused", "onceCall", "capacity"} : Goto(a, pc)
        BY <1>1, <4>1
      <4>2. CASE ask' = [ask EXCEPT ![a].pc = "done", ![a].answered = cached.answers[ask[a].about] = "yes"]
        BY <1>0, <4>2 DEF Questions
      <4> QED
        BY <3>3, <4>1, <4>2 DEF Retrieve, Budgeted
    <3>4. CASE CompleteOnce(a)
      <4>1. CASE ask' = [ask EXCEPT ![a].pc = "onceStore", ![a].calls = @ + 1]
        BY <1>0, <4>1 DEF Questions
      <4> QED
        BY <1>1, <3>4, <4>1 DEF CompleteOnce, Throws
    <3>5. CASE StoreAnswer(a)
      BY <1>0, <3>5 DEF StoreAnswer, Questions
    <3> QED
      BY <3>1, <3>2, <3>3, <3>4, <3>5
  <2> QED
    BY <1>2, <2>1, <2>2
<1>5. CASE q.pc \notin SingleShot
  <2>1. Begin(a) \/ Load(a) \/ CheckTurn(a) \/ Reply(a) \/ Act(a) \/ ToolReturns(a)
    BY <1>5 DEF Answer, SingleShot, EmbedQuery, Embed, StoreEmbedding, Retrieve, CompleteOnce,
                StoreAnswer
  <2>2. CASE Begin(a)
    BY <1>1, <1>2, <2>2 DEF Begin
  <2>3. CASE Load(a)
    <3>1. ask'[a].pc = "turn"
      BY <1>0, <2>3 DEF Load, Questions
    <3> QED
      BY <1>2, <3>1
  <2>4. CASE CheckTurn(a)
    <3>1. CASE Goto(a, "call")
      BY <1>1, <1>2, <3>1
    <3>2. CASE ask' = [ask EXCEPT ![a] = GivenUp(@, "budget-exhausted")]
      <4>1. ask'[a].pc = NextPc(q)
        BY <1>0, <3>2, LoopGoes
      <4> QED
        BY <1>2, <1>3, <4>1
    <3> QED
      BY <2>4, <3>1, <3>2 DEF CheckTurn
  <2>5. CASE Reply(a)
    <3>1. CASE ask' = [ask EXCEPT ![a].pc = "act", ![a].calls = @ + 1]
      <4>1. ask'[a].pc = "act"
        BY <1>0, <3>1 DEF Questions
      <4> QED
        BY <1>2, <4>1
    <3> QED
      BY <1>1, <1>2, <2>5, <3>1 DEF Reply, Throws
  <2>6. CASE Act(a) \/ ToolReturns(a)
    BY <1>2, <1>3, <2>6, LoopSteps
  <2> QED
    BY <2>1, <2>2, <2>3, <2>4, <2>5, <2>6
<1> QED
  BY <1>4, <1>5

\* A step of one question leaves the others as they are, and each of them about
\* its analysis, in its session.
LEMMA OneQuestionMoves ==
  ASSUME TypeInv, LoopInv, NEW a \in Asks, Answer(a)
  PROVE  /\ \A b \in Asks : b # a => ask'[b] = ask[b]
         /\ \A b \in Asks : ask'[b].about = ask[b].about /\ ask'[b].session = ask[b].session
         /\ \A b \in Asks : ask[b].about \in Analyses
         /\ Placed(ask'[a]) /\ shared' = shared
PROOF
<1>1. PICK r \in Questions : ask' = [ask EXCEPT ![a] = r] /\ Same(ask[a], r) /\ Placed(r)
  BY AnswerMoves
<1>2. ask \in [Asks -> Questions]
  BY DEF TypeInv
<1>3. shared' = shared
  BY DEF Answer, Begin, Load, CheckTurn, Reply, Act, ToolReturns, ReadSession, WriteSession,
         EmbedQuery, Embed, StoreEmbedding, Retrieve, CompleteOnce, StoreAnswer
<1> QED
  BY <1>1, <1>2, <1>3 DEF Same, Questions

\* What the two steps on the store do: a conversation is read for later, or the
\* turn is folded into one that is sound and about the question's analysis.
LEMMA StoreSteps ==
  ASSUME TypeInv, LoopInv, SessionsInv, NEW a \in Asks, ReadSession(a) \/ WriteSession(a)
  PROVE  /\ ask[a].session \in Sessions
         /\ \/ /\ store' = store /\ ask'[a].pc = "write" /\ shared
               /\ Sound(ask'[a].base) /\ ask'[a].base.analysis = ask[a].about
            \/ store' = store /\ ask'[a].pc = "done" /\ shared
            \/ /\ ask'[a].pc = "done"
               /\ \E c : /\ Sound(c) /\ c.analysis = ask[a].about
                         /\ ~shared => c = Continued(store[ask[a].session], ask[a].about)
                         /\ store' = [store EXCEPT ![ask[a].session] =
                                        FoldedTurn(c, TurnOf(a), Mentioned(ask[a]))]
PROOF
<1> DEFINE q == ask[a]
<1>0. /\ q \in Questions /\ ask \in [Asks -> Questions] /\ Placed(q)
      /\ q.about \in Analyses /\ q.session \in Sessions \cup {"none"}
  BY DEF TypeInv, LoopInv, Questions
<1>1. \A pc : Goto(a, pc) => ask'[a].pc = pc
  BY <1>0 DEF Goto, Questions
<1>2. q.session \in Sessions
  BY <1>0 DEF ReadSession, WriteSession, Placed
<1>3. /\ Sound(Continued(store[q.session], q.about))
      /\ Continued(store[q.session], q.about).analysis = q.about
  <2>1. store[q.session] = <<>> \/ Sound(store[q.session])
    BY <1>2 DEF SessionsInv
  <2> QED
    BY <1>0, <2>1, ContinuedIsSound
<1>4. CASE ReadSession(a)
  <2> PICK base \in {Continued(store[q.session], q.about)}
               \cup (IF shared /\ "session" \in Faults THEN {EmptySession(q.about)} ELSE {}) :
       IF shared
       THEN /\ ask' = [ask EXCEPT ![a].pc = "write", ![a].base = base]
            /\ UNCHANGED store
       ELSE /\ store' = [store EXCEPT ![q.session] = FoldedTurn(base, TurnOf(a), Mentioned(q))]
            /\ Goto(a, "done")
    BY <1>4 DEF ReadSession
  <2>1. Sound(base) /\ base.analysis = q.about
    BY <1>0, <1>3, EmptyIsSound
  <2>2. CASE shared
    <3>1. ask'[a].pc = "write" /\ ask'[a].base = base
      BY <1>0, <2>2 DEF Questions
    <3> QED
      BY <1>2, <2>1, <2>2, <3>1
  <2>3. CASE ~shared
    <3>1. base = Continued(store[q.session], q.about)
      BY <2>3
    <3> QED
      BY <1>1, <1>2, <2>1, <2>3, <3>1
  <2> QED
    BY <2>2, <2>3
<1>5. CASE WriteSession(a)
  <2>1. shared /\ Sound(q.base) /\ q.base.analysis = q.about
    BY <1>5 DEF WriteSession, SessionsInv
  <2> QED
    BY <1>1, <1>2, <1>5, <2>1 DEF WriteSession
<1> QED
  BY <1>4, <1>5

\* What is stored stays sound, and a question holds only a sound session of the
\* analysis it is about.
LEMMA SessionsStep ==
  ASSUME TypeInv, LoopInv, SessionsInv, NEW a \in Asks, Answer(a)
  PROVE  SessionsInv' /\ store' \in [Sessions -> Conversations \cup {<<>>}]
PROOF
<1>0. store \in [Sessions -> Conversations \cup {<<>>}]
  BY DEF TypeInv
<1>1. /\ \A b \in Asks : b # a => ask'[b] = ask[b]
      /\ \A b \in Asks : ask'[b].about = ask[b].about
      /\ shared' = shared
  BY OneQuestionMoves
<1>2. SUFFICES /\ \A s \in Sessions : store'[s] = <<>> \/ Sound(store'[s])
               /\ store' \in [Sessions -> Conversations \cup {<<>>}]
               /\ ask'[a].pc = "write" =>
                    shared /\ Sound(ask'[a].base) /\ ask'[a].base.analysis = ask[a].about
  BY <1>1 DEF SessionsInv
<1>3. \A s \in Sessions : store[s] = <<>> \/ Sound(store[s])
  BY DEF SessionsInv
<1>4. CASE store' = store
  <2>1. CASE ReadSession(a) \/ WriteSession(a)
    BY <1>0, <1>3, <1>4, <2>1, StoreSteps
  <2>2. CASE ~ReadSession(a) /\ ~WriteSession(a)
    BY <1>0, <1>3, <1>4, <2>2, OtherSteps
  <2> QED
    BY <2>1, <2>2
<1>5. CASE store' # store
  <2>1. ReadSession(a) \/ WriteSession(a)
    BY <1>5, OtherSteps
  <2>2. ask[a].session \in Sessions /\ ask'[a].pc = "done"
    BY <1>5, <2>1, StoreSteps
  <2>3. PICK c : /\ Sound(c) /\ c.analysis = ask[a].about
                 /\ store' = [store EXCEPT ![ask[a].session] =
                                FoldedTurn(c, TurnOf(a), Mentioned(ask[a]))]
    BY <1>5, <2>1, StoreSteps
  <2> DEFINE r == FoldedTurn(c, TurnOf(a), Mentioned(ask[a]))
  <2>4. Sound(r)
    BY <2>3, WrittenIsSound
  <2>5. store' = [store EXCEPT ![ask[a].session] = r]
    BY <2>3
  <2> HIDE DEF r
  <2>6. r \in Conversations
    BY <2>4 DEF Sound
  <2> QED
    BY <1>0, <1>3, <2>2, <2>4, <2>5, <2>6
<1> QED
  BY <1>4, <1>5

\* A turn that was folded into the process's own session is still there.
LEMMA LocalStep ==
  ASSUME TypeInv, LoopInv, SessionsInv, LocalInv, NEW a \in Asks, Answer(a)
  PROVE  LocalInv'
PROOF
<1>0. store \in [Sessions -> Conversations \cup {<<>>}]
  BY DEF TypeInv
<1>1. /\ \A b \in Asks : b # a => ask'[b] = ask[b]
      /\ \A b \in Asks : ask'[b].about = ask[b].about /\ ask'[b].session = ask[b].session
      /\ shared' = shared
  BY OneQuestionMoves
<1>2. \A b \in Asks : Scoped(b)' <=> Scoped(b)
  BY <1>1 DEF Scoped
<1> DEFINE Has(st, b) == /\ st[ask[b].session] # <<>>
                         /\ LET turns == st[ask[b].session].turns
                            IN Len(turns) = MaxSessionTurns \/ \E i \in 1..Len(turns) : turns[i].by = b
           Due(b) == ask[b].session # "none" /\ ask[b].about \notin NoGraph /\ Scoped(b)
<1>3. /\ \A s \in Sessions : store[s] # <<>> =>
           \E b \in Asks : ask[b].session = s /\ ask[b].about = store[s].analysis
      /\ ~shared => \A b \in Asks : ask[b].pc = "done" /\ Due(b) => Has(store, b)
  BY DEF LocalInv
<1>4. SUFFICES
      /\ \A s \in Sessions : store'[s] # <<>> =>
           \E b \in Asks : ask[b].session = s /\ ask[b].about = store'[s].analysis
      /\ ~shared => \A b \in Asks : ask'[b].pc = "done" /\ Due(b) => Has(store', b)
  BY <1>1, <1>2 DEF LocalInv
<1> HIDE DEF Has, Due
<1>5. CASE store' = store /\ (shared \/ (ask'[a].pc = "done" => ~Due(a)))
  BY <1>1, <1>3, <1>5
<1>6. CASE ~(store' = store /\ (shared \/ (ask'[a].pc = "done" => ~Due(a))))
  <2>1. ReadSession(a) \/ WriteSession(a)
    <3> SUFFICES ASSUME ~ReadSession(a), ~WriteSession(a) PROVE FALSE
      OBVIOUS
    <3>1. /\ store' = store
          /\ ask'[a].pc = "done" => ask[a].session = "none" \/ ask[a].about \in NoGraph
      BY OtherSteps
    <3> QED
      BY <1>6, <3>1 DEF Due
  <2> DEFINE s == ask[a].session
             x == ask[a].about
  <2>2. /\ s \in Sessions /\ ask'[a].pc = "done"
        /\ \E c : /\ Sound(c) /\ c.analysis = x
                  /\ ~shared => c = Continued(store[s], x)
                  /\ store' = [store EXCEPT ![s] = FoldedTurn(c, TurnOf(a), Mentioned(ask[a]))]
    BY <1>6, <2>1, StoreSteps
  <2>3. PICK c : /\ Sound(c) /\ c.analysis = x
                 /\ ~shared => c = Continued(store[s], x)
                 /\ store' = [store EXCEPT ![s] = FoldedTurn(c, TurnOf(a), Mentioned(ask[a]))]
    BY <2>2
  <2> DEFINE r == FoldedTurn(c, TurnOf(a), Mentioned(ask[a]))
  <2>4. /\ Sound(r) /\ r # <<>> /\ r.analysis = x
        /\ Len(r.turns) >= Len(c.turns) /\ Len(r.turns) \in Nat
        /\ \E j \in 1..Len(r.turns) : r.turns[j].by = a
        /\ \/ Len(r.turns) = MaxSessionTurns
           \/ \A i \in 1..Len(c.turns) : \E j \in 1..Len(r.turns) : r.turns[j].by = c.turns[i].by
    <3> HIDE DEF x, r
    <3>1. Sound(c) /\ c.analysis = ask[a].about
      BY <2>3 DEF x
    <3>2. LET w == FoldedTurn(c, TurnOf(a), Mentioned(ask[a]))
          IN /\ Sound(w) /\ w # <<>> /\ w.analysis = ask[a].about
             /\ Len(w.turns) >= Len(c.turns) /\ Len(w.turns) \in Nat
             /\ \E j \in 1..Len(w.turns) : w.turns[j].by = a
             /\ \/ Len(w.turns) = MaxSessionTurns
                \/ \A i \in 1..Len(c.turns) : \E j \in 1..Len(w.turns) : w.turns[j].by = c.turns[i].by
      BY <3>1, WrittenIsSound
    <3> QED
      BY <3>2 DEF x, r
  <2>5. store' = [store EXCEPT ![s] = r]
    BY <2>3
  <2> HIDE DEF r
  <2>6. store'[s] = r /\ \A z \in Sessions : z # s => store'[z] = store[z]
    BY <1>0, <2>2, <2>5
  <2>7. \A z \in Sessions : store'[z] # <<>> =>
           \E b \in Asks : ask[b].session = z /\ ask[b].about = store'[z].analysis
    BY <1>3, <2>4, <2>6
  <2>8. ASSUME ~shared, NEW b \in Asks, ask'[b].pc = "done", Due(b) PROVE Has(store', b)
    <3>1. CASE b = a
      BY <2>4, <2>6, <3>1 DEF Has
    <3>2. CASE b # a /\ ask[b].session # s
      <4>1. Has(store, b)
        BY <1>1, <1>3, <2>8, <3>2
      <4>2. ask[b].session \in Sessions
        BY <2>8 DEF Due, TypeInv, Questions
      <4> QED
        BY <2>6, <3>2, <4>1, <4>2 DEF Has
    <3>3. CASE b # a /\ ask[b].session = s
      <4>1. Has(store, b)
        BY <1>1, <1>3, <2>8, <3>3
      <4>2. store[s] # <<>> /\ Sound(store[s])
        BY <2>2, <3>3, <4>1 DEF Has, SessionsInv
      <4>3. store[s].analysis = x
        <5>1. PICK d \in Asks : ask[d].session = s /\ ask[d].about = store[s].analysis
          BY <1>3, <2>2, <4>2
        <5>2. ask[d].about = ask[b].about /\ ask[a].about = ask[b].about
          BY <2>8, <3>3, <5>1 DEF Due, Scoped
        <5> QED
          BY <5>1, <5>2
      <4>4. c = store[s]
        BY <2>3, <2>8, <4>2, <4>3 DEF Continued
      <4>5. Len(c.turns) = MaxSessionTurns \/ \E i \in 1..Len(c.turns) : c.turns[i].by = b
        BY <3>3, <4>1, <4>4 DEF Has
      <4>6. /\ Len(r.turns) <= MaxSessionTurns /\ Len(c.turns) \in Nat
            /\ MaxSessionTurns \in Nat
        BY <2>3, <2>4, ConversationAssumption DEF Sound, Conversations
      <4>7. Len(r.turns) = MaxSessionTurns \/ \E i \in 1..Len(r.turns) : r.turns[i].by = b
        <5>1. CASE Len(c.turns) = MaxSessionTurns
          BY <2>4, <4>6, <5>1
        <5>2. CASE \E i \in 1..Len(c.turns) : c.turns[i].by = b
          BY <2>4, <5>2
        <5> QED
          BY <4>5, <5>1, <5>2
      <4> QED
        BY <2>4, <2>6, <3>3, <4>7 DEF Has
    <3> QED
      BY <3>1, <3>2, <3>3
  <2> QED
    BY <2>7, <2>8
<1> QED
  BY <1>5, <1>6

----------------------------------------------------------------------------
(* The invariant                                                           *)

\* The caches keep their shape.
LEMMA CachedStep ==
  ASSUME TypeInv, NEW a \in Asks, Answer(a)
  PROVE  cached' \in [embedded : SUBSET Analyses, answers : [Analyses -> {"none", "yes", "no"}]]
PROOF
<1>1. ask[a].about \in Analyses
  BY DEF TypeInv, Questions
<1>5. CASE cached' = cached
  BY <1>5 DEF TypeInv
<1>2. CASE StoreEmbedding(a) /\ cached' # cached
  <2>1. cached' = [cached EXCEPT !.embedded = @ \cup {ask[a].about}]
    BY <1>2 DEF StoreEmbedding
  <2> QED
    BY <1>1, <2>1 DEF TypeInv
<1>3. CASE StoreAnswer(a) /\ cached' # cached
  <2> PICK answer \in {"yes", "no"} : cached' = [cached EXCEPT !.answers[ask[a].about] = answer]
    BY <1>3 DEF StoreAnswer
  <2>1. /\ cached.answers \in [Analyses -> {"none", "yes", "no"}]
        /\ cached.embedded \in SUBSET Analyses
    BY DEF TypeInv
  <2>2. [cached.answers EXCEPT ![ask[a].about] = answer] \in [Analyses -> {"none", "yes", "no"}]
    BY <2>1
  <2>3. cached' = [cached EXCEPT !.answers = [cached.answers EXCEPT ![ask[a].about] = answer]]
    OBVIOUS
  <2> QED
    BY <2>1, <2>2, <2>3 DEF TypeInv
<1>4. CASE ~StoreEmbedding(a) /\ ~StoreAnswer(a)
  <2>1. cached' = cached
    BY <1>4 DEF Answer, Begin, Load, CheckTurn, Reply, Act, ToolReturns, ReadSession,
                WriteSession, EmbedQuery, Embed, Retrieve, CompleteOnce
  <2> QED
    BY <2>1 DEF TypeInv
<1> QED
  BY <1>2, <1>3, <1>4, <1>5

\* A step keeps the shape of the state, and every question accounted for.
LEMMA TypeStep ==
  ASSUME TypeInv, LoopInv, SessionsInv, NEW a \in Asks, Answer(a)
  PROVE  TypeInv' /\ LoopInv'
PROOF
<1>1. PICK r \in Questions : /\ ask' = [ask EXCEPT ![a] = r] /\ Same(ask[a], r)
                             /\ Fine(r) /\ Placed(r)
  BY AnswerMoves
<1>2. shared' \in BOOLEAN
  BY OneQuestionMoves DEF TypeInv
<1>3. ask' \in [Asks -> Questions] /\ ask'[a] = r /\ \A b \in Asks : b # a => ask'[b] = ask[b]
  BY <1>1 DEF TypeInv
<1>4. TypeInv'
  BY <1>2, <1>3, CachedStep, SessionsStep, SpentGrows, SlipsStep DEF TypeInv
<1>5. ASSUME NEW q \in Questions, Fine(q) PROVE Fine(q)'
  BY <1>5, SpentGrows, ToolsLater DEF Fine, CallsOf, EvidenceOf
<1>6. ASSUME NEW b \in Asks PROVE (Fine(ask[b]) /\ Placed(ask[b]))'
  <2>1. ask'[b] \in Questions /\ Fine(ask'[b]) /\ Placed(ask'[b])
    BY <1>1, <1>3 DEF LoopInv, TypeInv
  <2>2. PICK q \in Questions : q = ask'[b]
    BY <2>1
  <2>3. Fine(q)' /\ Placed(q)
    BY <1>5, <2>1, <2>2
  <2> QED
    BY <2>2, <2>3 DEF Fine, CallsOf, ToolsOf, EvidenceOf, Placed
<1>7. LoopInv'
  BY <1>6 DEF LoopInv
<1> QED
  BY <1>4, <1>7

\* Nothing asked, nothing spent, and whatever the caches hold.
LEMMA AskInit ==
  ASSUME Init
  PROVE  AskInv
PROOF
<1>1. PICK q \in Requests : ask = [a \in Asks |-> Fresh(q[a].about, q[a].session)]
  BY DEF Init
<1>2. ASSUME NEW a \in Asks
      PROVE  /\ ask[a] \in Questions /\ ask[a].pc = "idle" /\ ask[a].turn = 1
             /\ ask[a].calls = 0 /\ ask[a].ran = 0 /\ ask[a].toolCalls = 0
             /\ ask[a].chunks = {} /\ ask[a].files = {} /\ ask[a].cites = {}
             /\ ask[a].stop = "turn-limit"
  <2>1. q[a].about \in Analyses /\ q[a].session \in Sessions \cup {"none"}
    BY AskAssumption
  <2> DEFINE x == q[a].about
             s == q[a].session
  <2>2. ask[a] = Fresh(x, s) /\ x \in Analyses /\ s \in Sessions \cup {"none"}
    BY <1>1, <2>1
  <2> HIDE DEF x, s
  <2>3. 1 \in 1..MaxTurns /\ 0 \in 0..MaxTurns /\ 0 \in 0..MaxToolCalls /\ 0 \in Nat
    BY AskAssumption
  <2>4. Fresh(x, s) \in Questions
    BY <2>2, <2>3 DEF Fresh, Questions, AskPc, Tools, Stops
  <2> QED
    BY <2>2, <2>4 DEF Fresh
<1>3. ask \in [Asks -> Questions]
  BY <1>1, <1>2
<1>4. TypeInv
  BY <1>3 DEF TypeInv, Init
<1>5. LoopInv
  <2> SUFFICES ASSUME NEW a \in Asks PROVE Fine(ask[a]) /\ Placed(ask[a])
    BY DEF LoopInv
  <2> QED
    BY <1>2 DEF Fine, CallsOf, ToolsOf, EvidenceOf, Placed, Waiting, SingleShot
<1>6. CeilingInv
  <2>1. Allowed = {} /\ Billed = {} /\ Failed = {}
    BY <1>2 DEF Allowed, Billed, Failed
  <2>2. Cardinality(Allowed) = 0 /\ Cardinality(Billed) = 0 /\ Cardinality(Failed) = 0
    BY <2>1, FS_EmptySet
  <2>3. Cardinality(Asks) \in Nat /\ Cardinality(Asks) > 0
    BY AskAssumption, FS_CardinalityType, FS_EmptySet
  <2>4. /\ spent["chat"] = 0 /\ billed["chat"] = 0 /\ unheard["chat"] = 0
        /\ lost["chat"] = 0 /\ passed["chat"] = 0
    BY DEF Init, Units
  <2> QED
    BY <2>2, <2>3, <2>4, AskAssumption DEF CeilingInv
<1>7. SessionsInv
  BY <1>2 DEF SessionsInv, Init
<1>8. LocalInv
  BY <1>2 DEF LocalInv, Init
<1> QED
  BY <1>4, <1>5, <1>6, <1>7, <1>8 DEF AskInv

\* The invariant is inductive: one case for a question's step, one for a stutter.
LEMMA AskStep ==
  ASSUME AskInv, [Next]_vars
  PROVE  AskInv'
PROOF
<1>1. CASE Next
  <2> PICK a \in Asks : Answer(a)
    BY <1>1 DEF Next
  <2> QED
    BY TypeStep, CeilingStep, SessionsStep, LocalStep DEF AskInv
<1>2. CASE UNCHANGED vars
  BY <1>2 DEF vars, AskInv, TypeInv, LoopInv, CeilingInv, SessionsInv, LocalInv, Fine, CallsOf,
     ToolsOf, EvidenceOf, Placed, Affordable, Allowed, Billed, Failed, Scoped
<1> QED
  BY <1>1, <1>2

\* Whatever questions are asked side by side, the invariant holds throughout.
THEOREM AskInvariant == Spec => []AskInv
PROOF
  BY AskInit, AskStep, PTL DEF Spec

\* An answer of the agent cites something, and only what tools of this question
\* returned for its own analysis (ground in askAgent.ts), for any caps and any
\* replies of the model.
THEOREM AnswersGrounded == Spec => []AnswersAreGrounded
PROOF
<1>1. ASSUME AskInv PROVE AnswersAreGrounded
  <2> SUFFICES ASSUME NEW a \in Asks, ask[a].stop = "answered"
               PROVE  /\ ask[a].cites # {}
                      /\ ask[a].cites \subseteq {Chunk(ask[a].about), File(ask[a].about)}
                      /\ ask[a].ran > 0
    BY DEF AnswersAreGrounded
  <2>1. EvidenceOf(ask[a]) /\ ask[a].ran \in Nat
    BY <1>1, AskAssumption DEF AskInv, LoopInv, Fine, TypeInv, Questions
  <2> QED
    BY <2>1 DEF EvidenceOf
<1> QED
  BY <1>1, AskInvariant, PTL

\* The agent's bounds (askAgent.ts and the budget's check-and-record): calls and
\* tools within their caps, no tool result left unread but for the budget, every
\* chat call that was paid for recorded, about to be, or lost for a named reason,
\* and the ceiling overspent by no more than the questions asked side by side and
\* the calls that escaped the counter.
THEOREM AgentBounded == Spec => []AgentIsBounded
PROOF
<1>1. ASSUME AskInv PROVE AgentIsBounded
  <2>1. TypeOK
    BY <1>1 DEF AskInv, TypeInv, Questions, Stops, TypeOK
  <2>2. CapsAreHard
    BY <1>1, AskAssumption DEF AskInv, TypeInv, Questions, CapsAreHard
  <2>3. NoToolInVain
    BY <1>1 DEF AskInv, LoopInv, Fine, ToolsOf, NoToolInVain
  <2>4. ChatCeiling
    <3>1. Billed \subseteq Allowed /\ Allowed \subseteq Asks
      BY DEF Billed, Allowed
    <3>2. IsFiniteSet(Allowed) /\ IsFiniteSet(Billed)
      BY <3>1, AskAssumption, FS_Subset
    <3>3. /\ Cardinality(Billed) <= Cardinality(Allowed)
          /\ Cardinality(Billed) \in Nat /\ Cardinality(Allowed) \in Nat
          /\ Cardinality(Asks) \in Nat /\ Limit \in Nat
      BY <3>1, <3>2, AskAssumption, FS_Subset, FS_CardinalityType
    <3>4. /\ spent["chat"] \in Nat /\ unheard["chat"] \in Nat /\ lost["chat"] \in Nat
          /\ passed["chat"] \in Nat
      BY <1>1 DEF AskInv, TypeInv, Units
    <3>5. /\ spent["chat"] + Cardinality(Allowed) <= Limit + Cardinality(Asks) - 1 + passed["chat"]
          /\ billed["chat"] = spent["chat"] + Cardinality(Billed) + unheard["chat"] + lost["chat"]
          /\ unheard["chat"] <= Cardinality(Failed)
      BY <1>1 DEF AskInv, CeilingInv
    <3>6. billed["chat"] <= Limit + Cardinality(Asks) - 1 + unheard["chat"] + lost["chat"] + passed["chat"]
      BY <3>3, <3>4, <3>5
    <3> QED
      BY <3>5, <3>6 DEF ChatCeiling, Billed, Failed
  <2> QED
    BY <2>1, <2>2, <2>3, <2>4 DEF AgentIsBounded
<1> QED
  BY <1>1, AskInvariant, PTL

\* A conversation (sessionStore.ts) is of one analysis, its turns are numbered
\* without a gap and its entities in order of recency, whatever reads and writes
\* of it overlap; and the store of one process loses no turn.
THEOREM SessionSound == Spec => []SessionIsSound
PROOF
<1>1. ASSUME AskInv PROVE SessionIsSound
  <2>1. ASSUME NEW s \in Sessions, store[s] # <<>>
        PROVE  /\ Sound(store[s]) /\ Len(store[s].turns) \in Nat
               /\ DOMAIN store[s].turns = 1..Len(store[s].turns)
               /\ DOMAIN store[s].entities = 1..Len(store[s].entities)
               /\ store[s].entities \in Seq(Entities) /\ store[s].turns \in Seq(Turns)
    BY <1>1, <2>1 DEF AskInv, SessionsInv, Sound, Conversations
  <2>2. OneAnalysisPerSession
    BY <2>1 DEF OneAnalysisPerSession, Sound
  <2>3. RecencyOrder
    <3> SUFFICES ASSUME NEW s \in Sessions, store[s] # <<>>
                 PROVE  LET turns == store[s].turns
                            entities == store[s].entities
                        IN /\ \A i \in 2..Len(turns) : turns[i].n = turns[i - 1].n + 1
                           /\ \A i \in 2..Len(entities) : entities[i].n <= entities[i - 1].n
                           /\ \A i, j \in DOMAIN entities :
                                entities[i].value = entities[j].value => i = j
      BY DEF RecencyOrder
    <3> DEFINE turns == store[s].turns
               entities == store[s].entities
    <3>1. /\ Numbered(turns) /\ Recent(entities) /\ Len(turns) \in Nat /\ Len(entities) \in Nat
          /\ DOMAIN entities = 1..Len(entities)
      BY <2>1 DEF Sound
    <3> HIDE DEF turns, entities
    <3>2. ASSUME NEW i \in 2..Len(turns) PROVE turns[i].n = turns[i - 1].n + 1
      <4>1. i \in 1..Len(turns) /\ i - 1 \in 1..Len(turns) /\ i = (i - 1) + 1
        BY <3>1
      <4> QED
        BY <3>1, <4>1 DEF Numbered
    <3>3. ASSUME NEW i \in 2..Len(entities) PROVE entities[i].n <= entities[i - 1].n
      <4>1. i \in 1..Len(entities) /\ i - 1 \in 1..Len(entities) /\ i - 1 < i
        BY <3>1
      <4> QED
        BY <3>1, <4>1 DEF Recent
    <3>4. ASSUME NEW i \in 1..Len(entities), NEW j \in 1..Len(entities),
                 entities[i].value = entities[j].value
          PROVE  i = j
      <4>1. ~(i < j) /\ ~(j < i)
        BY <3>1, <3>4 DEF Recent
      <4> QED
        BY <3>1, <4>1
    <3> QED
      BY <3>1, <3>2, <3>3, <3>4 DEF turns, entities
  <2>4. LocalTurnsAreKept
    <3> SUFFICES ASSUME ~shared, NEW a \in Asks, ask[a].pc = "done", ask[a].session # "none",
                        ask[a].about \notin NoGraph, Scoped(a)
                 PROVE  LET turns == Continued(store[ask[a].session], ask[a].about).turns
                        IN Len(turns) = MaxSessionTurns \/ \E i \in DOMAIN turns : turns[i].by = a
      BY DEF LocalTurnsAreKept, Scoped
    <3> DEFINE c == store[ask[a].session]
    <3>1. /\ c # <<>>
          /\ Len(c.turns) = MaxSessionTurns \/ \E i \in 1..Len(c.turns) : c.turns[i].by = a
      BY <1>1 DEF AskInv, LocalInv
    <3>2. ask[a].session \in Sessions
      BY <1>1 DEF AskInv, TypeInv, Questions
    <3>3. c.analysis = ask[a].about
      BY <1>1, <3>1, <3>2 DEF AskInv, LocalInv, Scoped
    <3>4. Continued(c, ask[a].about) = c
      BY <3>1, <3>3 DEF Continued
    <3>5. DOMAIN c.turns = 1..Len(c.turns)
      BY <2>1, <3>1, <3>2
    <3> HIDE DEF c
    <3> QED
      BY <3>1, <3>4, <3>5 DEF c
  <2> QED
    BY <2>2, <2>3, <2>4 DEF SessionIsSound
<1> QED
  BY <1>1, AskInvariant, PTL

\* A repeated question is free (answer.ts asks the cache before the model): once
\* an answer is cached, no question that retrieves afterwards calls the model,
\* but for one that the shared cache did not answer.
THEOREM RepeatFree == Spec => RepeatIsFree
PROOF
<1> DEFINE Free == \A a \in Asks :
       (ask[a].pc = "retrieve" /\ ask'[a].pc # "retrieve" /\ cached.answers[ask[a].about] # "none")
       => ask'[a].pc # "onceCall" \/ a \in missed'
<1>1. ASSUME AskInv, [Next]_vars PROVE [Free]_vars
  <2> SUFFICES ASSUME NEW b \in Asks, ask[b].pc = "retrieve", ask'[b].pc # "retrieve",
                      cached.answers[ask[b].about] # "none"
               PROVE  ask'[b].pc # "onceCall" \/ b \in missed'
    OBVIOUS
  <2>0. ask \in [Asks -> Questions]
    BY <1>1 DEF AskInv, TypeInv
  <2>1. CASE UNCHANGED vars
    BY <2>1 DEF vars
  <2>2. CASE Next
    <3> PICK a \in Asks : Answer(a)
      BY <2>2 DEF Next
    <3>1. a = b
      BY <1>1, OneQuestionMoves DEF AskInv
    <3>2. Retrieve(b)
      BY <3>1 DEF Answer, Begin, Load, CheckTurn, Reply, Act, ToolReturns, ReadSession,
                  WriteSession, EmbedQuery, Embed, StoreEmbedding, CompleteOnce, StoreAnswer
    <3>3. CASE Goto(b, "refused") \/ Goto(b, "capacity")
      BY <2>0, <3>3 DEF Goto, Questions
    <3>4. CASE ask' = [ask EXCEPT ![b].pc = "done", ![b].answered = cached.answers[ask[b].about] = "yes"]
      BY <2>0, <3>4 DEF Questions
    <3>5. cached.answers[ask[b].about] = "none" \/ b \in missed' \/ missed' # missed \cup {b}
      OBVIOUS
    <3> QED
      BY <3>2, <3>3, <3>4, <3>5 DEF Retrieve, Budgeted
  <2> QED
    BY <1>1, <2>1, <2>2
<1>2. RepeatIsFree <=> [][Free]_vars
  BY DEF RepeatIsFree
<1> HIDE DEF Free
<1> QED
  BY <1>1, <1>2, AskInvariant, PTL DEF Spec

=============================================================================
