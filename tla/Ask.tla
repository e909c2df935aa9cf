--------------------------------- MODULE Ask ---------------------------------
(***************************************************************************)
(* POST /api/result/:id/ask (apps/api/src/routes/ask.ts): questions about  *)
(* stored analyses, answered side by side by API processes that share the  *)
(* daily budget, the answer cache and the conversations.  With a graph, a  *)
(* question runs the bounded agent (packages/agents/src/askAgent.ts) over  *)
(* tools and session memory; without one, it is answered in a single shot  *)
(* from the retrieved chunks (packages/analyzers/src/rag/answer.ts).       *)
(***************************************************************************)
EXTENDS Naturals, Sequences, SequencesExt, FiniteSets

CONSTANTS
  Asks,
  Sessions,          \* session ids; an ask without one has "none"
  Analyses,          \* stored analyses
  NoIndex, NoGraph,  \* those without a searchable index, and without a graph
  Requests,          \* what may be asked: the analysis and session of each ask
  MaxTurns, MaxToolCalls, MaxParseRetries,
  MaxSessionTurns,     \* SESSION_MAX_TURNS
  MaxSessionEntities,  \* SESSION_MAX_ENTITIES
  Limit,             \* the daily ceiling of calls, for each unit
  Faults,            \* calls that may fail: "model", and those of the shared Redis,
                     \* "session", "budget" and "cache"
  Outages            \* bound on the calls of the budget that Redis leaves unanswered

Tools == {"search_code", "graph"}
Units == {"chat", "embedding"}

ASSUME AskAssumption ==
  /\ IsFiniteSet(Asks) /\ Asks # {}
  /\ MaxTurns \in Nat \ {0} /\ MaxToolCalls \in Nat
  /\ MaxParseRetries \in Nat /\ Limit \in Nat
  /\ NoIndex \subseteq Analyses /\ NoGraph \subseteq Analyses
  /\ "none" \notin Sessions
  /\ Requests \subseteq [Asks -> [about : Analyses, session : Sessions \cup {"none"}]]
  /\ Faults \subseteq {"model", "session", "budget", "cache"}
  /\ Outages \in Nat

ASSUME ConversationAssumption ==
  MaxSessionTurns \in Nat \ {0} /\ MaxSessionEntities \in Nat \ {0}

----------------------------------------------------------------------------
(* The memory of one conversation (packages/memory/src/sessionStore.ts):   *)
(* what a stored session is, and how a turn is folded into it.  The stores *)
(* below only persist what these operators return.                         *)

\* A session is scoped to one analysis.
EmptySession(analysis) == [analysis |-> analysis, turns |-> <<>>, entities |-> <<>>]

\* The latest n elements, and the first n.
LastN(s, n) == SubSeq(s, IF Len(s) > n THEN Len(s) - n + 1 ELSE 1, Len(s))
FirstN(s, n) == SubSeq(s, 1, IF Len(s) > n THEN n ELSE Len(s))

\* applySessionBounds: old turns and old entities go.
Bounded(session) ==
  [analysis |-> session.analysis,
   turns |-> LastN(session.turns, MaxSessionTurns),
   entities |-> FirstN(session.entities, MaxSessionEntities)]

\* The number of a new turn is taken from the turns that are there.
NextTurnNumber(session) ==
  IF session.turns = <<>> THEN 1 ELSE Last(session.turns).n + 1

\* The elements of s at the places K, in their order.
Kept(s, K) ==
  LET Places == 1..Cardinality(K)
      place == CHOOSE f \in [Places -> K] : \A i, j \in Places : i < j => f[i] < f[j]
  IN [i \in Places |-> s[place[i]]]

\* What is mentioned for the first time, and not by this turn.
Unseen(entities, mentioned) ==
  {i \in DOMAIN entities :
     /\ entities[i].value \notin ToSet(mentioned)
     /\ \A j \in 1..(i - 1) : entities[j].value # entities[i].value}

\* appendTurn: the turn gets its number here; what it mentions moves to the
\* front, most recent first.
FoldedTurn(session, turn, mentioned) ==
  LET n == NextTurnNumber(session)
      fresh == [i \in DOMAIN mentioned |-> [value |-> mentioned[i], n |-> n]]
      old == session.entities
  IN Bounded([analysis |-> session.analysis,
              turns |-> Append(session.turns, [by |-> turn.by, about |-> turn.about,
                                               answered |-> turn.answered, n |-> n]),
              entities |-> fresh \o Kept(old, Unseen(old, mentioned))])

\* A store goes on with the session it finds only when it is about the same
\* analysis.
Continued(stored, analysis) ==
  IF stored # <<>> /\ stored.analysis = analysis THEN stored ELSE EmptySession(analysis)

----------------------------------------------------------------------------

VARIABLES
  shared,   \* whether this deployment has a Redis
  ask,      \* each question: where it is, what its loop has seen
  store,    \* the session store; <<>> where there is no session
  cached,   \* the answer cache: embedded questions and answers, by analysis
  spent,    \* the budget's counter of each unit
  billed,   \* calls the providers charged for
  \* The rest only observes: by unit, the calls that were charged though they
  \* threw, let through without an answer of Redis, and recorded in vain; and
  \* the questions that asked the answer cache in vain.
  unheard, passed, lost, missed

slips == <<unheard, passed, lost, missed>>
vars == <<shared, ask, store, cached, spent, billed, unheard, passed, lost, missed>>

\* What can be cited: chunks, and files; a chunk may lie in a file (a README)
\* that is no node of the graph.
Chunk(x) == [kind |-> "chunk", of |-> x]
File(x) == [kind |-> "file", of |-> x]
Doc(x) == [kind |-> "doc", of |-> x]
Symbol(x) == [kind |-> "symbol", of |-> x]

Fresh(x, s) ==
  [pc |-> "idle", about |-> x, session |-> s, memory |-> <<>>, base |-> <<>>,
   turn |-> 1, toolCalls |-> 0, badReplies |-> 0, tool |-> "search_code",
   chunks |-> {}, files |-> {}, calls |-> 0, ran |-> 0, ranAt |-> 0,
   stop |-> "turn-limit", answered |-> FALSE, cites |-> {}]

Init ==
  /\ shared \in BOOLEAN
  /\ \E q \in Requests : ask = [a \in Asks |-> Fresh(q[a].about, q[a].session)]
  /\ store = [s \in Sessions |-> <<>>]
  /\ cached = [embedded |-> {}, answers |-> [x \in Analyses |-> "none"]]
  /\ spent = [u \in Units |-> 0]
  /\ billed = [u \in Units |-> 0]
  /\ unheard = billed /\ passed = billed /\ lost = billed /\ missed = {}

----------------------------------------------------------------------------
(* The budget: check, and record later.  Module Synthesis has the counter's *)
(* days.  The Redis that API processes share may not answer: a check passes, *)
(* a record is lost, and the caches find and keep nothing.                  *)

Unanswered(call) == shared /\ call \in Faults

Silent == Unanswered("budget")
            /\ passed["chat"] + lost["chat"] + passed["embedding"] + lost["embedding"] < Outages

Affordable(unit) == spent[unit] + 1 <= Limit

LetThrough(unit) ==
  \/ Affordable(unit) /\ UNCHANGED passed
  \/ Silent /\ passed' = [passed EXCEPT ![unit] = @ + 1]

Record(unit) ==
  \/ spent' = [spent EXCEPT ![unit] = @ + 1] /\ UNCHANGED lost
  \/ Silent /\ lost' = [lost EXCEPT ![unit] = @ + 1] /\ UNCHANGED spent

Bill(unit) == billed' = [billed EXCEPT ![unit] = @ + 1]

Goto(a, pc) == ask' = [ask EXCEPT ![a].pc = pc]

\* A call throws and the request fails: there was nothing to charge, or the
\* provider charged for a reply that the client rejects as empty or malformed,
\* and nobody reads the usage it came with.
Throws(a, unit) ==
  /\ "model" \in Faults /\ Goto(a, "failed")
  /\ \/ UNCHANGED <<billed, unheard>>
     \/ Bill(unit) /\ unheard' = [unheard EXCEPT ![unit] = @ + 1]

\* Mutant: the last turn is a turn like any other.
ForcedBySpending(q) == q.toolCalls >= MaxToolCalls

\* A turn that offers no tools and demands an answer.
Forced(q) == q.turn = MaxTurns \/ q.toolCalls >= MaxToolCalls

----------------------------------------------------------------------------
(* The request, up to the loop                                              *)

\* The stored analysis is read; without an index the answer says so.
Begin(a) ==
  /\ ask[a].pc = "idle"
  /\ \/ ask[a].about \in NoIndex /\ Goto(a, "unavailable")
     \/ ask[a].about \in NoGraph \ NoIndex /\ Goto(a, "embed")
     \/ /\ ask[a].about \notin NoGraph \cup NoIndex
        /\ Goto(a, IF ask[a].session = "none" THEN "turn" ELSE "load")
  /\ UNCHANGED <<shared, store, cached, spent, billed, slips>>

\* store.load: a failing Redis counts as no session.
Load(a) ==
  /\ ask[a].pc = "load"
  /\ \E m \in {store[ask[a].session]} \cup (IF shared /\ "session" \in Faults THEN {<<>>} ELSE {}) :
       ask' = [ask EXCEPT ![a].pc = "turn", ![a].memory = m]
  /\ UNCHANGED <<shared, store, cached, spent, billed, slips>>

----------------------------------------------------------------------------
(* The agent                                                                *)

NextPc(q) == IF q.session = "none" THEN "done" ELSE "read"

\* Mutant: the model's word is taken for it.
GroundedByClaim(q, claim) ==
  LET cites == {c \in claim.cites : c \in q.chunks \cup q.files}
  IN [q EXCEPT !.pc = NextPc(q), !.answered = claim.answered, !.cites = cites,
               !.stop = IF claim.answered THEN "answered" ELSE "refused"]

\* ground: of what the model cites only what this question's tools returned
\* stays, and without any of it there is no answer.
Grounded(q, claim) ==
  LET cites == {c \in claim.cites : c \in q.chunks \cup q.files}
      answered == claim.answered /\ cites # {}
  IN [q EXCEPT !.pc = NextPc(q), !.answered = answered, !.cites = cites,
               !.stop = IF answered THEN "answered" ELSE "refused"]

\* The loop is left without an answer of the model's.
GivenUp(q, stop) ==
  [q EXCEPT !.pc = NextPc(q),
            !.stop = IF q.toolCalls >= MaxToolCalls THEN "tool-call-limit" ELSE stop]

NextTurn(q) ==
  IF q.turn = MaxTurns THEN GivenUp(q, "turn-limit")
  ELSE [q EXCEPT !.turn = @ + 1, !.pc = "turn"]

\* The budget is asked before every turn.
CheckTurn(a) ==
  /\ ask[a].pc = "turn"
  /\ \/ LetThrough("chat") /\ Goto(a, "call")
     \/ /\ ~Affordable("chat") /\ ask' = [ask EXCEPT ![a] = GivenUp(@, "budget-exhausted")]
        /\ UNCHANGED passed
  /\ UNCHANGED <<shared, store, cached, spent, billed, unheard, lost, missed>>

\* The provider answers, or the call throws.
Reply(a) ==
  /\ ask[a].pc = "call"
  /\ \/ /\ ask' = [ask EXCEPT ![a].pc = "act", ![a].calls = @ + 1]
        /\ Bill("chat") /\ UNCHANGED unheard
     \/ Throws(a, "chat")
  /\ UNCHANGED <<shared, store, cached, spent, passed, lost, missed>>

\* A reply that cannot be parsed.
Unparseable(q) ==
  LET r == [q EXCEPT !.badReplies = @ + 1]
  IN IF r.badReplies > MaxParseRetries THEN GivenUp(r, "parse-failure") ELSE NextTurn(r)

\* What the model may cite: what tools returned, and what it makes up or
\* remembers from earlier turns.
Claims(q) ==
  [answered : BOOLEAN, cites : SUBSET (q.chunks \cup q.files \cup {Chunk("elsewhere")})]

\* The usage is recorded and the reply acted on: it cannot be parsed, it is
\* the answer, it calls a tool where none is left, one that does not exist, or
\* one that does, whether it was described or not.
Act(a) ==
  LET q == ask[a] IN
  /\ q.pc = "act"
  /\ Record("chat")
  /\ \/ ask' = [ask EXCEPT ![a] = Unparseable(q)]
     \/ \E claim \in Claims(q) : ask' = [ask EXCEPT ![a] = Grounded(q, claim)]
     \/ /\ Forced(q)
        /\ ask' = [ask EXCEPT ![a] = NextTurn(q)]
     \/ /\ ~Forced(q)
        /\ ask' = [ask EXCEPT ![a] = NextTurn([q EXCEPT !.toolCalls = @ + 1])]
     \/ /\ ~Forced(q)
        /\ \E t \in Tools : ask' = [ask EXCEPT ![a].pc = "tool", ![a].tool = t]
  /\ UNCHANGED <<shared, store, cached, billed, unheard, passed, missed>>

\* What a tool may return: nothing or an error, or evidence.  The search embeds
\* its query first, a call that may be billed and is never recorded.
Outcomes(t, x) ==
  {[chunks |-> {}, files |-> {}]} \cup
  IF t = "search_code"
  THEN {[chunks |-> {Chunk(x)}, files |-> {Doc(x)}]}
  ELSE {[chunks |-> {}, files |-> {File(x)}]}

ToolReturns(a) ==
  LET q == ask[a] IN
  /\ q.pc = "tool"
  /\ \E o \in Outcomes(q.tool, q.about) :
       ask' = [ask EXCEPT ![a] = NextTurn([q EXCEPT
         !.toolCalls = @ + 1, !.ran = @ + 1, !.ranAt = q.turn,
         !.chunks = @ \cup o.chunks,
         !.files = @ \cup (o.files \cap {File(q.about)})])]
  /\ \/ UNCHANGED billed
     \/ q.tool = "search_code" /\ Bill("embedding")
  /\ UNCHANGED <<shared, store, cached, spent, slips>>

----------------------------------------------------------------------------
(* The conversation is written                                              *)

\* entitiesFrom: the files that were cited, chunks first, and the symbols of
\* what was retrieved.
Mentioned(q) ==
  LET x == q.about
      When(known, e) == IF known THEN <<e>> ELSE <<>>
  IN When(Chunk(x) \in q.cites, Doc(x)) \o When(File(x) \in q.cites, File(x))
       \o When(Chunk(x) \in q.chunks, Symbol(x))

TurnOf(a) == [by |-> a, about |-> ask[a].about, answered |-> ask[a].answered]

\* Mutant: every store is read first and written later.
ReadSessionFirst(a) ==
  LET q == ask[a] IN
  /\ q.pc = "read"
  /\ ask' = [ask EXCEPT ![a].pc = "write", ![a].base = Continued(store[q.session], q.about)]
  /\ UNCHANGED <<shared, store, cached, spent, billed, slips>>

\* The store of one process does both at once; Redis is read, and written
\* back later.  A failing read counts as an empty session.
ReadSession(a) ==
  LET q == ask[a] IN
  /\ q.pc = "read"
  /\ \E base \in {Continued(store[q.session], q.about)}
               \cup (IF shared /\ "session" \in Faults THEN {EmptySession(q.about)} ELSE {}) :
       IF shared
       THEN /\ ask' = [ask EXCEPT ![a].pc = "write", ![a].base = base]
            /\ UNCHANGED store
       ELSE /\ store' = [store EXCEPT ![q.session] = FoldedTurn(base, TurnOf(a), Mentioned(q))]
            /\ Goto(a, "done")
  /\ UNCHANGED <<shared, cached, spent, billed, slips>>

\* Mutant: a turn that was not written is tried again.
WriteSessionAgain(a) ==
  LET q == ask[a] IN
  /\ q.pc = "write"
  /\ \/ /\ store' = [store EXCEPT ![q.session] = FoldedTurn(q.base, TurnOf(a), Mentioned(q))]
        /\ Goto(a, "done")
     \/ "session" \in Faults /\ Goto(a, "read") /\ UNCHANGED store
  /\ UNCHANGED <<shared, cached, spent, billed, slips>>

\* A failing write is reported, and the turn is lost.
WriteSession(a) ==
  LET q == ask[a] IN
  /\ q.pc = "write"
  /\ Goto(a, "done")
  /\ \/ store' = [store EXCEPT ![q.session] = FoldedTurn(q.base, TurnOf(a), Mentioned(q))]
     \/ "session" \in Faults /\ UNCHANGED store
  /\ UNCHANGED <<shared, cached, spent, billed, slips>>

----------------------------------------------------------------------------
(* A single shot: answerQuestion                                            *)

\* The budget's word on a call: go on, or the service is at capacity.
Budgeted(a, unit, pc) ==
  \/ LetThrough(unit) /\ Goto(a, pc)
  \/ ~Affordable(unit) /\ Goto(a, "capacity") /\ UNCHANGED passed

\* embedQuery: the cache, then the budget.
EmbedQuery(a) ==
  /\ ask[a].pc = "embed"
  /\ \/ ask[a].about \in cached.embedded /\ Goto(a, "retrieve") /\ UNCHANGED passed
     \/ /\ ask[a].about \notin cached.embedded \/ Unanswered("cache")
        /\ Budgeted(a, "embedding", "embedCall")
  /\ UNCHANGED <<shared, store, cached, spent, billed, unheard, lost, missed>>

Embed(a) ==
  /\ ask[a].pc = "embedCall"
  /\ \/ Bill("embedding") /\ Goto(a, "embedStore") /\ UNCHANGED unheard
     \/ Throws(a, "embedding")
  /\ UNCHANGED <<shared, store, cached, spent, passed, lost, missed>>

StoreEmbedding(a) ==
  /\ ask[a].pc = "embedStore"
  /\ Record("embedding")
  /\ \/ cached' = [cached EXCEPT !.embedded = @ \cup {ask[a].about}]
     \/ Unanswered("cache") /\ UNCHANGED cached
  /\ Goto(a, "retrieve")
  /\ UNCHANGED <<shared, store, billed, unheard, passed, missed>>

\* Retrieval refuses below the floor; a cached answer costs nothing; then the
\* budget.
Retrieve(a) ==
  /\ ask[a].pc = "retrieve"
  /\ \/ Goto(a, "refused") /\ UNCHANGED <<passed, missed>>
     \/ /\ cached.answers[ask[a].about] # "none"
        /\ ask' = [ask EXCEPT ![a].pc = "done", ![a].answered = cached.answers[ask[a].about] = "yes"]
        /\ UNCHANGED <<passed, missed>>
     \/ /\ \/ cached.answers[ask[a].about] = "none" /\ UNCHANGED missed
           \/ Unanswered("cache") /\ missed' = missed \cup {a}
        /\ Budgeted(a, "chat", "onceCall")
  /\ UNCHANGED <<shared, store, cached, spent, billed, unheard, lost>>

CompleteOnce(a) ==
  /\ ask[a].pc = "onceCall"
  /\ \/ /\ ask' = [ask EXCEPT ![a].pc = "onceStore", ![a].calls = @ + 1]
        /\ Bill("chat") /\ UNCHANGED unheard
     \/ Throws(a, "chat")
  /\ UNCHANGED <<shared, store, cached, spent, passed, lost, missed>>

\* The derived answer is cached, a refusal as well, and the usage recorded.
StoreAnswer(a) ==
  /\ ask[a].pc = "onceStore"
  /\ Record("chat")
  /\ \E answer \in {"yes", "no"} :
       /\ \/ cached' = [cached EXCEPT !.answers[ask[a].about] = answer]
          \/ Unanswered("cache") /\ UNCHANGED cached
       /\ ask' = [ask EXCEPT ![a].pc = "done", ![a].answered = answer = "yes"]
  /\ UNCHANGED <<shared, store, billed, unheard, passed, missed>>

----------------------------------------------------------------------------

Answer(a) ==
  \/ Begin(a) \/ Load(a)
  \/ CheckTurn(a) \/ Reply(a) \/ Act(a) \/ ToolReturns(a)
  \/ ReadSession(a) \/ WriteSession(a)
  \/ EmbedQuery(a) \/ Embed(a) \/ StoreEmbedding(a)
  \/ Retrieve(a) \/ CompleteOnce(a) \/ StoreAnswer(a)

Next == \E a \in Asks : Answer(a)

Spec == Init /\ [][Next]_vars /\ \A a \in Asks : WF_vars(Answer(a))

----------------------------------------------------------------------------

AskPc == {"idle", "load", "turn", "call", "act", "tool", "read", "write", "embed",
          "embedCall", "embedStore", "retrieve", "onceCall", "onceStore",
          "done", "failed", "refused", "capacity", "unavailable"}

Ended(a) == ask[a].pc \in {"done", "failed", "refused", "capacity", "unavailable"}

TypeOK ==
  /\ shared \in BOOLEAN
  /\ \A a \in Asks :
       /\ ask[a].pc \in AskPc
       /\ ask[a].turn \in 1..MaxTurns
       /\ ask[a].stop \in {"answered", "refused", "turn-limit", "tool-call-limit",
                            "parse-failure", "budget-exhausted"}
  /\ \A count \in {spent, billed, unheard, passed, lost} : count \in [Units -> Nat]
  /\ missed \subseteq Asks

\* An answer of the agent rests on evidence: whatever the model claims, and
\* whatever its memory holds, an answered question cites something, and only
\* what tools of this question returned for its own analysis.
AnswersAreGrounded ==
  \A a \in Asks : ask[a].stop = "answered" =>
    /\ ask[a].cites # {}
    /\ ask[a].cites \subseteq {Chunk(ask[a].about), File(ask[a].about)}
    /\ ask[a].ran > 0

\* The caps are hard: a question pays for no more than MaxTurns calls and runs
\* no more than MaxToolCalls tools, however the model replies.
CapsAreHard ==
  \A a \in Asks : ask[a].calls <= MaxTurns /\ ask[a].ran <= MaxToolCalls

\* "the agent is not cut off mid-thought" (askAgent.ts): what a tool returned is
\* read by the model in a later call, at every limit; only an exhausted budget
\* or a failing provider leaves it unread.
NoToolInVain ==
  \A a \in Asks : (ask[a].pc \in {"read", "write", "done"} /\ ask[a].ran > 0) =>
    ask[a].calls > ask[a].ranAt \/ ~Affordable("chat")

\* The ceiling is asked before each call, and what comes back is recorded
\* later.  Every chat call that was paid for is recorded or about to be, unless
\* it threw after it was charged or Redis lost its record; a question throws
\* once at most; and the ceiling is overspent by no more than the questions
\* asked side by side, those calls, and the calls let through unchecked.
ChatCeiling ==
  /\ billed["chat"] = spent["chat"] + Cardinality({a \in Asks : ask[a].pc \in {"act", "onceStore"}})
                        + unheard["chat"] + lost["chat"]
  /\ unheard["chat"] <= Cardinality({a \in Asks : ask[a].pc = "failed"})
  /\ billed["chat"] <= Limit + Cardinality(Asks) - 1 + unheard["chat"] + lost["chat"] + passed["chat"]

\* A stored session never mixes two analyses, even when questions about two
\* share its id and interleave: its turns are all about the one it names, and
\* so is whatever a follow-up's "it" can resolve to.
OneAnalysisPerSession ==
  \A s \in Sessions : store[s] # <<>> =>
    /\ \A i \in DOMAIN store[s].turns : store[s].turns[i].about = store[s].analysis
    /\ \A i \in DOMAIN store[s].entities : store[s].entities[i].value.of = store[s].analysis

\* The order a pronoun is resolved in: turns are numbered without a gap, the
\* latest mention comes first, and nothing is mentioned twice.
RecencyOrder ==
  \A s \in Sessions : store[s] # <<>> =>
    LET turns == store[s].turns
        entities == store[s].entities
    IN /\ \A i \in 2..Len(turns) : turns[i].n = turns[i - 1].n + 1
       /\ \A i \in 2..Len(entities) : entities[i].n <= entities[i - 1].n
       /\ \A i, j \in DOMAIN entities : entities[i].value = entities[j].value => i = j

\* "two concurrent appends must not both claim to be turn 3" (sessionStore.ts):
\* in the store of one process, and one analysis, each finished question of a
\* session has its turn, unless newer ones pushed it out.
LocalTurnsAreKept ==
  ~shared => \A a \in Asks :
    (ask[a].pc = "done" /\ ask[a].session # "none" /\ ask[a].about \notin NoGraph
       /\ \A b \in Asks : ask[b].session = ask[a].session => ask[b].about = ask[a].about)
    => LET turns == Continued(store[ask[a].session], ask[a].about).turns
       IN Len(turns) = MaxSessionTurns \/ \E i \in DOMAIN turns : turns[i].by = a

\* A repeated question is free: once an answer for an analysis without a graph
\* is in the cache, no question that retrieves afterwards calls the model, but
\* for one the cache did not answer.
RepeatIsFree ==
  [][\A a \in Asks :
       (ask[a].pc = "retrieve" /\ ask'[a].pc # "retrieve" /\ cached.answers[ask[a].about] # "none")
       => ask'[a].pc # "onceCall" \/ a \in missed']_vars

\* Every question is answered, one way or another, and what was answered before
\* is not paid for again.
AsksEnd == RepeatIsFree /\ \A a \in Asks : <>Ended(a)

\* The agent's bounds: caps, the ceiling, and no tool result left unread.
AgentIsBounded == TypeOK /\ CapsAreHard /\ NoToolInVain /\ ChatCeiling

\* The session two overlapping questions leave behind: of one analysis, in
\* order, and with every turn of a single process in it.
SessionIsSound == OneAnalysisPerSession /\ RecencyOrder /\ LocalTurnsAreKept
=============================================================================
