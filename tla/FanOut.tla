------------------------------- MODULE FanOut -------------------------------
(***************************************************************************)
(* Stage `synthesize` by agents (packages/agents/src/orchestrator): every  *)
(* selected code community is read through several lenses, each a paid     *)
(* call made by one of a pool of runners; what they find is posted on a    *)
(* versioned blackboard that one supervisor turns into a synthesis, or, if *)
(* it cannot, a deterministic fallback does.  The stage may run again for  *)
(* the same commit, with the cache and the budget the first run left.      *)
(***************************************************************************)
EXTENDS Naturals, Sequences, FiniteSets, SequencesExt, FiniteSetsExt

CONSTANTS
  Communities,     \* their numbers
  Complexity,      \* complexityOf each
  Lenses,          \* the specialists, numbered in their order
  MaxCommunities, MaxHard, HardThreshold, Samples,
  MaxConcurrency,
  Limit,           \* the daily ceiling, in calls
  MaxScore,        \* scores of a candidate: 1..MaxScore
  MaxRuns,
  MaxUnheard,      \* bound on charged replies that are thrown away
  Faults           \* "model", "capacity" (the client refuses), "budget", "cache"

ASSUME FanOutAssumption ==
  /\ Communities \subseteq Nat /\ IsFiniteSet(Communities) /\ Communities # {}
  /\ Complexity \in [Communities -> Nat]
  /\ Lenses \subseteq Nat /\ IsFiniteSet(Lenses)
  /\ MaxCommunities \in Nat /\ MaxHard \in Nat /\ HardThreshold \in Nat
  /\ Samples \in Nat \ {0} /\ MaxConcurrency \in Nat \ {0}
  /\ Limit \in Nat /\ MaxScore \in Nat \ {0} /\ MaxRuns \in Nat \ {0} /\ MaxUnheard \in Nat
  /\ Faults \subseteq {"model", "capacity", "budget", "cache"}

----------------------------------------------------------------------------
(* Routing (routing.ts)                                                     *)

\* The elements of a finite set, in a strict total order.
InOrder(S, Before) ==
  CHOOSE s \in [1..Cardinality(S) -> S] :
    \A i, k \in 1..Cardinality(S) : i < k => <<s[i], s[k]>> \in Before

\* The most complex community first; the smaller number first among equals.
Harder ==
  {p \in Communities \X Communities :
     \/ Complexity[p[1]] > Complexity[p[2]]
     \/ Complexity[p[1]] = Complexity[p[2]] /\ p[1] < p[2]}
RankOf(c) == 1 + Cardinality({d \in Communities : <<d, c>> \in Harder})

Selected == {c \in Communities : RankOf(c) <= MaxCommunities}

\* Mutant: every community above the threshold is sampled.
SamplesOfAll(c) == IF Complexity[c] >= HardThreshold THEN Samples ELSE 1

\* Above the threshold, and while the ceiling of hard communities lasts.
SamplesOf(c) ==
  IF Complexity[c] >= HardThreshold /\ RankOf(c) <= MaxHard THEN Samples ELSE 1

\* One job for each lens of each selected community, hardest first.
JobSet ==
  {[cluster |-> p[1], lens |-> p[2], samples |-> SamplesOf(p[1])] : p \in Selected \X Lenses}
Sooner ==
  {p \in JobSet \X JobSet :
     \/ <<p[1].cluster, p[2].cluster>> \in Harder
     \/ p[1].cluster = p[2].cluster /\ p[1].lens < p[2].lens}
Jobs == InOrder(JobSet, Sooner)

----------------------------------------------------------------------------

VARIABLES
  pc,          \* where the stage is
  facts,       \* whether the graph has entry points or key files to fall back on
  cursor,      \* how many jobs the runners have taken
  runner,      \* what each runner of the pool is doing
  exhausted,   \* budgetExhausted
  entries,     \* the outcomes, in the order the runners finished
  board,       \* the blackboard's versions and the version that was read
  tally,       \* usageParts, specialistCalls, bestOfNExtraCalls
  outcome,     \* who made the synthesis; "" when the stage threw
  cached,      \* what the cache holds for the commit and the partition, if any
               \* of its steps is still in the graph
  spent, billed,
  unheard,     \* how much of it for replies that the client threw away
  runs

poolVars == <<cursor, runner, exhausted, entries, tally>>
vars == <<pc, facts, cursor, runner, exhausted, entries, board, tally, outcome,
          cached, spent, billed, unheard, runs>>

Runners == 1..Min({MaxConcurrency, Len(Jobs)})

Free == [pc |-> "free", job |-> 0, sample |-> 0, got |-> {}]
NoTally == [usage |-> 0, calls |-> 0, extra |-> 0]
EmptyBoard == [versions |-> << >>, read |-> 0]

Init ==
  /\ pc = "start"
  /\ facts \in BOOLEAN
  /\ cursor = 0 /\ runner = [r \in Runners |-> Free]
  /\ exhausted = FALSE /\ entries = <<>>
  /\ board = EmptyBoard /\ tally = NoTally /\ outcome = ""
  /\ cached = "none"
  /\ spent = 0 /\ billed = 0 /\ unheard = 0 /\ runs = 1

----------------------------------------------------------------------------
(* The stage, up to the pool (adaptiveStage.ts, synthesizeStage.ts)         *)

\* A cached synthesis is served without a call.  A graph without communities
\* has the single shot of module Synthesis instead of this stage.
ReadCache ==
  /\ pc = "start"
  /\ IF cached = "none"
     THEN pc' = "open" /\ UNCHANGED outcome
     ELSE pc' = "ended" /\ outcome' = cached
  /\ UNCHANGED <<facts, poolVars, board, cached, spent, billed, unheard, runs>>

\* The blackboard's first version is the empty board.
Open ==
  /\ pc = "open"
  /\ board' = [board EXCEPT !.versions = << <<>> >>]
  /\ pc' = "pool"
  /\ UNCHANGED <<facts, poolVars, outcome, cached, spent, billed, unheard, runs>>

----------------------------------------------------------------------------
(* The pool (mapWithConcurrency and the job it runs)                        *)

Entry(job, status, got) ==
  [cluster |-> job.cluster, lens |-> job.lens, status |-> status,
   score |-> IF status = "ok" THEN Max(got) ELSE 0, got |-> got]

\* budget.check; a Redis that does not answer lets the call through.
MayCall == spent + 1 <= Limit \/ "budget" \in Faults
MayNotCall == spent + 1 > Limit

Finish(r, entry) ==
  /\ entries' = Append(entries, entry)
  /\ runner' = [runner EXCEPT ![r] = Free]

\* The next job; once the budget is known to be exhausted it is only recorded
\* as skipped.
Take(r) ==
  /\ pc = "pool" /\ runner[r].pc = "free" /\ cursor < Len(Jobs)
  /\ cursor' = cursor + 1
  /\ IF exhausted
     THEN Finish(r, Entry(Jobs[cursor + 1], "skipped-budget", {}))
     ELSE /\ runner' = [runner EXCEPT ![r].pc = "check", ![r].job = cursor + 1]
          /\ UNCHANGED entries
  /\ UNCHANGED <<pc, facts, exhausted, board, tally, outcome, cached, spent, billed, unheard, runs>>

\* The phase gate of a job: the budget is asked once for all its samples.
Check(r) ==
  /\ runner[r].pc = "check"
  /\ \/ /\ MayCall
        /\ runner' = [runner EXCEPT ![r].pc = "call", ![r].sample = 1]
        /\ UNCHANGED <<exhausted, entries>>
     \/ /\ MayNotCall
        /\ exhausted' = TRUE
        /\ Finish(r, Entry(Jobs[runner[r].job], "skipped-budget", {}))
  /\ UNCHANGED <<pc, facts, cursor, board, tally, outcome, cached, spent, billed, unheard, runs>>

\* Mutant: a refusal outweighs an earlier sample.
ConcludeRefusing(r, got, refused, over) ==
  Finish(r, Entry(Jobs[runner[r].job],
    IF refused THEN "refused" ELSE IF got # {} THEN "ok"
    ELSE IF over THEN "skipped-budget" ELSE "failed", got))

\* What the samples amount to.  A job that got nothing is called skipped as
\* soon as the budget is known to be exhausted, whatever its own calls met.
Conclude(r, got, refused, over) ==
  Finish(r, Entry(Jobs[runner[r].job],
    IF got # {} THEN "ok" ELSE IF refused THEN "refused"
    ELSE IF over THEN "skipped-budget" ELSE "failed", got))

\* The next sample, if there is one.
NextSample(r, got) ==
  IF runner[r].sample < Jobs[runner[r].job].samples
  THEN /\ runner' = [runner EXCEPT ![r].pc = "call", ![r].sample = @ + 1, ![r].got = got]
       /\ UNCHANGED entries
  ELSE Conclude(r, got, FALSE, exhausted)

\* complete returns: the provider has charged what the stage will record.
Answers ==
  /\ billed' = billed + 1 /\ UNCHANGED unheard
  /\ tally' = [tally EXCEPT !.usage = @ + 1]

\* complete throws: the provider failed, or it answered and charged and the
\* client rejected the body (llmClient.ts), so that nobody hears of the usage.
Throws ==
  /\ \/ UNCHANGED <<billed, unheard>>
     \/ unheard < MaxUnheard /\ billed' = billed + 1 /\ unheard' = unheard + 1
  /\ UNCHANGED tally

\* The provider answers, the call throws, or the client says that the budget is
\* gone.
Reply(r) ==
  /\ runner[r].pc = "call"
  /\ \/ /\ Answers
        /\ runner' = [runner EXCEPT ![r].pc = "record"]
        /\ UNCHANGED <<entries, exhausted>>
     \/ /\ "model" \in Faults /\ Throws
        /\ NextSample(r, runner[r].got)
        /\ UNCHANGED exhausted
     \/ /\ "capacity" \in Faults
        /\ exhausted' = TRUE
        /\ Conclude(r, runner[r].got, FALSE, TRUE)
        /\ UNCHANGED <<billed, unheard, tally>>
  /\ UNCHANGED <<pc, facts, cursor, board, outcome, cached, spent, runs>>

\* budget.record; a Redis that does not answer loses it.
RecordUsage ==
  \/ spent' = spent + 1
  \/ "budget" \in Faults /\ UNCHANGED spent

\* Mutant: only replies that are of use are counted.
RecordUseful(r) ==
  /\ runner[r].pc = "record"
  /\ RecordUsage
  /\ LET counted == [tally EXCEPT !.calls = @ + 1,
                                  !.extra = IF runner[r].sample > 1 THEN @ + 1 ELSE @] IN
     \/ NextSample(r, runner[r].got) /\ UNCHANGED tally
     \/ Conclude(r, runner[r].got, TRUE, exhausted) /\ tally' = counted
     \/ \E score \in 1..MaxScore : NextSample(r, runner[r].got \cup {score}) /\ tally' = counted
  /\ UNCHANGED <<pc, facts, cursor, exhausted, board, outcome, cached, billed, unheard, runs>>

\* The call is recorded and its text goes through the gates: it is malformed or
\* cites nothing of the community, it refuses, or its findings have a score.
Record(r) ==
  /\ runner[r].pc = "record"
  /\ RecordUsage
  /\ tally' = [tally EXCEPT !.calls = @ + 1,
                            !.extra = IF runner[r].sample > 1 THEN @ + 1 ELSE @]
  /\ \/ NextSample(r, runner[r].got)
     \/ Conclude(r, runner[r].got, TRUE, exhausted)
     \/ \E score \in 1..MaxScore : NextSample(r, runner[r].got \cup {score})
  /\ UNCHANGED <<pc, facts, cursor, exhausted, board, outcome, cached, billed, unheard, runs>>

----------------------------------------------------------------------------
(* The blackboard and the supervisor                                        *)

\* Mutant: entries are posted as the runners finished.
PostedAsTheyCame(s) == s

\* By community, then by lens; what is equal stays as it came.
Ahead(s, p, i) ==
  \/ s[p].cluster < s[i].cluster
  \/ s[p].cluster = s[i].cluster /\ s[p].lens < s[i].lens
  \/ s[p].cluster = s[i].cluster /\ s[p].lens = s[i].lens /\ p < i

Posted(s) ==
  [k \in DOMAIN s |->
     s[CHOOSE i \in DOMAIN s : Cardinality({p \in DOMAIN s : Ahead(s, p, i)}) = k - 1]]

\* Every entry makes a version of its own; the supervisor is shown the last.
Post ==
  /\ pc = "pool" /\ cursor = Len(Jobs) /\ \A r \in Runners : runner[r].pc = "free"
  /\ \E sorted \in {Posted(entries)} :
     LET versions == board.versions \o [i \in DOMAIN sorted |-> SubSeq(sorted, 1, i)]
     IN board' = [versions |-> versions, read |-> Len(versions)]
  /\ pc' = "gate"
  /\ UNCHANGED <<facts, poolVars, outcome, cached, spent, billed, unheard, runs>>

\* fallbackSynthesis has a step for what the graph knows and for every finding;
\* with neither, the stage throws.
Fallback ==
  IF facts \/ \E i \in DOMAIN entries : entries[i].status = "ok" THEN "fallback" ELSE ""

\* Mutant: the supervisor is called whatever the specialists learned.
GateOpen ==
  /\ pc = "gate"
  /\ pc' = "supervise"
  /\ UNCHANGED <<facts, poolVars, board, outcome, cached, spent, billed, unheard, runs>>

\* The supervisor is called when no specialist found the budget exhausted, and
\* the budget allows it.
Gate ==
  /\ pc = "gate"
  /\ \/ ~exhausted /\ MayCall /\ pc' = "supervise" /\ UNCHANGED outcome
     \/ (exhausted \/ MayNotCall) /\ pc' = "conclude" /\ outcome' = Fallback
  /\ UNCHANGED <<facts, poolVars, board, cached, spent, billed, unheard, runs>>

Supervise ==
  /\ pc = "supervise"
  /\ \/ /\ Answers
        /\ pc' = "derive" /\ UNCHANGED outcome
     \/ /\ "model" \in Faults /\ Throws
        /\ pc' = "conclude" /\ outcome' = Fallback
  /\ UNCHANGED <<facts, cursor, runner, exhausted, entries, board, cached, spent, runs>>

\* deriveSupervisedSynthesis rejects what is malformed or grounded in nothing.
Derive ==
  /\ pc = "derive"
  /\ RecordUsage
  /\ pc' = "conclude"
  /\ outcome' \in {"supervisor", Fallback}
  /\ UNCHANGED <<facts, poolVars, board, cached, billed, unheard, runs>>

\* Only the supervisor's synthesis is cached; a cache that rejects fails the
\* stage.
Keep ==
  /\ pc = "conclude"
  /\ pc' = "ended"
  /\ \/ outcome = "supervisor" /\ cached' = outcome /\ UNCHANGED outcome
     \/ outcome = "supervisor" /\ "cache" \in Faults /\ outcome' = "" /\ UNCHANGED cached
     \/ outcome # "supervisor" /\ UNCHANGED <<outcome, cached>>
  /\ UNCHANGED <<facts, poolVars, board, spent, billed, unheard, runs>>

\* Another job for the same commit.
Rerun ==
  /\ pc = "ended" /\ runs < MaxRuns
  /\ runs' = runs + 1
  /\ pc' = "start" /\ outcome' = ""
  /\ cursor' = 0 /\ exhausted' = FALSE /\ entries' = <<>>
  /\ board' = EmptyBoard /\ tally' = NoTally
  /\ UNCHANGED <<facts, runner, cached, spent, billed, unheard>>

----------------------------------------------------------------------------

Work(r) == Take(r) \/ Check(r) \/ Reply(r) \/ Record(r)
Stage ==
  \/ ReadCache \/ Open
  \/ Post \/ Gate \/ Supervise \/ Derive \/ Keep

Next == Stage \/ Rerun \/ \E r \in Runners : Work(r)

Spec ==
  /\ Init /\ [][Next]_vars
  /\ WF_vars(Stage) /\ \A r \in Runners : WF_vars(Work(r))

----------------------------------------------------------------------------

Statuses == {"ok", "refused", "failed", "skipped-budget"}
Busy == {r \in Runners : runner[r].pc # "free"}

TypeOK ==
  /\ pc \in {"start", "open", "pool", "gate", "supervise", "derive", "conclude", "ended"}
  /\ cursor \in 0..Len(Jobs)
  /\ \A r \in Runners :
       /\ runner[r].pc \in {"free", "check", "call", "record"}
       /\ runner[r].pc # "free" => runner[r].sample <= Jobs[runner[r].job].samples
  /\ cached \in {"none", "fallback", "supervisor"}
  /\ outcome \in {"", "supervisor", "fallback"}

\* "Every outcome is recorded" (contracts.ts): when the runners are done, each
\* lens of each selected community has exactly one entry, whatever failed and
\* whoever found the budget exhausted, and the board's order does not depend
\* on who was faster.
EveryLensReports ==
  pc \in {"gate", "supervise", "derive", "conclude"} =>
    LET shown == board.versions[board.read]
    IN /\ Len(shown) = Len(Jobs)
       /\ {[cluster |-> e.cluster, lens |-> e.lens] : e \in ToSet(shown)} =
            [cluster : Selected, lens : Lenses]
       /\ \A i, j \in DOMAIN shown : i < j =>
            \/ shown[i].cluster < shown[j].cluster
            \/ shown[i].cluster = shown[j].cluster /\ shown[i].lens < shown[j].lens

\* Best-of-N keeps the best: a job that paid for a usable sample reports it,
\* and the best one, whatever its other samples met.
BestIsKept ==
  \A i \in DOMAIN entries : entries[i].got # {} =>
    entries[i].status = "ok" /\ \A s \in entries[i].got : s <= entries[i].score

\* "the extra bill is always attributable" (runFanOut.ts): what is reported as
\* spent is what the provider charged for the replies this run heard, the
\* specialists' and the supervisor's, and beyond one of them for each job only
\* the communities that were routed hard cost anything.  Over all runs, while
\* its Redis answers, the budget's count differs from the provider's bill by
\* the replies about to be recorded and those that the client threw away.
BillIsExplained ==
  /\ "budget" \notin Faults =>
       billed = spent + unheard + (IF pc = "derive" THEN 1 ELSE 0)
                  + Cardinality({r \in Runners : runner[r].pc = "record"})
  /\ pc = "pool" =>
       tally.usage = tally.calls + Cardinality({r \in Runners : runner[r].pc = "record"})
  /\ pc # "pool" => tally.usage - tally.calls \in 0..1
  /\ tally.calls - tally.extra <= cursor
  /\ tally.extra <= MaxHard * Cardinality(Lenses) * (Samples - 1)

\* The budget is asked once for each job: while its Redis answers, the ceiling is
\* overspent by no more than the samples the runners have under way, or by the
\* supervisor's one call.  A reply that the client throws away is charged beside
\* the ceiling.
CeilingHolds ==
  "budget" \notin Faults =>
    billed - unheard <=
      (IF Limit = 0 THEN 0 ELSE Limit - 1 + Max({1, Cardinality(Runners) * Samples}))

\* A run that found the budget exhausted does not go on spending: no runner
\* takes up another job's calls, and the supervisor is not called.
ExhaustedStops ==
  [][exhausted /\ exhausted' =>
       /\ \A r \in Runners : runner[r].pc = "free" => runner'[r].pc = "free"
       /\ pc' \notin {"supervise", "derive"}]_vars

\* "a transient supervisor failure" must not freeze "the degraded answer in for
\* the whole SHA" (synthesizeStage.ts): what a run serves without having spent
\* anything is a supervisor's synthesis, and one that was cached is not bought
\* again.
DegradedIsNotFrozen ==
  /\ (pc = "ended" /\ board.versions = <<>>) => outcome = "supervisor"
  /\ cached = "supervisor" => pc \in {"start", "ended"}

\* The stage ends, however many specialists fail.
FanOutEnds == pc = "start" ~> pc = "ended"

\* What the stage reports: every lens once, the best of each, and a degraded
\* synthesis only for the run that met the outage.
ReportsAreTrue == TypeOK /\ EveryLensReports /\ BestIsKept /\ DegradedIsNotFrozen

\* What the stage costs: every unit of it explained, and the ceiling kept.
SpendIsExplained == BillIsExplained /\ CeilingHolds

\* The stage winds up: nothing is begun on an exhausted budget, and it ends.
FanOutWindsUp == ExhaustedStops /\ FanOutEnds
=============================================================================
