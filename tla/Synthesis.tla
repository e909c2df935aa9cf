------------------------------ MODULE Synthesis ------------------------------
(***************************************************************************)
(* What the AI stage `synthesize` spends (packages/analyzers/src/stages/   *)
(* synthesize.ts): runs that share the daily budget counter of Redis       *)
(* (budget/budgetHandle.ts) and the completion cache, and the cost each    *)
(* run's trace reports (pipelineJobProcessor.ts).  Workers run side by     *)
(* side; check and record are separate calls, with provider calls between. *)
(***************************************************************************)
EXTENDS Integers, FiniteSets

CONSTANTS
  Runs,       \* runs of the stage
  Key,        \* cache key of each run: the same commit and prompt, the same key
  Workers,    \* runs that may be under way at once
  MaxAttempts,
  Limit,      \* the daily ceiling
  Estimate,   \* what check adds before it compares
  MaxCost,    \* what one call may turn out to cost, at most
  Days,       \* bound on the calendar days
  Faults      \* calls that may fail: "budget" (Redis), "cache" (Mongo)

ASSUME SynthesisAssumption ==
  /\ Workers \in Nat \ {0} /\ MaxAttempts \in Nat \ {0} /\ Days \in Nat \ {0}
  /\ Limit \in Nat /\ Estimate \in Nat /\ MaxCost \in Nat
  /\ IsFiniteSet(Runs)
  /\ Faults \subseteq {"budget", "cache"}

VARIABLES
  day,
  spent,    \* the counter of each day
  cache,    \* keys with a completion
  run,      \* where each run is, its attempt, and the usage it holds
  billed,   \* what the provider charged each run
  unheard,  \* what it charged for calls that threw all the same
  traced,   \* usage recorded on each run's span
  outage    \* what Redis did not answer: checks passed, and usage lost

vars == <<day, spent, cache, run, billed, unheard, traced, outage>>

RunPc == {"idle", "cache", "check", "call", "charge", "judge", "store", "completed", "failed"}

Active(r) == run[r].pc \notin {"idle", "completed", "failed"}

TypeOK ==
  /\ day \in 1..Days
  /\ spent \in [1..Days -> Nat]
  /\ cache \subseteq {Key[r] : r \in Runs}
  /\ run \in [Runs -> [pc : RunPc, attempt : 1..MaxAttempts, usage : 0..MaxCost, total : Nat]]
  /\ billed \in [Runs -> Nat] /\ unheard \in [Runs -> Nat] /\ traced \in [Runs -> Nat]
  /\ \A r \in Runs : unheard[r] <= billed[r]
  /\ outage \in [passed : Nat, lost : Nat]
  /\ Cardinality({r \in Runs : Active(r)}) <= Workers

Init ==
  /\ day = 1
  /\ spent = [d \in 1..Days |-> 0]
  /\ cache = {}
  /\ run = [r \in Runs |-> [pc |-> "idle", attempt |-> 1, usage |-> 0, total |-> 0]]
  /\ billed = [r \in Runs |-> 0]
  /\ unheard = [r \in Runs |-> 0]
  /\ traced = [r \in Runs |-> 0]
  /\ outage = [passed |-> 0, lost |-> 0]

----------------------------------------------------------------------------

Goto(r, pc) == run' = [run EXCEPT ![r].pc = pc]

\* The orchestrator enters the stage; BullMQ runs Workers jobs at once.
Begin(r) ==
  /\ run[r].pc = "idle"
  /\ Cardinality({s \in Runs : Active(s)}) < Workers
  /\ Goto(r, "cache")
  /\ UNCHANGED <<day, spent, cache, billed, unheard, traced, outage>>

\* The cache is read first; a stored completion that still grounds is the result.
ReadCache(r) ==
  /\ run[r].pc = "cache"
  /\ \/ Key[r] \in cache /\ Goto(r, "completed")
     \/ Goto(r, "check")
  /\ UNCHANGED <<day, spent, cache, billed, unheard, traced, outage>>

\* budget.check, once for all attempts.  Without Redis it fails open.
Check(r) ==
  /\ run[r].pc = "check"
  /\ \/ /\ Goto(r, IF spent[day] + Estimate <= Limit THEN "call" ELSE "failed")
        /\ UNCHANGED outage
     \/ /\ "budget" \in Faults
        /\ Goto(r, "call")
        /\ outage' = [outage EXCEPT !.passed = @ + 1]
  /\ UNCHANGED <<day, spent, cache, billed, unheard, traced>>

\* After a failed attempt: the next one, or none.
Retried(r) ==
  IF run[r].attempt < MaxAttempts
  THEN [run[r] EXCEPT !.pc = "call", !.attempt = @ + 1, !.usage = 0]
  ELSE [run[r] EXCEPT !.pc = "failed", !.usage = 0]

\* The provider answers, and charges for it, or the call throws: before there
\* was anything to charge, or after, since complete() rejects an answer that has
\* no text without reading the usage it came with.
Call(r) ==
  /\ run[r].pc = "call"
  /\ \/ \E c \in 1..MaxCost :
          /\ billed' = [billed EXCEPT ![r] = @ + c]
          /\ run' = [run EXCEPT ![r].pc = "charge", ![r].usage = c, ![r].total = @ + c]
          /\ UNCHANGED unheard
     \/ \E c \in 0..MaxCost :
          /\ billed' = [billed EXCEPT ![r] = @ + c]
          /\ unheard' = [unheard EXCEPT ![r] = @ + c]
          /\ run' = [run EXCEPT ![r] = Retried(r)]
  /\ UNCHANGED <<day, spent, cache, traced, outage>>

\* Mutant: usage is kept to be charged once the completion was found good.
ChargeLate(r) ==
  /\ run[r].pc = "charge"
  /\ Goto(r, "judge")
  /\ traced' = [traced EXCEPT ![r] = @ + run[r].usage]
  /\ UNCHANGED <<day, spent, cache, billed, unheard, outage>>

\* budget.record: INCRBY on the counter of the day it is now; a write that
\* Redis does not take is lost.  Then the interim event, whose usage the
\* processor records on the stage's span.
Charge(r) ==
  /\ run[r].pc = "charge"
  /\ \/ /\ spent' = [spent EXCEPT ![day] = @ + run[r].usage]
        /\ UNCHANGED outage
     \/ /\ "budget" \in Faults
        /\ outage' = [outage EXCEPT !.lost = @ + run[r].usage]
        /\ UNCHANGED spent
  /\ traced' = [traced EXCEPT ![r] = @ + run[r].usage]
  /\ run' = [run EXCEPT ![r].pc = "judge", ![r].usage = 0]
  /\ UNCHANGED <<day, cache, billed, unheard>>

\* deriveSynthesis: schema and grounding.
Judge(r) ==
  /\ run[r].pc = "judge"
  /\ \/ Goto(r, "store")
     \/ run' = [run EXCEPT ![r] = Retried(r)]
  /\ UNCHANGED <<day, spent, cache, billed, unheard, traced, outage>>

\* cache.set is inside the try: when it throws, the model is called again.
\* Then the terminal event, with the total usage, which the processor records
\* on the span that the interim events left open.
Store(r) ==
  /\ run[r].pc = "store"
  /\ \/ /\ cache' = cache \cup {Key[r]}
        /\ traced' = [traced EXCEPT ![r] = @ + run[r].total]
        /\ Goto(r, "completed")
     \/ /\ "cache" \in Faults
        /\ run' = [run EXCEPT ![r] = Retried(r)]
        /\ UNCHANGED <<cache, traced>>
  /\ UNCHANGED <<day, spent, billed, unheard, outage>>

\* utcDay: another key.
Midnight ==
  /\ day < Days
  /\ day' = day + 1
  /\ UNCHANGED <<spent, cache, run, billed, unheard, traced, outage>>

Synthesize(r) ==
  \/ Begin(r) \/ ReadCache(r) \/ Check(r) \/ Call(r) \/ Charge(r) \/ Judge(r) \/ Store(r)

Next == Midnight \/ \E r \in Runs : Synthesize(r)

Spec == Init /\ [][Next]_vars

----------------------------------------------------------------------------

\* The sum of a function into Nat, counted unit by unit.
Units(f) == UNION {{x} \X (1..f[x]) : x \in DOMAIN f}
TotalOf(f) == Cardinality(Units(f))

\* What the provider charged for the calls that returned.
Answered == [r \in Runs |-> billed[r] - unheard[r]]

\* Every call that returned is charged to the budget, rejected completions too,
\* whichever day its record falls on and whoever else records at the time; what
\* the counters miss of the bill is what Redis did not take and what was charged
\* for calls that threw.
EveryCallIsCharged ==
  TotalOf(spent) + TotalOf([r \in Runs |-> run[r].usage]) + outage.lost = TotalOf(Answered)

\* What no counter shows is bounded all the same: a run is not charged for more
\* than its attempts, however many of them throw or are rejected.
RunsAreBounded == \A r \in Runs : billed[r] <= MaxAttempts * MaxCost

\* How far the counter may have come when a check lets a run pass.
Headroom == IF Estimate <= Limit THEN Limit - Estimate ELSE 0

\* The ceiling is global: however the checks of one worker fall between the
\* calls of another, a day's counter passes it by no more than the runs under
\* way, and those that Redis could not refuse.
CeilingHolds ==
  \A d \in 1..Days :
    spent[d] <= Headroom + (Workers + outage.passed) * (MaxAttempts * MaxCost)

\* What a failed run paid for calls that returned reaches its trace.
FailedSpendIsTraced ==
  \A r \in Runs : run[r].pc = "failed" => traced[r] = Answered[r]

\* The money is accounted for: charged to the day, never far beyond its
\* ceiling, bounded for each run, and traced where it failed.
SpendIsAccounted ==
  TypeOK /\ EveryCallIsCharged /\ RunsAreBounded /\ CeilingHolds /\ FailedSpendIsTraced
=============================================================================
