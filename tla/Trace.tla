-------------------------------- MODULE Trace --------------------------------
(***************************************************************************)
(* What a run's trace says it cost: the spans that the worker derives from *)
(* progress events (processors/pipelineJobProcessor.ts), the report over   *)
(* them (packages/observability/src/tracer.ts), and its export to a buffer *)
(* in memory and a remote backend (memoryExporter.ts, exporters.ts).       *)
(***************************************************************************)
EXTENDS Integers, Sequences, FiniteSets

CONSTANTS
  Runs,       \* the runs one worker traces
  Stages,     \* of each run the stages, each with the model whose usage it reports, or none
  Usages,     \* what one provider call may have used
  Calls,      \* how many interim events a stage may emit
  Pricing,    \* prices of a token, by model
  MaxReports, \* what the buffer retains
  Ticks       \* bound on the clock of a run

VARIABLES
  trace,      \* the spans of each run, in the order they began
  clock,      \* milliseconds since each tracer began
  calls,      \* interim events of each stage so far
  phase,      \* "running", "exporting" or "ended"
  buffer,     \* the memory exporter: retained runs, exported, dropped
  remote,     \* what became of each run's POST
  \* The rest only observes.
  reported    \* the usage of every event, by run and stage

traceVars == <<trace, clock, calls, phase, buffer, remote, reported>>

None == "none"
Absent == -1
Stage(r) == DOMAIN Stages[r]

Read(n) == IF n = Absent THEN 0 ELSE n

\* The sum of a function to the natural numbers, counted unit by unit.
Units(f) == UNION {{x} \X (1..f[x]) : x \in DOMAIN f}
TotalOf(f) == Cardinality(Units(f))

\* A total that contains an estimate is an estimate.
SumOfUsages(usages) ==
  [input |-> TotalOf([i \in DOMAIN usages |-> usages[i].input]),
   output |-> TotalOf([i \in DOMAIN usages |-> usages[i].output]),
   cacheRead |-> IF \A i \in DOMAIN usages : usages[i].cacheRead = Absent THEN Absent
                 ELSE TotalOf([i \in DOMAIN usages |-> Read(usages[i].cacheRead)]),
   measured |-> \A i \in DOMAIN usages : usages[i].measured]

----------------------------------------------------------------------------
(* The report                                                               *)

UsageOf(span) == SumOfUsages(span.usage)

\* Tokens read from a cache have their own price, and are not input as well.
CostOf(usage, price) ==
  LET cached == Read(usage.cacheRead)
  IN (IF usage.input > cached THEN usage.input - cached ELSE 0) * price.input
       + usage.output * price.output
       + cached * (IF price.cacheRead = Absent THEN price.input ELSE price.cacheRead)

\* Of the spans that carry usage; no total in money when a model that
\* contributed has no price.
computeCost(spans) ==
  LET entries == {i \in DOMAIN spans : spans[i].usage # <<>>}
      total == SumOfUsages([i \in entries |-> UsageOf(spans[i])])
      unpriced == {spans[i].model : i \in entries} \ DOMAIN Pricing
  IN [input |-> total.input, output |-> total.output, cacheRead |-> Read(total.cacheRead),
      measured |-> total.measured,
      usd |-> IF unpriced # {} THEN Absent
              ELSE TotalOf([i \in entries |-> CostOf(UsageOf(spans[i]), Pricing[spans[i].model])]),
      unpricedModels |-> unpriced]

Failed(spans) == {i \in DOMAIN spans : spans[i].status = "error"}

\* What a node or an edge says of its spans; an edge leaves out the errors.
Tally(spans, which) ==
  [calls |-> Cardinality(which),
   duration |-> TotalOf([i \in {k \in which : spans[k].end # Absent} |-> spans[i].end - spans[i].start]),
   usage |-> SumOfUsages([i \in which |-> UsageOf(spans[i])]),
   errors |-> Cardinality(which \cap Failed(spans))]

\* Spans of one name are one node; a child whose parent is known is an edge.
buildInteractionGraph(spans) ==
  LET child == {i \in DOMAIN spans : spans[i].parent # 0}
      Edge(i) == <<spans[spans[i].parent].name, spans[i].name>>
  IN [nodes |-> [n \in {spans[i].name : i \in DOMAIN spans} |->
                   Tally(spans, {i \in DOMAIN spans : spans[i].name = n})],
      edges |-> [e \in {Edge(i) : i \in child} |-> Tally(spans, {i \in child : Edge(i) = e})]]

\* A tracer's clock does not run backwards: spans began in the order of ids.
buildReport(spans) ==
  [spans |-> spans,
   duration |-> spans[1].end - spans[1].start,
   cost |-> computeCost(spans),
   interactions |-> buildInteractionGraph(spans),
   errors |-> Cardinality(Failed(spans)),
   complete |-> \A i \in DOMAIN spans : spans[i].end # Absent]

----------------------------------------------------------------------------
(* Spans                                                                    *)

Span(name, parent, at) ==
  [name |-> name, parent |-> parent, start |-> at, end |-> Absent, status |-> "unset",
   usage |-> <<>>, model |-> None]

Init ==
  /\ trace = [r \in Runs |-> <<Span("run", 0, 0)>>]
  /\ clock = [r \in Runs |-> 0]
  /\ calls = [r \in Runs |-> [s \in Stage(r) |-> 0]]
  /\ phase = [r \in Runs |-> "running"]
  /\ buffer = [retained |-> <<>>, exported |-> 0, dropped |-> 0]
  /\ remote = [r \in Runs |-> None]
  /\ reported = [r \in Runs |-> [s \in Stage(r) |-> <<>>]]

\* stageSpans: the span of a stage that is not ended.
OpenSpan(r, s) == {i \in DOMAIN trace[r] : trace[r][i].name = s /\ trace[r][i].end = Absent}
Opened(r, s, at) == IF OpenSpan(r, s) = {} THEN Append(trace[r], Span(s, 1, at)) ELSE trace[r]
IndexOf(r, s) == IF OpenSpan(r, s) = {} THEN Len(trace[r]) + 1 ELSE CHOOSE i \in OpenSpan(r, s) : TRUE
Done(r, s) == \E i \in DOMAIN trace[r] : trace[r][i].name = s /\ trace[r][i].end # Absent

\* An interim event: its usage is recorded on the stage's span, left open.
Interim(r, s) ==
  /\ phase[r] = "running" /\ Stages[r][s] # None /\ ~Done(r, s) /\ calls[r][s] < Calls
  /\ \E usage \in Usages, at \in {clock[r], clock[r] + 1} :
       /\ at <= Ticks
       /\ clock' = [clock EXCEPT ![r] = at]
       /\ trace' = [trace EXCEPT ![r] = [Opened(r, s, at) EXCEPT
                      ![IndexOf(r, s)].usage = Append(@, usage), ![IndexOf(r, s)].model = Stages[r][s]]]
       /\ reported' = [reported EXCEPT ![r][s] = Append(@, usage)]
  /\ calls' = [calls EXCEPT ![r][s] = @ + 1]
  /\ UNCHANGED <<phase, buffer, remote>>

\* The span ends, and with no error and no verdict it is good.
Ended(span, status, at) ==
  [span EXCEPT !.end = IF span.end = Absent THEN at ELSE span.end,
               !.status = IF status # "unset" THEN status ELSE IF span.status = "unset" THEN "ok" ELSE span.status]

\* A terminal event, a skip like a completion that used nothing: it carries the
\* usage of a stage that was not told of call by call, or its total once more if
\* the stage completed.
Terminal(r, s) ==
  /\ phase[r] = "running" /\ ~Done(r, s)
  /\ \E outcome \in {"completed", "failed"}, at \in {clock[r], clock[r] + 1} :
     \E usage \in IF outcome # "completed" \/ Stages[r][s] = None THEN {<<>>}
                  ELSE IF calls[r][s] > 0 THEN {<<SumOfUsages(reported[r][s])>>}
                  ELSE {<<>>} \cup {<<u>> : u \in Usages} :
       /\ at <= Ticks
       /\ clock' = [clock EXCEPT ![r] = at]
       /\ LET i == IndexOf(r, s)
              span == Opened(r, s, at)[i]
              told == [span EXCEPT !.usage = span.usage \o usage,
                                   !.model = IF usage # <<>> THEN Stages[r][s] ELSE span.model]
          IN trace' = [trace EXCEPT ![r] = [Opened(r, s, at) EXCEPT
                         ![i] = Ended(told, IF outcome = "failed" THEN "error" ELSE "unset", at)]]
       /\ reported' = [reported EXCEPT ![r][s] = @ \o usage]
  /\ UNCHANGED <<calls, phase, buffer, remote>>

\* finishTrace, once: what is open is ended, the report built and handed to
\* both exporters; the buffer keeps the last few, and counts the others.
FinishTrace(r) ==
  /\ phase[r] = "running"
  /\ \E status \in {"ok", "error"} :
       LET spans == [i \in DOMAIN trace[r] |->
                       IF i = 1 THEN Ended(trace[r][i], status, clock[r])
                       ELSE IF trace[r][i].end = Absent THEN Ended(trace[r][i], "unset", clock[r]) ELSE trace[r][i]]
       IN trace' = [trace EXCEPT ![r] = spans]
  /\ LET retained == Append(buffer.retained, r)
         over == IF Len(retained) > MaxReports THEN Len(retained) - MaxReports ELSE 0
     IN buffer' = [retained |-> SubSeq(retained, over + 1, Len(retained)),
                   exported |-> buffer.exported + 1, dropped |-> buffer.dropped + over]
  /\ phase' = [phase EXCEPT ![r] = "exporting"]
  /\ remote' = [remote EXCEPT ![r] = "sent"]
  /\ UNCHANGED <<clock, calls, reported>>

\* The POST is answered, refused or aborted after its timeout: all the same
\* to the run.
RemoteSettles(r) ==
  /\ phase[r] = "exporting"
  /\ \E outcome \in {"stored", "lost"} : remote' = [remote EXCEPT ![r] = outcome]
  /\ phase' = [phase EXCEPT ![r] = "ended"]
  /\ UNCHANGED <<trace, clock, calls, buffer, reported>>

Next ==
  \E r \in Runs :
    \/ FinishTrace(r) \/ RemoteSettles(r)
    \/ \E s \in Stage(r) : Interim(r, s) \/ Terminal(r, s)

----------------------------------------------------------------------------

Reported(r) == {s \in Stage(r) : reported[r][s] # <<>>}

\* The bill is what the events said, of failed runs and of stages that never
\* ended as well; an estimate anywhere makes it one; and it is in money only
\* if every model that contributed has a price (tracer.ts:145-151).
BillIsHonest ==
  \A r \in Runs : phase[r] # "running" =>
    LET cost == buildReport(trace[r]).cost
        total == [s \in Reported(r) |-> SumOfUsages(reported[r][s])]
        price == [s \in Reported(r) |-> Pricing[Stages[r][s]]]
    IN /\ cost.input = TotalOf([s \in Reported(r) |-> total[s].input])
       /\ cost.output = TotalOf([s \in Reported(r) |-> total[s].output])
       /\ cost.cacheRead = TotalOf([s \in Reported(r) |-> Read(total[s].cacheRead)])
       /\ cost.measured = \A s \in Reported(r) : total[s].measured
       /\ (cost.usd = Absent) <=> \E s \in Reported(r) : Stages[r][s] \notin DOMAIN Pricing
       /\ cost.usd # Absent /\ (\A s \in Reported(r) : Read(total[s].cacheRead) <= total[s].input) =>
            cost.usd <= TotalOf([s \in Reported(r) |-> total[s].input * price[s].input
                                                         + total[s].output * price[s].output])

\* A report is complete, every span within its run, and its graph adds up to
\* the same calls and the same bill (tracer.ts:198-203).
ReportAddsUp ==
  \A r \in Runs : phase[r] # "running" =>
    LET report == buildReport(trace[r])
        nodes == report.interactions.nodes
        edges == report.interactions.edges
    IN /\ report.complete
       /\ \A i \in DOMAIN report.spans :
            /\ report.spans[i].start <= report.spans[i].end
            /\ report.spans[i].end <= report.spans[1].start + report.duration
       /\ TotalOf([n \in DOMAIN nodes |-> nodes[n].calls]) = Len(report.spans)
       /\ TotalOf([e \in DOMAIN edges |-> edges[e].calls]) = Len(report.spans) - 1
       /\ TotalOf([n \in DOMAIN nodes |-> nodes[n].usage.input]) = report.cost.input
       /\ TotalOf([n \in DOMAIN nodes |-> nodes[n].errors]) = report.errors

\* The buffer holds the latest reports and owns to what it dropped, whatever
\* became of the remote (memoryExporter.ts:19-26, exporters.ts:187-190).
BufferIsHonest ==
  /\ Len(buffer.retained) <= MaxReports
  /\ buffer.exported = Len(buffer.retained) + buffer.dropped
  /\ buffer.exported = Cardinality({r \in Runs : phase[r] # "running"})

TraceIsHonest == BillIsHonest /\ ReportAddsUp /\ BufferIsHonest
=============================================================================
