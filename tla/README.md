# Code_Flow in TLA+

Code_Flow analyses a Git repository: an API accepts a request, a queue hands it
to a worker, the worker runs a staged pipeline (deterministic stages and two
stages that call language and embedding models), and the result goes to MongoDB
while a browser follows the progress over server-sent events.  Questions about
the result are answered by an agent over the stored graph and index.  This
directory models those parts, checks the models with TLC, and proves the most
important properties with TLAPS for every size of the system.

Paths below are relative to the repository.

## The system

| Component | Where | State | Operations | Talks to | Hard because |
|---|---|---|---|---|---|
| Pipeline orchestrator | `packages/analyzers/src/pipeline/orchestrator.ts` | slices, records, covered, settled and launched stages, flags | `runPipeline`: ask the cache, launch, await, record, reuse, skip, finish, reconcile | stages, cache lookup, speculator, its caller's `emit` and abort signal | stages run beside the loop; the cache decision replaces slices; abort and failure at any await; a slice corrected at the end |
| Stage DAG | `pipeline/schedule.ts` | none | `STAGE_READS`, `computeLayers`, `assertAcyclic` | orchestrator | the reads must be the true ones |
| Speculator | `pipeline/speculation.ts` | staged, queue, in flight, claimed, failed | `speculate`, `claim`, `commit`, `rollback` | the embedding cache, stages | a bound on concurrency, claims that race with commit, waiters that must not hang |
| `synthesize` | `stages/synthesize.ts`, `budget/budgetHandle.ts` | Redis counter of the day, completion cache | check, call, record, judge, store | provider, Redis, Mongo, trace | paid calls that are thrown away or never heard of, a budget checked once and charged later |
| Agents | `packages/agents/src/orchestrator` | runners, blackboard, knowledge base | fan-out, supervise, consolidate | models, budget, cache | runners with one budget, samples, degraded outcomes that must not be frozen |
| RAG stage | `stages/rag.ts`, `packages/retrieval` | two stores per namespace, chunk plans, embedding cache | plan, embed, drop, put, search | embedding provider, stores | batches and budget, an index replaced in two steps under a reader |
| Deterministic stages | `stages/*.ts`, `packages/parsers`, `packages/graph` | the parse pool | files to slices | file system | order of rules, two parsing engines, cycles, timeouts |
| Worker | `apps/worker/src` | job record, analysis, replay log in Mongo; Git children, temporary directories | `runAnalysisJob`, `saveAnalysis`, `append`, drain | queue, Mongo, live channel, Git | crash and redelivery, half-done sequences, unawaited appends |
| API: jobs | `apps/api/src/routes`, `queues`, `services` | job record in Mongo or memory, overflow, caches | `POST /api/analyze`, job and result reads | queue, Mongo | a timer races `queue.add`; a connection that changes between reads |
| API: progress stream | `apps/api/src/routes/jobs.ts` | per connection: pending, last index, phase; one QueueEvents listener | subscribe, replay, live, close | replay log, QueueEvents | splice of a log that may lose messages and a live feed that may start late |
| API: questions | `services/ragQaService.ts`, `packages/agents/src/askAgent.ts` | session, answer cache, budget | `POST /api/result/:id/ask` | models, retrieval, Redis | caps that combine, overlapping questions of one session |
| API: shell | rate limiter, warm-up, latency | counters, registry | per request | Redis | INCR and EXPIRE in two calls, single flight |
| Memory | `packages/memory` | conversations, commits of a repository | get, put, trim, diff | Redis | get-then-set without a transaction |
| Tracing | `packages/observability` | spans, a bounded buffer | events to spans, price, report | the run's events | estimated and measured, priced and unpriced |
| Web client | `apps/web/src` | view state | follow a job, ask, wake the API | API | a stream, which may go silent, and polling side by side, late answers |
| Arena, evaluation | `packages/arena`, `packages/eval` | none | score, calibrate, gate | models | a score that is not earned |
| MCP server, local CLI | `apps/mcp`, `apps/local-cli` | files of an index | tools, analyse, ask | file system | two files of one index, memoized loads |

`PROJECT.json` lists these components in finer grain with what is and is not
modelled, and under `hazards` the places in the code where something can go
wrong that a unit test would hardly reach.

### What makes each part correct

* **Orchestrator**: whatever the schedule, a stage sees the inputs it would have
  seen sequentially, and only the orientation is corrected after them; the one
  status never promises more than the records; a
  cached analysis spares the work it covers; nothing starts after a stop.
* **Speculator**: bounded, never computes a key twice, never promotes what
  nobody asked for, never leaves a claim waiting.
* **Replay log and stream**: a message is kept once or not at all, no holes; the
  client sees stages in order, once, and hears the end, unless neither the log nor
  the listener had it.
* **Job**: completed means there is a stored analysis; failed runs are not
  stored; an accepted job ends, whatever dies; the last `done`, where the log kept
  it, agrees with the record.
* **Spend**, in every stage that pays: what is billed for a call that returned is
  charged, what is billed beside that is accounted for; a daily ceiling holds up
  to what is under way; what is cached is not paid again.
* **Questions**: answers are grounded in what this question's tools returned; the
  caps are hard; a session stays one analysis's and in order.
* **Index**: text before vectors, one release's whole plan, and no chunk of
  another analysis; a question beside no rebuild loses nothing.
* **Algorithms**: they agree with a definition that does not share their loop.

## Modules

| Module | Models | Checked by |
|---|---|---|
| `Pipeline` | `runPipeline` with its launching and speculation windows, and how it implements `RunContract` | `pipeline`, `relaunch` |
| `RunContract` | what a caller of `runPipeline` is promised: one stage after the other | through `ImplementsContract` |
| `Speculator` | `createSpeculator` | `speculator` |
| `EventLog` | `append` and its races | `services` |
| `SseStream` | processor, live channel, log (`INSTANCE EventLog`) and one client's stream | `sse` |
| `AnalysisJob` | API, queue, workers, job records and the stored analysis | `jobs`, `job_ends` |
| `Synthesis` | the AI stage's spending over budget, cache and trace | `stores` |
| `ResultStore` | the API's analyses and their overflow documents | `stores` |
| `JobRecords` | a job's record in Mongo or in memory, and the three reads of a result | `stores` |
| `RepoMemory` | snapshots of commits, in Redis or in memory, and `what_changed` | `stores` |
| `Trace` | spans, usage, cost, report and buffer of two runs | `stores` |
| `Ask` | the ask route, the agent's loop, retrieval's caches, the conversation's memory | `ask` |
| `FanOut` | routing, runners, samples, supervisor and cache of the agents' synthesis | `fanout` |
| `RagIndex` | planning, embedding, indexing and searching one namespace | `rag` |
| `Dashboard`, `Wake` | `useAnalysis` and `useWake` | `services` |
| `RateLimit`, `WarmUp`, `ParsePool` | the limiter, the warm-up registry, the bounded parse | `services` |
| `WorkerProcess` | the worker's boot, Git children, probes, drain, kill and restart | `services` |
| `Communities` | community detection, visit by visit | `algorithms` |
| `CodeGraph`, `ChunkPlan`, `Retrieval` | graphs, deterministic stages, chunks and ranking, as operators | `algorithms` |
| `Knowledge`, `RunReport` | knowledge base, plan, report and drawn views of a run, as operators | `algorithms` |
| `Providers`, `Parsing`, `Scoring`, `LocalTools` | provider clients, the two parsing engines, evaluation, MCP and local CLI, as operators | `algorithms` |
| `Algorithms` | the questions put to those operators, and what the answers must be | `algorithms` |
| `MCServices`, `MCStores` | several stateful modules side by side, one to a behaviour | `services`, `stores` |
| `PipelineProofs`, `AnalysisJobProofs`, `SseStreamProofs`, `RagIndexProofs` | theorems | TLAPS |
| `AskProofs`, `ServicesProofs`, `StoresProofs`, `FanOutProofs` | theorems | TLAPS |
| other `MC*` | constants of the instances | |

A definition called `XHow` behind the comment "Mutant" is a plausible bug in the
definition `X` beside it.  It is not part of any specification; `PROJECT.json`
pairs it with the property that finds it, and so shows that the property can
fail.

A property of a run is often a conjunction of named parts, for instance
`AgentIsBounded == TypeOK /\ CapsAreHard /\ NoToolInVain /\ ChatCeiling`; each part
is a definition of its own with the comment that states it.

### How state and actions correspond to the code

**Pipeline.** The code is one `async` function on an event loop; it cannot be
interrupted between two awaits.  `pc` names the awaits (`preLookup`, `await`,
`postLookup`, `commit`) and the loop head; everything between two awaits is one
action, and stages end (`StageEnds`) and the caller aborts (`Abort`) only where it is
`Yielded`.  `launched`, `settled`, `covered`, `records`, `cacheChecked` are the
variables of the same name (`launched` the keys of the map); a slice is abstracted to
its origin: absent, from the cached analysis, or computed by this run.  `view` and
`guess` remember which snapshot a stage and its speculations were given; `starts`
counts calls of `run`.  `Advance` is the end of the loop body with its `launchReady`
and `launchSpeculations`.  A cached document is what `decideCacheAction` can tell
apart: which stages produced it, and which of them indexed in another vector space.
`Finish` includes `Reconcile`: at the end an orientation that this run computed may
get the project type of the inventory, and its origin is then `reconciled`, whatever
`map-structure` and `synthesize` have read of it before.  A cached orientation was
reconciled by the run that stored it.  The AI stages of a retry over that cache
therefore read a corrected orientation, and those of the first run the uncorrected
one.  The two cache lookups (by the SHA the caller asked for, and by the one the clone
resolved) differ in what a rejection does, and so do `PreLookupThrows` and
`PostLookupThrows`.  That `commit` may reject is in `Speculator`; seen from the job it
is a run that fails after its last stage (`Save` in `AnalysisJob`).

**EventLog.** `append` is a loop of read (`FindLast`), create (`Create`) and, on the
unique index's duplicate key error, another round (`LoseRace`); any other error is
swallowed (`Fault`), and the message is not in the log.  The processor calls it in
order of emission without awaiting (`Emit`).

**SseStream.** `Connect` subscribes and starts the read.  Subscribing attaches a
handler to the one QueueEvents listener of the process, which the first
subscription creates: it is there before the request (`listener = "early"`, c
messages along), or this request creates it, and it connects at some later moment
(`Open`), after which it hears what is published from then on.  From then on
`Deliver` queues or writes; `ReadLog` is the moment Mongo answers, `ReadFails` the
rejection that nothing catches.  `Replay` begins to write, `WriteNext` writes one message of
the snapshot, then of the queue, and `GoLive` ends it: in the code that is one turn
of the API's event loop, so nothing else of the stream acts in between (only the
worker, another process, may).  `WriteMessage` is the function of that name, with
its filter on the stage index.  `done` is published only when its append has
returned, which it also does when it failed: the log is `EventLog` with faults.

**AnalysisJob.** `queue` is the BullMQ job, `api` the request, `exec[j][r]` the r-th
delivery of job j: a worker that dies (`Crash`) or only loses its lock (`Stall`) makes
the queue deliver again, in the second case beside the first run.  Each awaited call
of `runAnalysisJob` is an action with its failing alternative, and the catch block is
three more.  `append` of a `done` never fails for its caller, but may keep nothing;
`dones` has "none" in that place.  All jobs ask for one commit, the case in which they
share `store`.

**Speculator.** `Pump` is `pump`: it takes tasks from the head of the queue while
there are slots.  A task that has ended still holds its slot until `finally`
(`SlotFreed`).  `Settle` is the common end of `commit` and `rollback`, which empties
the queue and resolves what waited there; `CommitThrows` is a cache write that
rejects `commit`, after which nobody settles.

**Synthesis, Ask, FanOut, RagIndex** spend from a budget the same way: `check` before
a call, the call, `record` after it, each an action, since other runs act between.  A
call that throws may have been charged: every client reads the body of a 200 and
throws when there is no text in it, or not the vectors it asked for, and Gemini's
embedding client sends a batch in parts of 100, of which a later one may fail.  Nobody
reads the usage then; `unheard` (in `RagIndex` `lost`) keeps that sum.  The budget's
and the caches' Redis may not answer: a check lets the call pass, a record is lost, a
cache finds and keeps nothing (`passed`, `lost`, `missed` in `Ask`, `outage` in
`Synthesis`).  A model's answer is any of the outcomes the code tells apart (fails,
unusable, usable, with what it cites or scores); text is abstracted to that.  In `Ask`
an action is one turn's await: the tool, the model, Redis, the budget.  In `FanOut`
the runners are the `Promise.all` workers of `runPool`, each with its own step.  In
`RagIndex` dropping and putting are one action per store and per `INSERT`, and a
question's two arms and its reading of texts are three.

**The stores and shells** follow one rule: an action is what runs between two
awaits, and a call that reaches another process may fail.  `ResultStore`,
`JobRecords` and `RepoMemory` let the connection change at any time, so that a
reader meets one store after the other; a run in `JobRecords` ends soundly, in part
(completed, with the error of the stage that failed) or not.  `WorkerProcess` boots
without stores where no embedding client is configured, and a job's directory may
outlive it (`CODEFLOW_KEEP_TMP`, a removal that rejects); in `ParsePool` a read may
stall, which the timer ends where there is one, and a synchronous parse may
hang the thread (`Hang`), after which nothing runs.  `Dashboard` has one action per
callback of the hook (`created`, `tickAnswered`, `onStage`, ...), named as in the code; a stream
may go silent while it is open (`GoesSilent`), for the reasons that `SseStream` has.

**The operators** of the pure modules have the names of the functions they
translate.  Scores are whole numbers or pairs; where the code rounds or
normalises, so does the operator.  A behaviour of `algorithms` asks one question
and stays there, so a state is a bounded input, and an invariant compares the
function's answer with a reference definition (reachability instead of a
traversal, a set of positions instead of spans) or with a law it must obey
(order of the input does not show, nothing is lost untold, more is never worse).

## What each run shows

| Run | Instance and bounds | Shows |
|---|---|---|
| `pipeline` | the product's eight stages with the code's `STAGE_READS` and owners; both schedules; both ways of naming the commit | see below |
| `relaunch` | the same | a disagreement, below |
| `sse` | 2 stages and `done`, 3 attempts, appends and a read of the log that may fail, a listener that is there or not | a log that is in and out of order and with any message missing, and every moment of connecting |
| `jobs` | 2 jobs, 2 deliveries each, updates, saves and appends that fail, symmetric jobs | a partial and a complete result meet; each job can be redelivered |
| `job_ends` | 1 job, 2 deliveries, overlapping, timer, every call but the updates failing | liveness over redelivery; one job, since jobs only share `store` |
| `speculator` | 3 keys, 2 claims, 1 slot (production's `maxConcurrent`) | queue of two behind one running task, so that a claim has someone to overtake; a cache that rejects |
| `stores` | `Synthesis`: 3 runs (2 of one key), 2 workers, 2 attempts at a cost of 1, limit 2, 2 days; `ResultStore`: 3 results (fits, splits, never fits), 2 readers, 2 changes of the connection; `JobRecords`: 1 job, 1 request, 2 changes, 2 deliveries; `RepoMemory`: 4 calls on 3 commits, 2 at once, room for 2; `Trace`: 2 runs, 2 paying stages, one without a price | the ceiling is reached and overspent within its bound; the trim drops something; an outage falls between any two reads |
| `ask` | 2 questions, six pairings of 4 analyses (with everything, without graph, without index) and sessions; 2 turns, 1 tool call, 1 retry, memory for 2 turns and 2 entities, limit 2, at most 2 calls of the budget without an answer (`Outages`) | every cap is hit, alone and with others; both questions share a session, a cache and the day's budget |
| `fanout` | 3 clusters of which 2 are analysed, 2 lenses, 2 runners, 2 samples for the hard one, limit 3, 2 runs, 1 charged reply thrown away (`MaxUnheard`) | the budget runs out at every step; the second run meets the first one's cache |
| `rag` | 2 jobs on 2 releases that share a chunk, 1 question, requests of 1 text, 2 attempts each (the code's default is 3), limit 2, 1 restart, at most 2 charged in vain (`MaxLost`) | drop, put and search in every order; the plan of one release against the index of another |
| `services` | `EventLog`: 4 messages, 2 attempts; `Dashboard`: 2 analyses, 2 requests of a kind in flight, 1 question; `Wake`: 6 attempts; `RateLimit`: 3 arrivals, window 2, 1 allowed; `WarmUp`: 2 registrations, 2 callers; `ParsePool`: 5 files, 2 slots; `WorkerProcess`: 2 jobs, 1 kill | a message can lose to two others, so the retry bound is reached and passed; a queue behind the slots; a kill at every step |
| `algorithms` | graphs of up to 4 files, chunks of up to 3 lines, and for each question a small family chosen so that every branch is taken | below |

The instances are small but not below the size at which something can go wrong:
each property is paired with a mutant that breaks it under the same bounds.

* `pipeline`: **InputsAreFinal** (what a stage was given for its declared reads is
  what its producer left there for good, however early it was launched; the run ends
  with another value in the orientation alone, which it corrects by the inventory
  when no stage is left to read it), **ScheduleInv** (why),
  **RunsAreHonest** (the status says what the records say; an AI stage that failed
  leaves no slice of the cached analysis behind, and what `producedBy` lists is
  there), **WorkIsWarranted** (what the cache covers is not run; in the default
  schedule nothing runs behind the loop; only a sound run commits),
  **NothingStartsAfterStop**, **RunReturns**, and **ImplementsContract**: the
  concurrent orchestrator refines `RunContract`.
* `sse`: **StreamIsClean** (`InOrderOnce`; `CleanSplice`: when the log kept the first
  messages in order, the client gets exactly those and the rest live, none lost
  at the seam but those published before the listener heard and logged after the
  read; `MissedForAReason`: the end is missed only when this stream's listener
  opened late or the log lost `done`), **StreamEnds** (unless it was missed so, or the
  read failed).
* `jobs`, `job_ends`: **StoreIsHonest** (`CompletedHasAnalysis`, `FailedNeverStored`),
  **LastWordAgrees**, **EndsForGood**.  `LastWordAgrees` speaks of the last `done`
  that was to be logged: when its append is lost, the log's last one is an earlier
  delivery's, and may say failed of a job that the next one completed.  It holds for
  the two deliveries that BullMQ's default `maxStalledCount` (which the code leaves
  alone) allows; with a third it does not, and neither when the final publish fails,
  the worker dies in the catch block, and the next delivery's first update fails too:
  then the record says failed and the log completed.
* `speculator`: **SpeculatorInv** (`SlotsAreUsed`, `OnlyProvenPromoted`, and why),
  **ClaimsAreHonoured** (`ProvenFirst`, `ComputedOnce`, `CommitIsComplete`,
  `ClaimsReturn`: a claim returns though the run was rolled back, or its commit
  rejected, while its task was still in the queue).
* `stores`: **SpendIsAccounted** (`EveryCallIsCharged`: all that returned;
  `RunsAreBounded`: what a run is billed, the calls that threw included;
  `CeilingHolds`, `FailedSpendIsTraced`); **StoresAreHonest** (a result is split no
  more than it must be, the payload is there before the document names it, what is
  served is what was stored; the newest commits are kept and the diff is exact; the
  bill adds up; a record that is only in memory is told to be, a result is called
  inconsistent only when the job ended between two reads, and an error is only on a
  job that was refused, or of which a run failed, whole or in a stage).
* `ask`: **AnswersAreGrounded**, **AgentIsBounded** (the caps, and a ceiling that is passed
  by no more than the questions side by side, the calls that threw after they were
  charged, and what Redis did not record or check), **SessionIsSound** (one analysis,
  in order of recency, and no turn lost within one process), **AsksEnd** (every
  question is answered, and a repeated one is not paid again while the cache answers).
* `fanout`: **ReportsAreTrue** (every lens reports once, the best sample is kept, and
  a synthesis degraded by an outage is not frozen), **SpendIsExplained** (report, count
  and bill agree but for replies being recorded or thrown away),
  **FanOutWindsUp** (nothing starts on an exhausted budget, and the stage ends).
* `rag`: **SpendIsHeld** (the bill and the ceiling up to what is lost and known to be),
  **IndexIsSound**, **RagEnds**.
* `services`: **RaceInv** (`Dense`, `StoredOnce`, `DroppedOnlyWhenCrowded` and why),
  **DashboardIsHonest**, **DashboardSettles** (an analysis ends, or another takes its
  place, or its stream is silent, and then the page waits), **BoundsAreKept** (of the
  rate limit, the warm-up, the wake, the parse pool and the worker, each under its own
  name in its module), **ServicesEnd**.
* `algorithms`: **DetectionIsExact** and **DetectionSettles** (the bookkeeping of
  communities agrees with the files' edges; modularity rises and detection
  ends), **GraphsAreSound**, **StagesAreSound**, **RetrievalIsSound**,
  **ProductsAreSound**, **ProvidersAreSound**, **EnginesAgree**, **ScoresAreFair**.

`CHECK_DEADLOCK FALSE` is set everywhere because every one of these systems may
come to rest: the run has returned, all jobs have ended, the question is asked.

### Fairness

* `Pipeline`: the event loop resumes `runPipeline` (`WF(Orchestrate)`), and each
  stage's `run` settles: a Git child has its timer, and of a provider's call it is
  assumed that Node's `fetch` gives up one that stalls, as it does by default after
  five minutes (the clients set no limit of their own).  A parse that hangs the thread
  (`Hang` in `ParsePool`) stops everything and is outside this run.  No
  fairness on abort or on a particular answer of the cache.
* `EventLog`, `SseStream`: Mongo answers or fails, the processor goes on to its end, the
  listener connects at some time, and what is published from then on is delivered
  (QueueEvents reads a Redis stream and reconnects where it stopped).  Nothing is
  assumed of the client and of faults.
* `AnalysisJob`: a worker takes a waiting job, and a run that is not killed goes on.
  Crashes are not fair and bounded by `Deliveries`.
* `Speculator`: computations end, and what a settled promise resumes is resumed.
* `Ask`, `FanOut`, `RagIndex`: each await ends one way or the other (by the same
  assumption on `fetch`); which way is never fair.
* `ParsePool`: timers fire while the thread is free; a read may stall for ever and a
  parse may hang, and the stage is promised to end only with a timer and without a
  hung parse (`concurrency.ts:44-46` says why).  `WorkerProcess`: the
  platform restarts what exits, Git's timer fires; Git itself may hang.
  `WarmUp`, `Wake`, `Dashboard`: requests are answered or fail, and intervals tick;
  a stream delivers the end of its job or breaks, unless it has gone silent, which
  it may at any time.
* `Communities` and the questions of `algorithms` are loops of one thread.

### Disagreements between code and documents

One run is expected to find a violation, with the quotation in `PROJECT.json`:
`relaunch`, in which, in the layered schedule, an AI stage that was launched,
awaited and failed is in neither `launched` nor `settled`, and is run a second
time.

Further ones, which the models contain as behaviour without a run of their own.
*Pipeline and job.*  A cache lookup that rejects after Ingest records Ingest a
second time, as failed (`PostLookupThrows`, `Discredit` in the contract); in the
layered schedule a stage that runs is recorded as skipped when an earlier one
fails (`Skip`); a job refused with 503 may still be delivered, since the timer
does not remove it (`AddTimesOut`, then `AddLands`); a stored partial analysis
answers a new request as completed, though `CURRENT_STATE.md` speaks of a retry
(`AnswerCached`), and `saveAnalysis` only inserts, so a complete result does not
replace a partial one; a failing publish of `done` turns a completed job into a
failed one (`PublishDone`, `Catch`); the count in `assertAcyclic` can never fail,
since `computeLayers` emits every stage: cycles are found by its last check only.
*Stream.*  "Subscribe BEFORE reading the log so no event emitted during replay is
lost" (`jobs.ts:64`) does not hold of the first stream of a process, whose listener
connects after the log may have been read (`Open`): it may miss `done` and stay open
for ever, and the page with it, which does not poll while its stream is open
(`GoesSilent`).  So does a client of a job whose `done` the log lost, when it comes
after the publication.  The log may keep a later stage before an earlier one, and a
client that replays it never sees the earlier stage; interim usage events of
`synthesize` use up its stage index, and the stream drops the event that says how it
ended; a log read that rejects leaves the stream open and silent.
*Records.*  A job that ends between the two reads of `GET /api/result` is answered
500, "Completed job has no associated analysis result", though it has one; a job
recorded in memory while Mongo is away is accepted, and no worker ever finds it,
though the notice only says it will not survive a restart; `error` is never
cleared, so a job that landed after a refusal is completed with the refusal as
its message.  A `done` that was not logged leaves an earlier delivery's as the last
word (`append`).
*Spend and traces.*  A call that is charged and throws is on no counter, so that the
daily ceiling is one for the calls that return (`unheard`, `Thrown`); a completed
stage's spend is recorded twice on its span; the query embedding of the agent's search
is paid, not recorded; OpenAI's and Gemini's clients record a missing output counter
as a measured 0, though `llmClient.ts:376` says it must not; `GEMINI_EMBEDDING_DIM`
like "1.5" is told as one width and used as another.
*Questions and memory.*  The Redis session's get-then-set loses turns of two
processes; a session is loaded without checking whose analysis it is about; a
rejected `resolveRetrieval` is memoized, and so is a rejected load of the MCP
server; an overlapping put may delete a commit that was put again meanwhile.
*Index.*  Overlapping rebuilds leave hits without text for a while; a failure
between drop and put destroys the earlier index.
*Algorithms.*  A search for cycles with one visited set misses those through a node
it has left; a negated directory rule brings back everything below it, unlike
Git; `fanIn` counts parallel edges; `moveImpact` counts them twice though it says
files; the knowledge base's cap per cluster is not in its `reduction`; a call on a
computed object is taken for a call of a local name; the judge's gate admits one
that passes half of the unfaithful answers of a lopsided label set.
*Browser.*  An `analyze(B)` while A finishes can settle B's run, so that it never
ends; under `StrictMode` the wake sends no request at all.

## What is proved

All theorems hold for every value of the constants that meets the named
assumptions; TLC evaluates those for every instance above.

* `PipelineProofs` (assumptions `StagesAssumption`, `SlicesAssumption`,
  `OwnersAssumption`: a slice has one owner, `OrderAssumption`: the declared order is
  a topological order of the reads, `IngestAssumption`: the clone reads no slice)
  proves every safety property that `pipeline` checks, for any array of stages:
  **TypeCorrect**; **ScheduleInvariant**; **SchedulingIsDeterministic**
  (`InputsAreFinal`); **StopIsFinal** (`NothingStartsAfterStop`); **RunEndsHonestly**
  (`RunsAreHonest`); **OnlyWarrantedWork** (`WorkIsWarranted`);
  **OrchestratorRefinesContract** (`ImplementsContract`: initial states map to initial
  states, every step to a step or a stutter of `RunContract`, the correction of the
  orientation included).  `InputsAreFinal` is not inductive: that a snapshot stays
  right needs that its producers are folded in or passed (`Frozen`), for stages still
  running as well (`FrozenInv`), that no cache answer can replace slices once anything
  but Ingest was given a snapshot (`ControlInv`), and that nothing but the end of the
  run corrects a slice (`OnlyTheEndCorrects`); a frozen value is therefore compared
  with the slice before that (`Folded`).  The status is honest because every stage
  behind the loop has its record and the flags are what the records say
  (`RecordsInv`), provenance because a slice is there exactly when an owner of it was
  folded in or taken over (`OriginsInv`), work because nothing but Ingest has run
  before the cache has spoken (`WorkInv`).  The refinement needs all of them: what a
  stage read when it was launched is what the contract's stage reads when the loop
  consumes it.  It also holds the speculator's theorems (an instance `S` of
  `Speculator`, under its assumption `SpeculatorConstants`: finitely many keys, at
  least one slot): **SpeculatorInvariant**, **SlotsAreAlwaysUsed**,
  **OnlyProvenIsPromoted**, and the three parts of `ClaimsAreHonoured` that are not
  liveness: **ProvenAreFirst** (`ProvenFirst`), **NothingComputedTwice**
  (`ComputedOnce`), **CommitsAreComplete** (`CommitIsComplete`).  The slots are a
  cardinality: `PumpKeeps` shows that starting s tasks from a queue without
  repetitions adds s computations; `TasksInv` says why the queue has none.
  `HonourInv` says why a commit is complete: until a run is settled what is waited for
  is staged and what was got is claimed, and whatever `commit` has visited is in the
  cache.
* `AnalysisJobProofs` (`JobsAssumption`): **RecordsMatchTheStore** (`StoreIsHonest`)
  for any number of jobs and deliveries and any faults.  The strengthening says what a
  delivery knows where it stands (`ExecInv`: it saves only a result worth saving, and
  when it records success something is stored) and that nothing leaves the store.
  **LastWordHolds** (`LastWordAgrees`) for any number of jobs, under the hypotheses
  that the property needs, as said above (that appends succeed is not one: the
  property speaks of what the log kept): no stalled worker runs beside its successor
  (`~Overlap`), and either updates of the record do not fail, with any number of
  deliveries, or there are at most the two that BullMQ's default allows and `publish`
  does not fail.  Its invariant `WordInv` says that a job has one run at a time, what
  that run knows of the last word, and that until the last delivery there is nothing a
  failing update could leave uncorrected.
* `SseStreamProofs` (`StreamAssumption`: later messages have no smaller stage index,
  which is how the processor numbers them): **StreamClean** (`StreamIsClean`) for any
  number of messages and attempts, any append that fails, any moment of connecting and
  of the listener's opening, and **ImplementsLog**: the log inside the stream refines
  `EventLog` with its faults, so that what is proved of that log holds of what the
  stream reads.  The invariant has one part per piece of state that meets at the seam:
  the channel hands out messages in order (`ChannelInv`), the queue holds all that the
  listener heard since subscribing (`QueueInv`), the filter's index is that of the
  last stage written (`DedupInv`), and what is written is a prefix of the log followed
  by the rest of the channel, the overlap left out (`SpliceInv`).
* `RagIndexProofs` (`RagAssumption`: a plan names no chunk twice): **IndexSound**
  (`IndexIsSound`) for any jobs, questions, plans and sizes of the inserts, with jobs
  that fail, die and are run again at any step.  The invariant says what a job that
  rebuilds alone has made of the two stores at each of its rows (`StoresInv`): the
  vectors are always among the texts, and a namespace called built holds exactly one
  release.  `CalmInv` carries that over to a question that no rebuild met.
  **SpendHeld** (`SpendIsHeld`), also for any plans, request sizes, ceilings and
  restarts: what is charged is on the counter, on its way there, or lost with Redis,
  the worker or a request that failed or was repeated (`ChargeInv`); what a job embeds
  is no place of the plan that the cache held when the job began (`MissInv`), and what
  is cached stays cached unless the worker goes (`KeptInv`); while the budget always
  answers and no two jobs spend at once, what is spent and what is still due together
  stay within the ceiling and what is lost (`CeilingInv`).
* `AskProofs` (`AskAssumption`: finitely many questions, at least one;
  `ConversationAssumption`): **AskInvariant**, **AnswersGrounded**, **AgentBounded**,
  **SessionSound** (`AnswersAreGrounded`, `AgentIsBounded`, `SessionIsSound`) for any
  caps and any replies of the model, and the action property **RepeatFree**
  (`RepeatIsFree`).  `LoopInv` says at every await of the loop what the turn has done
  and what it may still do; `CeilingInv` counts the calls in flight, each of which was
  allowed while there was something left to spend or no answer of Redis, so that the
  limit is passed by less than one call per question, beside the calls that threw
  after they were charged, whose records were lost, or that nobody checked;
  `SessionsInv` and `LocalInv` say that a stored conversation is about the analysis it
  was begun with, has no entity twice, and keeps, up to its capacity, the turn of
  every question answered in one process.
* `FanOutProofs` (`FanOutAssumption`): **ReportsTrue** (`ReportsAreTrue`) and
  **SpendExplained** (`SpendIsExplained`) for any number of communities, lenses, caps,
  runners, samples and runs, and the action property **StopsWhenExhausted**
  (`ExhaustedStops`).  `FanInv` has a part per piece of state: every job that was
  taken is begun by one runner or reported once (`TakenInv`), the board is empty while
  the runners work and has a version after (`BoardInv`), the usage on the tally is the
  calls that returned and the samples being recorded (`TallyInv`), and while Redis
  answers, what was billed is spent, being recorded or thrown away, and what is spent
  and what the samples under way will yet spend stay within the ceiling and one round
  of the runners' samples (`PaidInv`).  Only hard communities cost more than a call
  per job: the calls beyond the first are mapped one to one into the ranks of routing,
  the lenses and the further samples.
* `StoresProofs` (`StoresAssumption`: counts, sizes and prices are numbers, reading from
  a cache is not dearer than input, and no stage is called `run`) proves both
  properties of `stores`.
  * **SpendAccounted** (`SpendIsAccounted`), for any number of runs, workers, attempts and
    days.  A sum is the cardinality of its units, so that the laws of finite sets
    are the laws of sums (`TotalChanges`, `TotalBounded`); a call that throws adds to the
    bill and to what was `unheard`, and to nothing else; what each run still owes is a
    function of its state (`DueOf`), no more than what its remaining attempts may cost.
  * **StoresHonest** (`StoresAreHonest`), part by part.  `ResultsInv`: a stored
    document fits its store, what it names was written before it, and a payload is one
    writer's; so each field a reader is served is the original, is said to be missing,
    or is a later writer's.  `SnapshotsInv`: whatever is held was asked for, a commit
    once, newest first where it is listed; and while no two calls overlapped and none
    failed, the stores hold exactly the newest at each step of the one call
    (`CalmStores`).  `TracesInv`: each stage has one span, which carries what its
    events reported and lies within the run (`SpansInv`), so that the bill, a sum over
    spans, is the sum over stages (`TotalRenamed`), and nodes and edges of the graph
    count each span once.  `RecordsInv`: a completed record has its result, and an
    error only with a cause, whatever request reads it when.
* `ServicesProofs` (`ServicesAssumption`: a schedule has an entry, a window a length,
  a pool its integers, the queue finitely many jobs; `LogAssumption`) proves of the
  parts that `MCServices` puts side by side, whatever the other parts' constants:
  * **RaceInvariant** (`RaceInv`), **LogIsDense**, **LossNeedsACrowd** of the replay log.
    The strengthening is `TriesTaken`: each attempt an append has spent was spent on a
    place that is taken, and its next aim lies above.
  * **DashboardHonest** (`DashboardIsHonest`) and the action property **StagesStay**
    (`StagesStayEnded`), for any number of analyses, requests in flight and questions.
    `JobsInv` says of each job that nothing is asked about it before it was created,
    `RefsInv` that the refs name the channels that are open for the job shown, and
    `CalmInv` that an analysis which began when nothing was in flight is the only
    one anything is open for.  Without `calm` the property fails, as
    said under the disagreements.
  * **BoundsHold** (`BoundsAreKept`), by five invariants.  `WakeInv`: the attempt that
    is running follows the entries of the schedule that were used up.  `WarmInv`: a
    task runs only within a flight and while it is not warm, and is warm exactly when
    it has run to success.  `PoolInv`: the counter is the cardinality of what runs, no
    slot is free while a task waits (`SlotsInv`), and work outlives its task only by
    its timeout (`WorkInv`).  `WorkerInv`: the gauge counts the jobs at work, every
    directory is either its job's own or an orphan that is accounted for (`DirsInv`),
    and who says that it is ready has stores exactly if it has an embedding client
    (`ProbesInv`).  `RateInv`: in Redis the counter of a bucket lies between the
    requests that it let pass and those that reached it, and a key without expiry has
    a request at its `EXPIRE` or one that failed there (`RedisInv`); in memory the
    counter is the cardinality of what came within the current window, and every
    earlier window ended before this one began (`MemoryInv`).  Buckets are integer
    quotients: that two times share a window exactly when they share a quotient is a
    lemma.

Attempting the proofs corrected the models.  An analysis without graph and without
index satisfied two arms of a `CASE` in `Ask`'s `Begin`, of which TLA+ takes an
unspecified one; they are disjuncts with disjoint guards now, in the order of the
route's tests.  The bound of `FanOut`'s ceiling left out that the supervisor too makes
a call.  Models in which nothing is charged for a call that throws, no append is lost,
a subscription hears at once, and the end of a run writes no slice proved stronger
properties than the code has; each of these steps is in the models now, with the
exceptions that it makes stated in the properties.  And what was written as a fold or
a filter of a sequence, which no prover here can reason about, is written as what it
computes: `SseStream` writes snapshot and queue one by one, which also lets the worker
act meanwhile, as it can; `RagIndex` sends requests by a `Size`, `FanOut` puts its
jobs in order by rank and posts their reports by place, `ResultStore`, `RepoMemory`
and `Trace` add up by counting units and keep order by ranks.  `MCServices` and
`MCStores` have their bounds as constants with an assumption, so that what is proved
is not of one instance.

Only model-checked:

* liveness, which is out of the prover's reach: `RunReturns`, `StreamEnds`,
  `EndsForGood`, `ServicesEnd`, `RagEnds`, and within properties whose other parts are
  proved `ClaimsReturn` (of `ClaimsAreHonoured`), the ends of `AsksEnd`, `FanOutWindsUp`
  and `DashboardSettles`;
* the questions of `algorithms`, `DetectionIsExact` and `DetectionSettles` among them:
  they compute by recursion and folds over data, of which nothing can be proved by
  induction here.

Every other property of a passing run is a theorem.

## What is left out, and the plan

Left out of the modelled components: text, paths, wording, logs; statistics of the
speculator; what the UI renders.  Not modelled at all:

* grammars, the generic parser and the parser registry: the syntax tree is taken
  as given; reading, counting and walking files beyond what `LocalTools` and
  `CodeGraph` say; the README's text in Orient;
* HTTP and the SDKs of providers, Express' wiring and `health`, the OpenTelemetry
  replay (nothing calls it), command lines and corpora of the evaluation;
* a stream of a process without Redis, which hears nothing live, and one without an
  event log; loss of what is published after the listener has connected;
* `src/legacy` and `src/card`, which the system does not run, and React components,
  which are functions of the state that `Dashboard` and `RunReport` model.

`MCStores` and `MCServices` check several small modules in one run, one to a
behaviour; that loses nothing, since they do not share state in the code.

What would come next: `JobRecords` composed with `AnalysisJob`, so that the reads of a
result meet the redeliveries of its job; and two browsers on one job.
