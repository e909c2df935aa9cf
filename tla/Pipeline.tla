------------------------------ MODULE Pipeline ------------------------------
(***************************************************************************)
(* runPipeline (packages/analyzers/src/pipeline/orchestrator.ts): one run  *)
(* of the staged analysis pipeline, sequential or by dependency readiness  *)
(* ("layered").  A stage is its 1-based position in the array `stages`.    *)
(*                                                                         *)
(* The code is one async function on a JavaScript event loop: it runs to   *)
(* the next await without interruption, so stages end and the abort signal *)
(* fires only while it is Yielded.  What a slice holds is abstracted to    *)
(* where it came from: nowhere, a cached analysis, this run, or this run   *)
(* and a correction made after its last stage.                             *)
(***************************************************************************)
EXTENDS Naturals, Sequences, FiniteSets

CONSTANTS
  N,          \* stages.length
  Ingest,     \* position of the "ingest" stage, 0 when this run has none
  AI,         \* positions of the stages of kind "ai"
  Slice,      \* AnalysisSliceKey
  Optional,   \* slices a completed stage may leave undefined
  Owns,       \* stage.owns
  Reads,      \* STAGE_READS of the stage
  Sources,    \* stages that declare speculations
  Embedding,  \* stages with an embeddingTarget
  Evidence,   \* the slice whose verdict on the project type wins: inventory
  Corrected,  \* the slice that verdict is written into: orientation
  Lookup      \* options.cacheLookup is given

Stage == 1..N
Det == Stage \ AI
Origin == {"none", "cached", "fresh", "reconciled"}
Prior == [Slice -> Origin]              \* a snapshot of the slices
TaskState == {"idle", "running", "ok", "error"}
StageRecord == [stage : Stage, status : {"completed", "skipped", "failed"}]

ASSUME StagesAssumption ==
  /\ N \in Nat \ {0}
  /\ Ingest \in 0..N
  /\ AI \subseteq Stage /\ Ingest \notin AI
  /\ Sources \subseteq Stage /\ Embedding \subseteq AI
  /\ Lookup \in BOOLEAN

ASSUME SlicesAssumption ==
  /\ Optional \subseteq Slice
  /\ Owns \in [Stage -> SUBSET Slice]
  /\ Reads \in [Stage -> SUBSET Slice]
  /\ Evidence \in Slice /\ Corrected \in Slice

\* Every slice is written by one stage (PipelineStage.owns, "named slices").
ASSUME OwnersAssumption ==
  \A s, t \in Stage : s # t => Owns[s] \cap Owns[t] = {}

\* The declared order is a topological order of the declared reads.
ASSUME OrderAssumption ==
  /\ \A s, t \in Stage : Reads[s] \cap Owns[t] # {} => t < s
  /\ \A s \in Stage : Ingest <= s

\* The clone reads no slice (STAGE_READS.ingest).
ASSUME IngestAssumption == Ingest # 0 => Reads[Ingest] = {}

VARIABLES
  pc,           \* where runPipeline stands
  i,            \* the loop counter, as a stage position
  signal,       \* signal.aborted, set by the caller
  aborted, detFailed, aiFailed,
  covered,      \* coveredStageIds
  settled,      \* stages folded into slices
  launched,     \* keys of the launched map
  task,         \* the latest run() of each stage
  starts,       \* how many times run() was called
  view,         \* the ctx.prior that run() got
  slices, records,
  cacheChecked,
  layered,      \* options.schedule is "layered", not "sequential"
  requested,    \* input.requestedCommitSha is given
  resolved,     \* ctx.commitSha is set
  speculated,   \* stages whose speculations were asked for
  guess,        \* the prior those speculations got
  staging,      \* fate of the staging area: "open", "committed", "rolledBack"
  status        \* how the call ended

vars == <<pc, i, signal, aborted, detFailed, aiFailed, covered, settled,
          launched, task, starts, view, slices, records, cacheChecked,
          layered, requested, resolved, speculated, guess, staging, status>>

flags   == <<signal, aborted, detFailed, aiFailed>>
runs    == <<task, starts, view>>
specs   == <<speculated, guess>>
shas    == <<layered, requested, resolved>>

Blank == [k \in Slice |-> "none"]

TypeOK ==
  /\ pc \in {"start", "preLookup", "loop", "await", "postLookup", "commit", "done"}
  /\ i \in 1..(N + 1)
  /\ pc \in {"await", "postLookup"} => i \in Stage
  /\ signal \in BOOLEAN /\ aborted \in BOOLEAN
  /\ detFailed \in BOOLEAN /\ aiFailed \in BOOLEAN
  /\ covered \subseteq Stage /\ settled \subseteq Stage
  /\ launched \subseteq Stage /\ speculated \subseteq Stage
  /\ task \in [Stage -> TaskState]
  /\ starts \in [Stage -> Nat]
  /\ view \in [Stage -> Prior]
  /\ guess \in [Stage -> Prior]
  /\ slices \in Prior
  /\ records \in Seq(StageRecord)
  /\ cacheChecked \in BOOLEAN
  /\ layered \in BOOLEAN /\ requested \in BOOLEAN /\ resolved \in BOOLEAN
  /\ staging \in {"open", "committed", "rolledBack"}
  /\ status \in {"none", "cacheHit", "rejected",
                 "completed", "partial", "failed", "aborted"}

Init ==
  /\ pc = "start" /\ i = 1
  /\ signal = FALSE /\ aborted = FALSE /\ detFailed = FALSE /\ aiFailed = FALSE
  /\ covered = {} /\ settled = {} /\ launched = {} /\ speculated = {}
  /\ task = [s \in Stage |-> "idle"]
  /\ starts = [s \in Stage |-> 0]
  /\ view = [s \in Stage |-> Blank]
  /\ guess = [s \in Stage |-> Blank]
  /\ slices = Blank
  /\ records = <<>>
  /\ cacheChecked = FALSE
  /\ layered \in BOOLEAN /\ requested \in BOOLEAN /\ resolved = FALSE
  /\ staging = "open" /\ status = "none"

Yielded == pc \in {"preLookup", "await", "postLookup", "commit", "done"}

----------------------------------------------------------------------------
(* The cached analysis, as far as a run can tell documents apart: `have` is *)
(* its producedBy, `alien` the stages it indexed in another vector space.   *)

CachedDoc == [have : SUBSET Stage, alien : SUBSET Embedding]

\* aiStageReusable and coveredStageIdSet: what a run need not recompute.
Reusable(doc) == doc.have \ doc.alien

\* decideCacheAction
CacheAction(doc) ==
  IF ~(Det \subseteq doc.have) THEN "miss"
  ELSE IF AI \subseteq Reusable(doc) THEN "full-hit"
  ELSE "ai-retry"

\* seedSlicesFromResult, called when every deterministic stage is in `have`:
\* deterministic slices always, AI slices when covered.
Seeded(doc) ==
  [k \in Slice |->
     IF \E s \in Reusable(doc) : k \in Owns[s]
     THEN "cached" ELSE slices[k]]

----------------------------------------------------------------------------
(* Readiness.                                                               *)

\* Mutant: only waits for Ingest.
ReadyAfterIngest(s, folded) == Ingest # 0 /\ s # Ingest => Ingest \in folded

\* readyToLaunch: Ingest is folded in, and so is every declared read that a
\* stage of this run produces.
ReadyToLaunch(s, folded) ==
  /\ Ingest # 0 /\ s # Ingest => Ingest \in folded
  /\ \A t \in Stage \ {s} : Reads[s] \cap Owns[t] # {} => t \in folded

\* Mutants: launches covered stages; launches after an abort or a failure.
LaunchableCovered(folded, skip) ==
  {s \in Stage \ (launched \cup folded \cup {Ingest}) :
     layered /\ ~aborted /\ ~signal /\ ~detFailed /\ ReadyToLaunch(s, folded)}
LaunchableStopped(folded, skip) ==
  {s \in Stage \ (launched \cup folded \cup skip \cup {Ingest}) :
     layered /\ ReadyToLaunch(s, folded)}

\* The candidates of launchReady, when `folded` is settled and `skip` covered.
Launchable(folded, skip) ==
  {s \in Stage \ (launched \cup folded \cup skip \cup {Ingest}) :
     /\ layered
     /\ ~aborted /\ ~signal /\ ~detFailed
     /\ ReadyToLaunch(s, folded)}

\* The candidates of launchSpeculations, when `taken` is the launched map.
Speculable(folded, skip, taken) ==
  {s \in Sources \ (speculated \cup folded \cup skip \cup taken \cup {Ingest}) :
     /\ ~aborted /\ ~signal /\ ~detFailed
     /\ ReadyToLaunch(s, folded)}

\* run() is called on the stages of S with `prior` as their ctx.prior.
Run(S, prior) ==
  /\ task' = [s \in Stage |-> IF s \in S THEN "running" ELSE task[s]]
  /\ starts' = [s \in Stage |-> IF s \in S THEN starts[s] + 1 ELSE starts[s]]
  /\ view' = [s \in Stage |-> IF s \in S THEN prior ELSE view[s]]

\* speculations() is called on the stages of S.
Speculate(S, prior) ==
  /\ speculated' = speculated \cup S
  /\ guess' = [s \in Stage |-> IF s \in S THEN prior ELSE guess[s]]

Record(s, st) == Append(records, [stage |-> s, status |-> st])

Return(st) == pc' = "done" /\ status' = st

----------------------------------------------------------------------------
(* Before the loop: the cache is asked by the SHA the caller knows.         *)

Begin ==
  /\ pc = "start"
  /\ pc' = IF Lookup /\ requested THEN "preLookup" ELSE "loop"
  /\ UNCHANGED <<i, flags, covered, settled, launched, runs, slices, records,
                 cacheChecked, shas, specs, staging, status>>

PreLookupMiss ==
  /\ pc = "preLookup"
  /\ pc' = "loop"
  /\ UNCHANGED <<i, flags, covered, settled, launched, runs, slices, records,
                 cacheChecked, shas, specs, staging, status>>

PreLookupHit(doc) ==
  /\ pc = "preLookup"
  /\ CacheAction(doc) = "full-hit"
  /\ staging' = "rolledBack"
  /\ Return("cacheHit")
  /\ UNCHANGED <<i, flags, covered, settled, launched, runs, slices, records,
                 cacheChecked, shas, specs>>

PreLookupRetry(doc) ==
  /\ pc = "preLookup"
  /\ CacheAction(doc) = "ai-retry"
  /\ covered' = Reusable(doc)
  /\ slices' = Seeded(doc)
  /\ cacheChecked' = TRUE
  /\ resolved' = TRUE
  /\ pc' = "loop"
  /\ UNCHANGED <<i, flags, settled, launched, runs, records, layered, requested, specs,
                 staging, status>>

\* findCached rejects outside any try: runPipeline rejects.
PreLookupThrows ==
  /\ pc = "preLookup"
  /\ Return("rejected")
  /\ UNCHANGED <<i, flags, covered, settled, launched, runs, slices, records,
                 cacheChecked, shas, specs, staging>>

----------------------------------------------------------------------------
(* The top of the loop body.                                                *)

\* A stage the cached analysis covers is recorded completed, not run.
Reuse ==
  /\ pc = "loop" /\ i <= N /\ i \in covered
  /\ settled' = settled \cup {i}
  /\ records' = Record(i, "completed")
  /\ i' = i + 1
  /\ UNCHANGED <<pc, flags, covered, launched, runs, slices, cacheChecked,
                 shas, specs, staging, status>>

\* After an abort or a failed required stage, what is left is skipped.
Skip ==
  /\ pc = "loop" /\ i <= N /\ i \notin covered
  /\ aborted \/ signal \/ detFailed
  /\ aborted' = (aborted \/ signal)
  /\ records' = Record(i, "skipped")
  /\ i' = i + 1
  /\ UNCHANGED <<pc, signal, detFailed, aiFailed, covered, settled, launched,
                 runs, slices, cacheChecked, shas, specs, staging, status>>

\* Mutant: awaits a stage that launchReady did not launch.
EnterWaiting ==
  /\ pc = "loop" /\ i <= N /\ i \notin covered
  /\ ~aborted /\ ~signal /\ ~detFailed
  /\ LET ready == Launchable(settled, covered)
         taken == launched \cup ready
     IN  /\ Run(ready, slices)
         /\ Speculate(Speculable(settled, covered, taken), slices)
         /\ launched' = taken \ {i}
  /\ pc' = "await"
  /\ UNCHANGED <<i, flags, covered, settled, slices, records, cacheChecked,
                 shas, staging, status>>

\* launchReady, launchSpeculations, then await this stage: the launched run if
\* there is one, a run of its own otherwise.
Enter ==
  /\ pc = "loop" /\ i <= N /\ i \notin covered
  /\ ~aborted /\ ~signal /\ ~detFailed
  /\ LET ready == Launchable(settled, covered)
         taken == launched \cup ready
     IN  /\ Run(ready \cup ({i} \ taken), slices)
         /\ Speculate(Speculable(settled, covered, taken), slices)
         /\ launched' = taken \ {i}
  /\ pc' = "await"
  /\ UNCHANGED <<i, flags, covered, settled, slices, records, cacheChecked,
                 shas, staging, status>>

----------------------------------------------------------------------------
(* The awaited stage has ended.                                             *)

\* Mutant: launches with the snapshot taken before the slice was assigned.
AdvanceStale(folded, skip, prior) ==
  LET ready == Launchable(folded, skip)
      taken == launched \cup ready
  IN  /\ Run(ready, slices)
      /\ Speculate(Speculable(folded, skip, taken), prior)
      /\ launched' = taken
      /\ i' = i + 1
      /\ pc' = "loop"

\* The end of the try block: launch what the new slice made ready, move on.
Advance(folded, skip, prior) ==
  LET ready == Launchable(folded, skip)
      taken == launched \cup ready
  IN  /\ Run(ready, prior)
      /\ Speculate(Speculable(folded, skip, taken), prior)
      /\ launched' = taken
      /\ i' = i + 1
      /\ pc' = "loop"

StageCompleted ==
  /\ pc = "await" /\ task[i] = "ok"
  /\ \E made \in SUBSET Owns[i] :
       /\ Owns[i] \ Optional \subseteq made
       /\ slices' = [k \in Slice |-> IF k \in made THEN "fresh" ELSE slices[k]]
  /\ settled' = settled \cup {i}
  /\ records' = Record(i, "completed")
  /\ IF ~cacheChecked /\ Lookup /\ resolved
     THEN /\ cacheChecked' = TRUE
          /\ pc' = "postLookup"
          /\ UNCHANGED <<i, launched, runs, specs>>
     ELSE /\ Advance(settled', covered, slices')
          /\ UNCHANGED cacheChecked
  /\ UNCHANGED <<flags, covered, shas, staging, status>>

\* Mutant: a failed required stage does not stop the run.
CaughtKeepsGoing ==
  /\ records' = Record(i, "failed")
  /\ aiFailed' = TRUE
  /\ i' = i + 1
  /\ pc' = "loop"
  /\ UNCHANGED <<signal, aborted, detFailed, covered, settled, launched, runs,
                 slices, cacheChecked, shas, specs, staging, status>>

\* The catch block.
Caught ==
  /\ records' = Record(i, "failed")
  /\ detFailed' = (detFailed \/ i \in Det)
  /\ aiFailed' = (aiFailed \/ i \in AI)
  /\ i' = i + 1
  /\ pc' = "loop"
  /\ UNCHANGED <<signal, aborted, covered, settled, launched, runs, slices,
                 cacheChecked, shas, specs, staging, status>>

StageFailed ==
  /\ pc = "await" /\ task[i] = "error"
  /\ Caught

----------------------------------------------------------------------------
(* After Ingest: the cache is asked by the SHA the clone resolved.          *)

PostLookupMiss ==
  /\ pc = "postLookup"
  /\ Advance(settled, covered, slices)
  /\ UNCHANGED <<flags, covered, settled, slices, records, cacheChecked,
                 shas, staging, status>>

PostLookupHit(doc) ==
  /\ pc = "postLookup"
  /\ CacheAction(doc) = "full-hit"
  /\ staging' = "rolledBack"
  /\ Return("cacheHit")
  /\ UNCHANGED <<i, flags, covered, settled, launched, runs, slices, records,
                 cacheChecked, shas, specs>>

PostLookupRetry(doc) ==
  /\ pc = "postLookup"
  /\ CacheAction(doc) = "ai-retry"
  /\ covered' = Reusable(doc)
  /\ slices' = Seeded(doc)
  /\ Advance(settled, covered', slices')
  /\ UNCHANGED <<flags, settled, records, cacheChecked, shas, staging,
                 status>>

\* findCached rejects inside the stage's try: the stage that has just been
\* recorded completed goes through the catch block too.
PostLookupThrows ==
  /\ pc = "postLookup"
  /\ Caught

----------------------------------------------------------------------------
(* After the loop.                                                          *)

\* Mutant: an abort hides a failed required stage.
RunStatusAbortFirst ==
  IF aborted THEN "aborted"
  ELSE IF detFailed THEN "failed"
  ELSE IF aiFailed THEN "partial"
  ELSE "completed"

RunStatus ==
  IF detFailed THEN "failed"
  ELSE IF aborted THEN "aborted"
  ELSE IF aiFailed THEN "partial"
  ELSE "completed"

\* reconcileProjectType: hard evidence in the inventory overrides the project
\* type of the orientation this run made.  A cached orientation comes from a
\* run that has already reconciled it with the inventory cached beside it.
Reconcile ==
  \/ UNCHANGED slices
  \/ /\ slices[Evidence] # "none" /\ slices[Corrected] = "fresh"
     /\ slices' = [slices EXCEPT ![Corrected] = "reconciled"]

\* Rollback is synchronous, commit awaits the cache.
Finish ==
  /\ pc = "loop" /\ i = N + 1
  /\ Reconcile
  /\ status' = RunStatus
  /\ IF detFailed \/ aborted
     THEN staging' = "rolledBack" /\ pc' = "done"
     ELSE staging' = staging /\ pc' = "commit"
  /\ UNCHANGED <<i, flags, covered, settled, launched, runs, records,
                 cacheChecked, shas, specs>>

Commit ==
  /\ pc = "commit"
  /\ staging' = "committed"
  /\ pc' = "done"
  /\ UNCHANGED <<i, flags, covered, settled, launched, runs, slices, records,
                 cacheChecked, shas, specs, status>>

----------------------------------------------------------------------------
(* The stages and the caller.                                               *)

\* Ingest resolves ctx.commitSha; it may still throw afterwards (size cap).
StageEnds(s, outcome) ==
  /\ Yielded
  /\ task[s] = "running"
  /\ task' = [task EXCEPT ![s] = outcome]
  /\ resolved' \in IF s # Ingest THEN {resolved}
                   ELSE IF outcome = "ok" THEN {TRUE} ELSE {resolved, TRUE}
  /\ UNCHANGED <<pc, i, flags, covered, settled, launched, starts, view,
                 slices, records, cacheChecked, layered, requested, specs, staging,
                 status>>

Abort ==
  /\ Yielded /\ pc # "done"
  /\ ~signal
  /\ signal' = TRUE
  /\ UNCHANGED <<pc, i, aborted, detFailed, aiFailed, covered, settled,
                 launched, runs, slices, records, cacheChecked, shas,
                 specs, staging, status>>

Orchestrate ==
  \/ Begin \/ PreLookupMiss \/ PreLookupThrows
  \/ Reuse \/ Skip \/ Enter
  \/ StageCompleted \/ StageFailed
  \/ PostLookupMiss \/ PostLookupThrows
  \/ \E doc \in CachedDoc :
       PreLookupHit(doc) \/ PreLookupRetry(doc) \/ PostLookupHit(doc) \/ PostLookupRetry(doc)
  \/ Finish \/ Commit

Next ==
  \/ Orchestrate
  \/ \E s \in Stage, outcome \in {"ok", "error"} : StageEnds(s, outcome)
  \/ Abort

Spec == Init /\ [][Next]_vars

\* The event loop resumes runPipeline once what it awaits has settled, and
\* every run() settles: Git has its timer, a provider's call the limits of the
\* fetch it is made with, and no parse hangs the thread (module ParsePool).
FairSpec ==
  /\ Spec
  /\ WF_vars(Orchestrate)
  /\ \A s \in Stage : WF_vars(\E outcome \in {"ok", "error"} : StageEnds(s, outcome))

----------------------------------------------------------------------------
(* What a run promises.                                                     *)

Recorded(st) == {s \in Stage : \E n \in DOMAIN records :
                   records[n] = [stage |-> s, status |-> st]}

Produced(t) == \E s \in Stage : t \in Owns[s]

\* Stages whose slice this run computed and folded in.
Computed == settled \ covered

\* What the stages left in each slice, before the run corrects one of them.
Folded == [k \in Slice |-> IF slices[k] = "reconciled" THEN "fresh" ELSE slices[k]]

\* Only the end of the run rewrites a slice, and only the orientation, when
\* there is an inventory to correct it by.
OnlyTheEndCorrects ==
  \A k \in Slice : slices[k] = "reconciled" =>
    k = Corrected /\ slices[Evidence] # "none" /\ pc \in {"commit", "done"}

\* Determinism of scheduling (orchestrator.ts, "a stage sees identical inputs
\* regardless of WHEN it launched"): the value of every declared read that a
\* folded stage was given is the one its producer left there for good, and what
\* was speculated on its behalf was given the same.  The run ends with another
\* value in one slice at most, the orientation it corrects once no stage is
\* left to read it.
InputsAreFinal ==
  /\ \A s \in Computed : \A k \in Reads[s] :
       Produced(k) => /\ view[s][k] = Folded[k]
                      /\ s \in speculated => guess[s][k] = Folded[k]
  /\ OnlyTheEndCorrects

\* The error contract (shared-types, PipelineRunSummary.status), read off the
\* records: what each status says about every stage.
StatusIsHonest ==
  /\ status = "completed" => Recorded("completed") = Stage
  /\ status = "partial" =>
       /\ Det \subseteq Recorded("completed")
       /\ Recorded("failed") # {} /\ Recorded("failed") \subseteq AI
  /\ status = "failed" => Recorded("failed") \cap Det # {}
  /\ status = "aborted" =>
       /\ Recorded("skipped") # {} /\ Recorded("failed") \cap Det = {}

\* producedBy is what a later run trusts: a stage listed there has left its
\* slices in the result, and an AI stage that failed has left none, not even
\* the one of the cached analysis it was meant to replace.
ProducedByIsHonest ==
  status \in {"completed", "partial"} =>
    /\ \A s \in Recorded("completed") : \A k \in Owns[s] \ Optional : slices[k] # "none"
    /\ \A s \in Recorded("failed") : \A k \in Owns[s] : slices[k] = "none"

\* A reused analysis spares the work it covers: only Ingest may have run
\* before the decision, and a full hit runs nothing else.
CacheSparesWork ==
  /\ \A s \in covered : starts[s] > 0 => s = Ingest
  /\ status = "cacheHit" => \A s \in Stage : starts[s] > 0 => s = Ingest

\* Staged speculations are promoted only by a run whose required stages all
\* completed; every other ending leaves the shared cache alone.
OnlySoundRunsCommit ==
  staging = "committed" => /\ status \in {"completed", "partial"}
                           /\ Det \subseteq Recorded("completed")

\* Once the caller aborted or a required stage failed, no stage is started.
NothingStartsAfterStop == [][signal \/ detFailed => starts' = starts]_vars

\* A stage is run at most once ("launch every not-yet-launched stage").
StartedOnce == \A s \in Stage : starts[s] <= 1

\* In the default schedule nothing runs behind the loop's back: what runs is
\* what the loop awaits, so a stage reported as skipped has not run, and when
\* the run has returned its caller may delete the clone.
SequentialRunsAlone ==
  ~layered => /\ \A s \in Stage : task[s] = "running" => pc = "await" /\ s = i
              /\ \A s \in Recorded("skipped") : starts[s] = 0
              /\ \A s \in Stage : starts[s] <= 1

\* The run returns, whatever fails, is cached or is aborted.
RunReturns == <>(pc = "done")

----------------------------------------------------------------------------
(* Why inputs are final: the inductive invariant of the proofs.             *)

\* The runs the loop may still consume.
Pending == launched \cup (IF pc = "await" THEN {i} ELSE {})

\* No stage can change any more what `prior` says of the declared reads of s:
\* their producers are folded in, or the loop has passed them.
Frozen(s, prior) ==
  \A t \in Stage : \A k \in Reads[s] \cap Owns[t] :
    (t \in settled \/ t < i) /\ prior[k] = Folded[k]

\* The cache is consulted before anything but Ingest has run: no stage is
\* launched, speculated for or covered while its answer is awaited.
ControlInv ==
  /\ settled \subseteq 1..i
  /\ i \in settled => pc \in {"postLookup", "done"}
  /\ pc \in {"start", "preLookup"} =>
       i = 1 /\ settled = {} /\ covered = {} /\ ~cacheChecked /\ ~resolved
  /\ pc = "await" => i \notin covered /\ ~detFailed
  /\ pc = "postLookup" => /\ i = Ingest /\ settled = {Ingest} /\ covered = {}
                          /\ launched = {} /\ speculated = {} /\ cacheChecked
  /\ ~cacheChecked => covered = {}
  /\ settled = {} /\ (Ingest # 0 \/ pc \in {"start", "preLookup"}) =>
       launched = {} /\ speculated = {}
  /\ Lookup /\ resolved /\ ~cacheChecked => detFailed \/ (pc = "await" /\ i = Ingest)
  /\ Ingest # 0 /\ task[Ingest] = "running" => pc = "await" /\ i = Ingest

\* Every input handed out is frozen, and corrected by nothing but the end.
FrozenInv ==
  /\ OnlyTheEndCorrects
  /\ \A s \in Pending \cup Computed : Frozen(s, view[s])
  /\ \A s \in speculated : Frozen(s, guess[s])

\* Control and inputs together are inductive.
ScheduleInv == ControlInv /\ FrozenInv

\* Why the end is honest: each stage behind the loop has its record, and the
\* flags are what the records say.
RecordsInv ==
  /\ Recorded("completed") = settled
  /\ Recorded("skipped") \cup Recorded("failed") \subseteq 1..(i - 1)
  /\ 1..(i - 1) \subseteq settled \cup Recorded("skipped") \cup Recorded("failed")
  /\ Recorded("failed") \cap covered = {}
  /\ Recorded("failed") \cap settled # {} => detFailed
  /\ detFailed <=> Recorded("failed") \cap Det # {}
  /\ aiFailed <=> Recorded("failed") \cap AI # {}
  /\ aborted => Recorded("skipped") # {}
  /\ Recorded("skipped") # {} => aborted \/ detFailed
  /\ pc \in {"await", "postLookup"} => ~aborted /\ ~detFailed
  /\ pc \notin {"commit", "done"} => status = "none"
  /\ status \in {"completed", "partial", "failed", "aborted"} =>
       i = N + 1 /\ status = RunStatus

\* A slice is there exactly when a stage that owns it was folded in or taken
\* over, but for the optional ones.
OriginsInv ==
  /\ \A s \in settled \cup covered : \A k \in Owns[s] \ Optional : slices[k] # "none"
  /\ \A k \in Slice : (\A s \in settled \cup covered : k \notin Owns[s]) => slices[k] = "none"
  /\ \A s \in Stage : \A k \in Slice : ~Produced(k) => view[s][k] = "none"

HonestInv == RecordsInv /\ OriginsInv

\* Why work is warranted: nothing but Ingest has run before the cache has
\* spoken, and in the default schedule only the loop starts stages.
WorkInv ==
  /\ pc \in {"start", "preLookup"} => \A s \in Stage : starts[s] = 0
  /\ pc = "postLookup" \/ (Ingest # 0 /\ settled = {}) =>
       \A s \in Stage \ {Ingest} : starts[s] = 0
  /\ CacheSparesWork
  /\ staging = "committed" \/ pc = "commit" => status \in {"completed", "partial"}
  /\ ~layered =>
       /\ launched = {}
       /\ \A s \in Stage : starts[s] > 0 =>
            s < i \/ (s = i /\ pc \in {"await", "postLookup", "done"})
       /\ SequentialRunsAlone

\* What a caller may rely on when the run returns: the one status says what the
\* records say, and producedBy vouches for nothing that is not there.
RunsAreHonest == TypeOK /\ StatusIsHonest /\ ProducedByIsHonest

\* What runs, runs for a reason: not what the cache covers, not ahead of its
\* turn in the default schedule, and no speculation outlives a failed run.
WorkIsWarranted == CacheSparesWork /\ SequentialRunsAlone /\ OnlySoundRunsCommit

----------------------------------------------------------------------------
(* runPipeline, launching stages by readiness and running several at once,  *)
(* implements the sequential contract.  A run of a stage counts when the    *)
(* loop consumes it, and it must have read what it would have read had it   *)
(* started only then.                                                       *)

\* A stage that completed has been dealt with, even while the loop waits for
\* the cache before it moves on.
NextStage == IF i \in settled THEN i + 1 ELSE i

\* What the folded stages read, of what they declared to read.
Seen == [s \in Stage |-> [k \in Reads[s] |->
           IF s \in Computed THEN view[s][k] ELSE "unread"]]

Contract == INSTANCE RunContract WITH next <- NextStage, adopted <- covered,
                                      seen <- Seen

\* The concurrent orchestrator implements the sequential contract
\* (orchestrator.ts, "the result is byte-identical to the sequential run").
ImplementsContract == Contract!Spec
=============================================================================
