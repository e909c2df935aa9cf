----------------------------- MODULE AnalysisJob -----------------------------
(***************************************************************************)
(* Jobs that ask for one commit of one repository, from POST /api/analyze  *)
(* (apps/api/src/routes/analyze.ts) over the BullMQ queue to the worker's  *)
(* runAnalysisJob (apps/worker/src/processors/pipelineJobProcessor.ts).    *)
(* The API and the workers share the job records and the stored analysis.  *)
(*                                                                         *)
(* The pipeline (module Pipeline) is seen from outside here: it asks for   *)
(* the stored analysis, then ends completed, partial or failed, or reports *)
(* a full hit.                                                             *)
(***************************************************************************)
EXTENDS Naturals, Sequences, SequencesExt, TLC

CONSTANTS
  Jobs,
  Deliveries,   \* how often the queue may hand out a job: a stalled one again
  Overlap,      \* whether a stalled run may still be alive when it does
  Timeouts,     \* whether queue.add may be slower than its 1500 ms
  Faults        \* steps that may throw

ASSUME JobsAssumption ==
  /\ Deliveries \in Nat \ {0}
  /\ Overlap \in BOOLEAN /\ Timeouts \in BOOLEAN
  /\ Faults \subseteq {"add", "update", "lookup", "save", "append", "publish"}

Run == 1..Deliveries
RunStatus == {"none", "completed", "partial", "failed"}

VARIABLES
  job,        \* the job records in Mongo
  store,      \* status of the run whose result is stored, "none" if there is none
  api,        \* the request of each job
  queue,      \* the BullMQ job
  delivered,  \* how often the queue has handed it out
  exec,       \* the calls of runAnalysisJob
  dones       \* the terminal messages of each job that went to the replay log,
              \* with "none" in the place of one that the log lost

vars == <<job, store, api, queue, delivered, exec, dones>>
back == <<store, exec, dones>>
front == <<api, queue, delivered>>

JobRecord == [status : {"absent", "queued", "cloning", "completed", "failed"},
              run : RunStatus, analysis : BOOLEAN]
ExecPc == {"idle", "start", "lookup", "run", "save", "record", "log", "publish",
           "catch", "catchLog", "catchPublish", "gone"}
Exec == [pc : ExecPc, base : RunStatus, outcome : RunStatus, cached : BOOLEAN]

TypeOK ==
  /\ job \in [Jobs -> JobRecord]
  /\ store \in RunStatus
  /\ api \in [Jobs -> {"idle", "adding", "accepted", "refusing", "refused", "cached"}]
  /\ queue \in [Jobs -> {"none", "adding", "waiting", "active", "ended"}]
  /\ delivered \in [Jobs -> 0..Deliveries]
  /\ exec \in [Jobs -> [Run -> Exec]]
  /\ dones \in [Jobs -> Seq(RunStatus)]

Init ==
  /\ job = [j \in Jobs |-> [status |-> "absent", run |-> "none", analysis |-> FALSE]]
  /\ store = "none"
  /\ api = [j \in Jobs |-> "idle"]
  /\ queue = [j \in Jobs |-> "none"]
  /\ delivered = [j \in Jobs |-> 0]
  /\ exec = [j \in Jobs |-> [r \in Run |->
       [pc |-> "idle", base |-> "none", outcome |-> "none", cached |-> FALSE]]]
  /\ dones = [j \in Jobs |-> <<>>]

----------------------------------------------------------------------------
(* POST /api/analyze.                                                       *)

\* The caller names the commit and an analysis of it is stored.
AnswerCached(j) ==
  /\ api[j] = "idle" /\ store # "none"
  /\ api' = [api EXCEPT ![j] = "cached"]
  /\ job' = [job EXCEPT ![j].status = "completed", ![j].analysis = TRUE]
  /\ UNCHANGED <<queue, delivered, back>>

\* The job record is created and queue.add is called.
CreateJob(j) ==
  /\ api[j] = "idle"
  /\ api' = [api EXCEPT ![j] = "adding"]
  /\ queue' = [queue EXCEPT ![j] = "adding"]
  /\ job' = [job EXCEPT ![j].status = "queued"]
  /\ UNCHANGED <<delivered, back>>

\* Redis has the job, whether or not the API still waits for it.
AddLands(j) ==
  /\ queue[j] = "adding"
  /\ queue' = [queue EXCEPT ![j] = "waiting"]
  /\ UNCHANGED <<job, api, delivered, back>>

AddFails(j) ==
  /\ "add" \in Faults
  /\ api[j] = "adding" /\ queue[j] = "adding"
  /\ api' = [api EXCEPT ![j] = "refusing"]
  /\ queue' = [queue EXCEPT ![j] = "none"]
  /\ UNCHANGED <<job, delivered, back>>

\* The timer wins the race against queue.add, which is not called off.
AddTimesOut(j) ==
  /\ Timeouts
  /\ api[j] = "adding"
  /\ api' = [api EXCEPT ![j] = "refusing"]
  /\ UNCHANGED <<job, queue, delivered, back>>

\* 202
Accept(j) ==
  /\ api[j] = "adding" /\ queue[j] # "adding"
  /\ api' = [api EXCEPT ![j] = "accepted"]
  /\ UNCHANGED <<job, queue, delivered, back>>

\* 503, or 500 when the job cannot be marked failed.
Refuse(j) ==
  /\ api[j] = "refusing"
  /\ api' = [api EXCEPT ![j] = "refused"]
  /\ \/ job' = [job EXCEPT ![j].status = "failed"]
     \/ "update" \in Faults /\ UNCHANGED job
  /\ UNCHANGED <<queue, delivered, back>>

Request(j) ==
  \/ AnswerCached(j) \/ CreateJob(j)
  \/ AddLands(j) \/ AddFails(j) \/ AddTimesOut(j)
  \/ Accept(j) \/ Refuse(j)

----------------------------------------------------------------------------
(* The queue.                                                               *)

Alive(j, r) == exec[j][r].pc \notin {"idle", "gone"}

\* A worker takes the job.
Deliver(j) ==
  /\ queue[j] = "waiting" /\ delivered[j] < Deliveries
  /\ queue' = [queue EXCEPT ![j] = "active"]
  /\ delivered' = [delivered EXCEPT ![j] = @ + 1]
  /\ exec' = [exec EXCEPT ![j][delivered[j] + 1].pc = "start"]
  /\ UNCHANGED <<job, store, api, dones>>

\* The worker is killed; with its lock expired the job is queued again.
Crash(j, r) ==
  /\ Alive(j, r) /\ r = delivered[j] /\ delivered[j] < Deliveries
  /\ exec' = [exec EXCEPT ![j][r].pc = "gone"]
  /\ queue' = [queue EXCEPT ![j] = "waiting"]
  /\ UNCHANGED <<job, store, api, delivered, dones>>

\* The worker only failed to renew its lock.
Stall(j, r) ==
  /\ Overlap
  /\ Alive(j, r) /\ r = delivered[j] /\ delivered[j] < Deliveries
  /\ queue[j] = "active"
  /\ queue' = [queue EXCEPT ![j] = "waiting"]
  /\ UNCHANGED <<job, store, api, delivered, exec, dones>>

----------------------------------------------------------------------------
(* runAnalysisJob.                                                          *)

Goto(j, r, pc) == exec' = [exec EXCEPT ![j][r].pc = pc]

\* runAnalysisJob returns or throws.
Leave(j, r) ==
  /\ Goto(j, r, "gone")
  /\ queue' = IF r = delivered[j] /\ queue[j] = "active"
              THEN [queue EXCEPT ![j] = "ended"] ELSE queue

\* The first updateJob is outside the try: when it throws, so does the run.
Start(j, r) ==
  /\ exec[j][r].pc = "start"
  /\ \/ /\ job' = [job EXCEPT ![j].status = "cloning"]
        /\ Goto(j, r, "lookup")
        /\ UNCHANGED queue
     \/ /\ "update" \in Faults
        /\ Leave(j, r)
        /\ UNCHANGED job
  /\ UNCHANGED <<store, api, delivered, dones>>

\* Mutant: a run that fails returns at once.
LookupFailsSilently(j, r) ==
  /\ exec[j][r].pc = "lookup"
  /\ Leave(j, r)
  /\ UNCHANGED <<job, store, api, delivered, dones>>

\* runPipeline asks for the stored analysis, or fails before it can: the
\* clone of a commit that is not known yet, or a lookup that rejects.
Lookup(j, r) ==
  /\ exec[j][r].pc = "lookup"
  /\ exec' = [exec EXCEPT ![j][r].pc = "run", ![j][r].base = store]
  /\ UNCHANGED <<job, store, front, dones>>

LookupFails(j, r) ==
  /\ exec[j][r].pc = "lookup"
  /\ \/ exec' = [exec EXCEPT ![j][r].pc = "record", ![j][r].outcome = "failed"]
     \/ "lookup" \in Faults /\ Goto(j, r, "catch")
  /\ UNCHANGED <<job, store, front, dones>>

\* A stored complete analysis is a full hit, which is not saved.
FullHit(j, r) ==
  /\ exec[j][r].pc = "run" /\ exec[j][r].base = "completed"
  /\ exec' = [exec EXCEPT ![j][r].pc = "record", ![j][r].outcome = "completed",
                          ![j][r].cached = TRUE]
  /\ UNCHANGED <<job, store, front, dones>>

\* Mutant: saves whatever the run ended with.
PipelineEndsSaving(j, r) ==
  /\ exec[j][r].pc = "run" /\ exec[j][r].base # "completed"
  /\ \E outcome \in {"completed", "partial", "failed"} :
       /\ outcome = "failed" => exec[j][r].base = "none"
       /\ exec' = [exec EXCEPT ![j][r].pc = "save", ![j][r].outcome = outcome]
  /\ UNCHANGED <<job, store, front, dones>>

\* The pipeline runs, in full or only the AI stages that are missing.
PipelineEnds(j, r) ==
  /\ exec[j][r].pc = "run" /\ exec[j][r].base # "completed"
  /\ \E outcome \in {"completed", "partial", "failed"} :
       /\ outcome = "failed" => exec[j][r].base = "none"
       /\ exec' = [exec EXCEPT
            ![j][r].pc = IF outcome = "failed" THEN "record" ELSE "save",
            ![j][r].outcome = outcome]
  /\ UNCHANGED <<job, store, front, dones>>

\* saveAnalysis: $setOnInsert, so the first result stays.  The failing
\* alternative also stands for a runPipeline that rejects while it commits its
\* speculations: both reach the catch with no result saved.
Save(j, r) ==
  /\ exec[j][r].pc = "save"
  /\ \/ /\ store' = IF store = "none" THEN exec[j][r].outcome ELSE store
        /\ Goto(j, r, "record")
     \/ /\ "save" \in Faults
        /\ Goto(j, r, "catch")
        /\ UNCHANGED store
  /\ UNCHANGED <<job, front, dones>>

\* toJobStatus, and the analysis if one was saved or found.
Record(j, r) ==
  /\ exec[j][r].pc = "record"
  /\ LET failed == exec[j][r].outcome = "failed"
     IN  \/ /\ job' = [job EXCEPT ![j] =
                 [status |-> IF failed THEN "failed" ELSE "completed",
                  run |-> exec[j][r].outcome,
                  analysis |-> @.analysis \/ ~failed]]
            /\ Goto(j, r, "log")
         \/ /\ "update" \in Faults
            /\ Goto(j, r, "catch")
            /\ UNCHANGED job
  /\ UNCHANGED <<store, front, dones>>

\* append never rejects: an error is warned about, and the message is lost.
append(j, w) ==
  \E kept \in {w} \cup IF "append" \in Faults THEN {"none"} ELSE {} :
    dones' = [dones EXCEPT ![j] = Append(@, kept)]

LogDone(j, r) ==
  /\ exec[j][r].pc = "log"
  /\ append(j, exec[j][r].outcome)
  /\ Goto(j, r, "publish")
  /\ UNCHANGED <<job, store, front>>

PublishDone(j, r) ==
  /\ exec[j][r].pc = "publish"
  /\ \/ Leave(j, r)
     \/ "publish" \in Faults /\ Goto(j, r, "catch") /\ UNCHANGED queue
  /\ UNCHANGED <<job, store, api, delivered, dones>>

\* Mutant: a failed run is announced, but not recorded.
CatchUnrecorded(j, r) ==
  /\ exec[j][r].pc = "catch"
  /\ Goto(j, r, "catchLog")
  /\ UNCHANGED <<job, store, front, dones>>

\* The catch block marks the job failed, whatever it was.
Catch(j, r) ==
  /\ exec[j][r].pc = "catch"
  /\ \/ /\ job' = [job EXCEPT ![j].status = "failed", ![j].run = "failed"]
        /\ Goto(j, r, "catchLog")
        /\ UNCHANGED queue
     \/ /\ "update" \in Faults
        /\ Leave(j, r)
        /\ UNCHANGED job
  /\ UNCHANGED <<store, api, delivered, dones>>

CatchLog(j, r) ==
  /\ exec[j][r].pc = "catchLog"
  /\ append(j, "failed")
  /\ Goto(j, r, "catchPublish")
  /\ UNCHANGED <<job, store, front>>

\* Published or not, the run ends.
CatchPublish(j, r) ==
  /\ exec[j][r].pc = "catchPublish"
  /\ Leave(j, r)
  /\ UNCHANGED <<job, store, api, delivered, dones>>

RunAnalysisJob(j, r) ==
  \/ Start(j, r) \/ Lookup(j, r) \/ LookupFails(j, r)
  \/ FullHit(j, r) \/ PipelineEnds(j, r)
  \/ Save(j, r) \/ Record(j, r) \/ LogDone(j, r) \/ PublishDone(j, r)
  \/ Catch(j, r) \/ CatchLog(j, r) \/ CatchPublish(j, r)

Next ==
  \E j \in Jobs :
    \/ Request(j)
    \/ Deliver(j)
    \/ \E r \in Run : Crash(j, r) \/ Stall(j, r) \/ RunAnalysisJob(j, r)

Spec == Init /\ [][Next]_vars

\* A worker listens, and a run that is not killed goes on.
FairSpec ==
  /\ Spec
  /\ \A j \in Jobs :
       /\ WF_vars(Deliver(j))
       /\ \A r \in Run : WF_vars(RunAnalysisJob(j, r))

----------------------------------------------------------------------------

Ended == {"completed", "failed"}

\* "A completed job must reference a persisted analysis" (results.ts): true at
\* every moment, with several jobs and runs at work on the same analysis.
CompletedHasAnalysis ==
  \A j \in Jobs : job[j].status = "completed" => job[j].analysis /\ store # "none"

\* Incomplete data must not poison the cache: a failed run is never stored.
FailedNeverStored == store # "failed"

\* When the queue is done with a job and the log has kept what was last said of
\* it, its record says the same: the client that reads one agrees with the
\* client that reads the other.
LastWordAgrees ==
  \A j \in Jobs :
    queue[j] = "ended" /\ dones[j] # <<>> =>
      Last(dones[j]) \in {"none", job[j].run}

\* An accepted job ends, and stays ended, though its worker be killed.
EndsForGood ==
  \A j \in Jobs : api[j] = "accepted" ~> [](job[j].status \in Ended)

\* The store and the records agree: completed means stored, failed means not.
StoreIsHonest == TypeOK /\ CompletedHasAnalysis /\ FailedNeverStored

\* Jobs are interchangeable.
Symmetry == Permutations(Jobs)
=============================================================================
