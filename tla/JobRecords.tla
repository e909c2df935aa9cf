------------------------------ MODULE JobRecords ------------------------------
(***************************************************************************)
(* A job's record as the API keeps and reads it: in Mongo, where the       *)
(* worker writes its progress, or in a map of the process while Mongo is   *)
(* not connected (apps/api/src/services/analysisJobService.ts); and what   *)
(* GET /api/result/:id makes of it, in three reads one after the other     *)
(* (routes/results.ts).  The worker has a connection of its own, and is    *)
(* module AnalysisJob's; here it may take a job twice and end it in any    *)
(* way: a partial run, in which a stage failed, is a completed job.        *)
(***************************************************************************)
EXTENDS Naturals, FiniteSets

CONSTANTS
  Jobs,       \* calls of POST /api/analyze
  Requests,   \* requests for the result or the progress of a job
  Links,      \* how often the API's connection to Mongo may change
  Deliveries  \* how often a job is delivered to a worker

VARIABLES
  linked,   \* isMongoConnected
  links,    \* how often that changed
  docs,     \* the collection of jobs
  held,     \* inMemoryJobs
  post,     \* what each POST has done: "new", "created", "queued", "refused", "lost"
  runs,     \* deliveries of each job: how many were taken, and which are at work
  request,  \* each request: its step, what it read first, what it is answered
  \* The rest only observes.
  began     \* what the record of its job was when a request began

recordVars == <<linked, links, docs, held, post, runs, request, began>>

NoRecord == [status |-> "none", error |-> FALSE, analysis |-> FALSE]
Fresh == [status |-> "queued", error |-> FALSE, analysis |-> FALSE]
FromCache == [status |-> "completed", error |-> FALSE, analysis |-> TRUE]
Endings == {"completed", "partial", "failed"}

\* What a read finds, where the process looks at that moment.
Found(j) == IF linked THEN docs[j] ELSE held[j]

Init ==
  /\ linked = TRUE /\ links = 0
  /\ docs = [j \in Jobs |-> NoRecord] /\ held = docs
  /\ post = [j \in Jobs |-> "new"]
  /\ runs = [j \in Jobs |-> [taken |-> 0, open |-> {}, erred |-> FALSE]]
  /\ request = [r \in Requests |-> [at |-> "idle", kind |-> "none", job |-> CHOOSE j \in Jobs : TRUE,
                                    record |-> NoRecord, notice |-> FALSE]]
  /\ began = [r \in Requests |-> NoRecord]

Relink ==
  /\ links < Links
  /\ links' = links + 1 /\ linked' = ~linked
  /\ UNCHANGED <<docs, held, post, runs, request, began>>

\* The map does not outlive the process, nor do its requests; it only starts
\* when it has its connection.
Restart ==
  /\ links < Links /\ links' = links + 1 /\ linked' = TRUE
  /\ held' = [j \in Jobs |-> NoRecord]
  /\ request' = [r \in Requests |-> IF request[r].at \in {"idle", "answered"} THEN request[r]
                                    ELSE [request[r] EXCEPT !.at = "answered", !.kind = "cut"]]
  /\ post' = [j \in Jobs |-> IF post[j] \in {"hit", "created"} THEN "cut" ELSE post[j]]
  /\ UNCHANGED <<docs, runs, began>>

Put(j, record) ==
  IF linked THEN docs' = [docs EXCEPT ![j] = record] /\ UNCHANGED held
  ELSE held' = [held EXCEPT ![j] = record] /\ UNCHANGED docs

\* POST /api/analyze: only Mongo has an analysis that answers at once.
CacheHit(j) ==
  /\ post[j] = "new" /\ linked
  /\ post' = [post EXCEPT ![j] = "hit"]
  /\ UNCHANGED <<linked, links, docs, held, runs, request, began>>

createAnalysisJob(j) ==
  /\ \/ post[j] = "new" /\ Put(j, Fresh) /\ post' = [post EXCEPT ![j] = "created"]
     \/ post[j] = "hit" /\ Put(j, FromCache) /\ post' = [post EXCEPT ![j] = "served"]
  /\ UNCHANGED <<linked, links, runs, request, began>>

Enqueued(j) ==
  /\ post[j] = "created"
  /\ post' = [post EXCEPT ![j] = "queued"]
  /\ UNCHANGED <<linked, links, docs, held, runs, request, began>>

\* updateAnalysisJob marks the job that could not be queued, if it is found.
Refused(j) ==
  /\ post[j] = "created"
  /\ IF Found(j) = NoRecord
     THEN post' = [post EXCEPT ![j] = "lost"] /\ UNCHANGED <<docs, held>>
     ELSE Put(j, [Found(j) EXCEPT !.status = "failed", !.error = TRUE])
          /\ post' = [post EXCEPT ![j] = "refused"]
  /\ UNCHANGED <<linked, links, runs, request, began>>

\* The worker: a record it does not find is a delivery that fails.  A job that
\* was refused may land in the queue yet.
WorkerTakes(j) ==
  /\ post[j] \in {"queued", "refused", "lost"} /\ runs[j].taken < Deliveries
  /\ LET n == runs[j].taken + 1
     IN IF docs[j] = NoRecord
        THEN runs' = [runs EXCEPT ![j].taken = Deliveries] /\ UNCHANGED docs
        ELSE /\ runs' = [runs EXCEPT ![j].taken = n, ![j].open = @ \cup {n}]
             /\ docs' = [docs EXCEPT ![j].status = "cloning"]
  /\ UNCHANGED <<linked, links, held, post, request, began>>

\* A patch sets what it names, and leaves the rest of the record: a run, or the
\* kept result it was answered by, names the error of a stage that failed in it,
\* though it was completed.
WorkerEnds(j, n, ending) ==
  /\ n \in runs[j].open
  /\ docs' = [docs EXCEPT ![j] = [status |-> IF ending = "failed" THEN "failed" ELSE "completed",
                                  error |-> @.error \/ ending # "completed",
                                  analysis |-> @.analysis \/ ending # "failed"]]
  /\ runs' = [runs EXCEPT ![j].open = @ \ {n}, ![j].erred = @ \/ ending # "completed"]
  /\ UNCHANGED <<linked, links, held, post, request, began>>

----------------------------------------------------------------------------

Answer(r, kind, record) ==
  request' = [request EXCEPT ![r].at = "answered", ![r].kind = kind, ![r].record = record, ![r].notice = ~linked]

Reads(r, j, kind, next) ==
  /\ request[r].at = "idle" /\ post[j] \notin {"new", "hit"}
  /\ request' = [request EXCEPT ![r] =
       [at |-> IF Found(j) = NoRecord THEN "answered" ELSE next,
        kind |-> IF Found(j) = NoRecord THEN "missing" ELSE kind,
        job |-> j, record |-> Found(j), notice |-> ~linked]]
  /\ began' = [began EXCEPT ![r] = Found(j)]
  /\ UNCHANGED <<linked, links, docs, held, post, runs>>

\* GET /api/job/:id: one read; when Mongo has answered it, whether the database
\* is down is asked again.
getAnalysisJobProgress(r, j) == Reads(r, j, "progress", IF linked THEN "notice" ELSE "answered")

withPersistenceDegradation(r) ==
  /\ request[r].at = "notice"
  /\ Answer(r, "progress", request[r].record)
  /\ UNCHANGED <<linked, links, docs, held, post, runs, began>>

\* GET /api/result/:id reads the job,
getAnalysisJob(r, j) == Reads(r, j, "result", "progress")

\* then its progress, and answers by the one read or the other,
resultAnswered(r) ==
  /\ request[r].at = "progress"
  /\ LET job == request[r].record
         progress == Found(request[r].job)
     IN IF progress = NoRecord THEN Answer(r, "missing", progress)
        ELSE IF progress.status = "failed" THEN Answer(r, "failed", progress)
        ELSE IF progress.status # "completed" THEN Answer(r, "pending", progress)
        ELSE IF ~job.analysis THEN Answer(r, "inconsistent", progress)
        ELSE request' = [request EXCEPT ![r].at = "analysis"]
  /\ UNCHANGED <<linked, links, docs, held, post, runs, began>>

\* and the analysis, which no process holds in memory.
getAnalysisById(r) ==
  /\ request[r].at = "analysis"
  /\ Answer(r, IF linked THEN "result" ELSE "missing", request[r].record)
  /\ UNCHANGED <<linked, links, docs, held, post, runs, began>>

Next ==
  \/ Relink \/ Restart
  \/ \E j \in Jobs : \/ CacheHit(j) \/ createAnalysisJob(j) \/ Enqueued(j) \/ Refused(j) \/ WorkerTakes(j)
                     \/ \E n \in 1..Deliveries, ending \in Endings : WorkerEnds(j, n, ending)
  \/ \E r \in Requests : \/ withPersistenceDegradation(r) \/ resultAnswered(r) \/ getAnalysisById(r)
                         \/ \E j \in Jobs : getAnalysisJobProgress(r, j) \/ getAnalysisJob(r, j)

----------------------------------------------------------------------------

Told == {r \in Requests : request[r].at = "answered"}

\* What is shown without a word about the database is in the database, where
\* the worker will find it; without an outage every job is found
\* (persistenceHealth.ts:4-17).
UnkeptIsTold ==
  \A r \in Told :
    /\ request[r].kind = "progress" /\ ~request[r].notice => docs[request[r].job] # NoRecord
    /\ request[r].kind = "missing" => links > 0

\* A completed job is answered with its analysis; it is called inconsistent only
\* when it ended between the two reads of one request (results.ts:17-38).
TornReadsOnly ==
  \A r \in Told :
    /\ request[r].kind = "result" => began[r].analysis
    /\ request[r].kind = "inconsistent" => began[r].status # "completed"
    /\ request[r].kind = "failed" => request[r].record.error

\* A record that says completed has an analysis, and speaks of an error only if
\* a run of it failed, whole or in a stage, or it could not be queued at first:
\* nothing clears the error of a job that is tried again, even by a run in which
\* every stage is sound (pipelineJobProcessor.ts:464, analysisJobService.ts:176).
OldErrorsOnly ==
  \A j \in Jobs : \A record \in {docs[j], held[j]} :
    record.status = "completed" =>
      record.analysis /\ (record.error => runs[j].erred \/ post[j] = "refused")

RecordsAreHonest == UnkeptIsTold /\ TornReadsOnly /\ OldErrorsOnly
=============================================================================
