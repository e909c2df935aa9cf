---------------------------- MODULE WorkerProcess ----------------------------
(***************************************************************************)
(* One instance of the worker (apps/worker/src/index.ts), in a process of  *)
(* its own or embedded in the API's: how it boots, takes jobs, clones      *)
(* their repositories with Git (services/publicRepoCloneService.ts),       *)
(* answers its probes (health/healthServer.ts) and stops.  BullMQ, Git and *)
(* the platform that restarts the process are seen from outside.           *)
(***************************************************************************)
EXTENDS Naturals, FiniteSets

CONSTANTS
  Jobs,
  Remotes,    \* of each job: the branch asked for, and those of its remote
  Asked,      \* values of WORKER_CONCURRENCY: a number, or 0 for what is none
  Kills,      \* how often the process is killed
  MaxStalled  \* how often BullMQ hands a stalled job out again

VARIABLES
  deployment,       \* fixed at boot: embedded or not, concurrency asked for, database
                    \* and embedding client configured
  worker,           \* where the process is
  stores,           \* what createRetrievalStores resolved to, and its pool
  warm,             \* the warm-up's verdict, and whether any grammar was loaded
  consumerRunning,
  activeJobs,
  queued,           \* BullMQ: the state of each job, and how often it stalled
  job,              \* where its processor is, its directory and its branch
  git,              \* the child process the job waits for
  disk,             \* directories below the temporary root
  kills,
  \* The rest only observes.
  orphans           \* directories that nothing removes any more

workerVars == <<deployment, worker, stores, warm, consumerRunning, activeJobs,
                queued, job, git, disk, kills, orphans>>

None == "none"
DEFAULT_CONCURRENCY == 2
MAX_CONCURRENCY == 8

\* What is no positive integer is announced and replaced, what is too large clamped.
resolveScalingConfig(asked) ==
  IF asked < 1 THEN DEFAULT_CONCURRENCY ELSE IF asked > MAX_CONCURRENCY THEN MAX_CONCURRENCY ELSE asked

\* The API forces 1 on the worker it embeds.
Concurrency == IF deployment.embedded THEN 1 ELSE resolveScalingConfig(deployment.asked)

Idle == [at |-> "none", dir |-> 0, path |-> 0, branch |-> None]
NoChild == [state |-> "none", timedOut |-> FALSE]
Running(j) == job[j].at # "none"
Serving == worker = "serving"
Up == worker \notin {"down", "exited"}

Init ==
  /\ deployment \in [embedded : BOOLEAN, asked : Asked, postgres : BOOLEAN, embedding : BOOLEAN]
  /\ worker = "exited"
  /\ stores = [mode |-> None, sql |-> FALSE]
  /\ warm = [warmedUp |-> FALSE, grammars |-> FALSE]
  /\ consumerRunning = FALSE /\ activeJobs = 0
  /\ queued = [j \in Jobs |-> [state |-> "none", stalls |-> 0]]
  /\ job = [j \in Jobs |-> Idle]
  /\ git = [j \in Jobs |-> NoChild]
  /\ disk = {} /\ kills = 0 /\ orphans = {}

----------------------------------------------------------------------------
(* Boot                                                                     *)

\* A failed connection ends the process; an embedded worker uses its host's.
Connect ==
  /\ worker = "connect"
  /\ \/ worker' = "stores"
     \/ ~deployment.embedded /\ worker' = "down"
  /\ UNCHANGED <<deployment, stores, warm, consumerRunning, activeJobs, queued, job, git, disk, kills, orphans>>

\* No stores without an embedding client, which would have nothing to put there.
\* Postgres where it is configured, can be reached and takes the schema; else
\* memory, though its pool stays open where it was there.
createRetrievalStores ==
  /\ worker = "stores"
  /\ \/ ~deployment.embedding /\ stores' = [mode |-> "absent", sql |-> FALSE]
     \/ deployment.embedding /\ stores' = [mode |-> "memory", sql |-> FALSE]
     \/ /\ deployment.embedding /\ deployment.postgres
        /\ \E mode \in {"memory", "postgres"} : stores' = [mode |-> mode, sql |-> TRUE]
  /\ worker' = "warming"
  /\ UNCHANGED <<deployment, warm, consumerRunning, activeJobs, queued, job, git, disk, kills, orphans>>

\* initTreeSitter never rejects: without a grammar every language falls back.
WarmUp ==
  /\ worker = "warming"
  /\ \E loaded \in BOOLEAN : warm' = [warmedUp |-> TRUE, grammars |-> loaded]
  /\ worker' = "consume"
  /\ UNCHANGED <<deployment, stores, consumerRunning, activeJobs, queued, job, git, disk, kills, orphans>>

\* The BullMQ worker and the health server are there from here on.
Consume ==
  /\ worker = "consume"
  /\ worker' = "serving" /\ consumerRunning' = TRUE
  /\ UNCHANGED <<deployment, stores, warm, activeJobs, queued, job, git, disk, kills, orphans>>

----------------------------------------------------------------------------
(* A job                                                                    *)

\* The API adds a job to the queue.
Enqueue(j) ==
  /\ queued[j].state = "none"
  /\ queued' = [queued EXCEPT ![j].state = "waiting"]
  /\ UNCHANGED <<deployment, worker, stores, warm, consumerRunning, activeJobs, job, git, disk, kills, orphans>>

Child == [state |-> "running", timedOut |-> FALSE]
Goto(j, pc) == job' = [job EXCEPT ![j].at = pc]

Take(j) ==
  /\ Serving /\ queued[j].state = "waiting"
  /\ Cardinality({i \in Jobs : Running(i)}) < Concurrency
  /\ activeJobs' = activeJobs + 1
  /\ queued' = [queued EXCEPT ![j].state = "active"]
  /\ Goto(j, "mkdir")
  /\ UNCHANGED <<deployment, worker, stores, warm, consumerRunning, git, disk, kills, orphans>>

\* A fresh directory: its name holds a random UUID.  Then the first child.
MakeTemp(j) ==
  /\ job[j].at = "mkdir"
  /\ job' = [job EXCEPT ![j].at = "ls-remote", ![j].dir = queued[j].stalls + 1]
  /\ disk' = disk \cup {<<j, queued[j].stalls + 1>>}
  /\ git' = [git EXCEPT ![j] = Child]
  /\ UNCHANGED <<deployment, worker, stores, warm, consumerRunning, activeJobs, queued, kills, orphans>>

\* The timer of runGit kills a child that is still there.
GitTimesOut(j) ==
  /\ git[j].state = "running" /\ ~git[j].timedOut
  /\ git' = [git EXCEPT ![j].timedOut = TRUE]
  /\ UNCHANGED <<deployment, worker, stores, warm, consumerRunning, activeJobs, queued, job, disk, kills, orphans>>

\* A child that was not killed closes with 0: the next one, or the measuring.
GitSucceeds(j) ==
  /\ git[j].state = "running" /\ ~git[j].timedOut
  /\ LET remote == Remotes[j]
         Clone(branch) == /\ job' = [job EXCEPT ![j].at = "clone", ![j].branch = branch]
                          /\ git' = [git EXCEPT ![j] = Child]
     IN \/ /\ job[j].at = "ls-remote"
           /\ IF remote.default \in {None, remote.requested}
              THEN Clone(remote.requested)
              ELSE Goto(j, "heads") /\ git' = [git EXCEPT ![j] = Child]
        \/ /\ job[j].at = "heads"
           /\ Clone(IF remote.requested \in remote.branches THEN remote.requested ELSE remote.default)
        \/ /\ job[j].at = "clone" /\ job[j].branch \in remote.branches
           /\ Goto(j, "rev-parse") /\ git' = [git EXCEPT ![j] = Child]
        \/ /\ job[j].at = "rev-parse"
           /\ job' = [job EXCEPT ![j].at = "analyze", ![j].path = job[j].dir]
           /\ git' = [git EXCEPT ![j] = NoChild]
  /\ UNCHANGED <<deployment, worker, stores, warm, consumerRunning, activeJobs, queued, disk, kills, orphans>>

\* It closes with another code, was killed, or cannot be started: ingest
\* fails, before the path was handed over that the cleanup would need.
GitFails(j) ==
  /\ git[j].state = "running"
  /\ Goto(j, "cleanup")
  /\ git' = [git EXCEPT ![j] = NoChild]
  /\ orphans' = orphans \cup {<<j, job[j].dir>>}
  /\ UNCHANGED <<deployment, worker, stores, warm, consumerRunning, activeJobs, queued, disk, kills>>

\* The pipeline ends, whether it throws or not.
Analyze(j) ==
  /\ job[j].at = "analyze"
  /\ Goto(j, "cleanup")
  /\ UNCHANGED <<deployment, worker, stores, warm, consumerRunning, activeJobs, queued, git, disk, kills, orphans>>

\* cleanupRepo, where there is a path: it removes the directory or not, for
\* CODEFLOW_KEEP_TMP skips that, and that it rejects is swallowed.  Then the
\* processor's finally.
Finish(j) ==
  /\ job[j].at = "cleanup"
  /\ \E outcome \in {"completed", "failed"} : queued' = [queued EXCEPT ![j].state = outcome]
  /\ LET own == {<<j, job[j].path>>} \cap disk
     IN \/ disk' = disk \ own /\ UNCHANGED orphans
        \/ orphans' = orphans \cup own /\ UNCHANGED disk
  /\ activeJobs' = activeJobs - 1
  /\ job' = [job EXCEPT ![j] = Idle]
  /\ UNCHANGED <<deployment, worker, stores, warm, consumerRunning, git, kills>>

----------------------------------------------------------------------------
(* The end of a process                                                     *)

\* SIGTERM: the flag is turned before the consumer is closed.
Stop ==
  /\ Serving /\ ~deployment.embedded
  /\ worker' = "draining" /\ consumerRunning' = FALSE
  /\ UNCHANGED <<deployment, stores, warm, activeJobs, queued, job, git, disk, kills, orphans>>

\* worker.close has waited for every processor; pool and connection go last.
Exit ==
  /\ worker = "draining" /\ \A j \in Jobs : ~Running(j)
  /\ worker' = "exited"
  /\ stores' = [mode |-> None, sql |-> FALSE]
  /\ warm' = [warmedUp |-> FALSE, grammars |-> FALSE]
  /\ UNCHANGED <<deployment, consumerRunning, activeJobs, queued, job, git, disk, kills, orphans>>

\* SIGKILL, or SIGTERM before it is listened to or while embedded: nothing
\* is cleaned up, and its jobs stall.
Kill ==
  /\ Up /\ kills < Kills
  /\ kills' = kills + 1 /\ worker' = "down"
  /\ stores' = [mode |-> None, sql |-> FALSE]
  /\ warm' = [warmedUp |-> FALSE, grammars |-> FALSE]
  /\ consumerRunning' = FALSE /\ activeJobs' = 0
  /\ orphans' = orphans \cup {<<j, job[j].dir>> : j \in {i \in Jobs : job[i].dir > 0}}
  /\ queued' = [j \in Jobs |->
                  IF ~Running(j) THEN queued[j]
                  ELSE [state |-> IF queued[j].stalls < MaxStalled THEN "waiting" ELSE "failed",
                        stalls |-> queued[j].stalls + 1]]
  /\ job' = [j \in Jobs |-> Idle]
  /\ git' = [j \in Jobs |-> NoChild]
  /\ UNCHANGED <<deployment, disk>>

\* The platform starts it, and again.
Restart ==
  /\ ~Up
  /\ worker' = "connect"
  /\ UNCHANGED <<deployment, stores, warm, consumerRunning, activeJobs, queued, job, git, disk, kills, orphans>>

Boot == Connect \/ createRetrievalStores \/ WarmUp \/ Consume
Process(j) ==
  Enqueue(j) \/ Take(j) \/ MakeTemp(j) \/ GitTimesOut(j) \/ GitSucceeds(j) \/ GitFails(j) \/ Analyze(j) \/ Finish(j)

Next == Boot \/ Stop \/ Exit \/ Kill \/ Restart \/ \E j \in Jobs : Process(j)

Waiting == \E j \in Jobs : queued[j].state = "waiting"

\* The process runs, and a child that hangs is killed; while there is work the
\* platform starts the process, Mongo is reached in the end, and the process
\* is not stopped for ever.
Fairness ==
  /\ WF_workerVars(Boot \/ Exit \/ (Waiting /\ Restart))
  /\ SF_workerVars(Connect /\ worker' = "stores")
  /\ \A j \in Jobs :
       /\ SF_workerVars(Take(j))
       /\ WF_workerVars(MakeTemp(j) \/ Analyze(j) \/ Finish(j))
       /\ WF_workerVars(GitTimesOut(j)) /\ WF_workerVars(git[j].timedOut /\ GitFails(j))

----------------------------------------------------------------------------
(* The probes, each a function of the state                                 *)

Listening == worker \in {"serving", "draining"} /\ ~deployment.embedded
Health == IF consumerRunning THEN 200 ELSE 503
Ready == IF consumerRunning /\ warm.warmedUp THEN 200 ELSE 503

\* The gauge of /metrics is the number of processors at work, whatever became
\* of the jobs before, and no more than the instance was bounded to.
GaugeIsExact ==
  /\ activeJobs = Cardinality({j \in Jobs : Running(j)})
  /\ activeJobs <= Concurrency /\ Concurrency <= MAX_CONCURRENCY
  /\ deployment.embedded => activeJobs <= 1

\* An instance that says it is ready has paid the cold start, takes jobs and has
\* stores exactly if it has an embedding client; one that was told to stop says
\* so while it still works (index.ts:356-359).
ProbesAreHonest ==
  Listening =>
    /\ Ready = 200 => /\ Serving /\ warm.warmedUp
                      /\ stores.mode \in {"memory", "postgres"} <=> deployment.embedding
    /\ (Health = 200) <=> Serving

\* A drain loses nothing: what the process was told to stop before it ended
\* ended, and no job is held by a process that is not there.
NothingIsHeld == ~Up => \A j \in Jobs : queued[j].state # "active" /\ git[j].state = "none"

\* Every directory on disk is that of a job at work, but for those that nothing
\* removes: of jobs that failed to clone or were killed, whose removal failed,
\* or that are to be kept; and no job at work loses its own to another's end.
DiskIsAccounted ==
  /\ disk \ orphans \subseteq {<<j, job[j].dir>> : j \in Jobs}
  /\ \A j \in Jobs : job[j].dir > 0 => <<j, job[j].dir>> \in disk

\* What is analysed was on the remote, and is the branch asked for if the
\* remote has it (publicRepoCloneService.ts:129-133).
BranchIsMeant ==
  \A j \in Jobs : job[j].at \in {"rev-parse", "analyze"} =>
    /\ job[j].branch \in Remotes[j].branches
    /\ Remotes[j].requested \in Remotes[j].branches => job[j].branch = Remotes[j].requested

WorkerIsAccountable ==
  GaugeIsExact /\ ProbesAreHonest /\ NothingIsHeld /\ DiskIsAccounted /\ BranchIsMeant

\* Every job ends, though Git hangs and the process is killed.
Working == \E j \in Jobs : queued[j].state \in {"waiting", "active"}
=============================================================================
