------------------------------ MODULE MCServices ------------------------------
(***************************************************************************)
(* The small stateful parts, one to a behaviour: the replay log, the       *)
(* browser's driver and its wake, the rate limit, the warm-up, the bounded *)
(* parse and the worker's process.  `part` says which one runs; the others *)
(* stay where they began, and fairness is asked of the one that runs.      *)
(***************************************************************************)
EXTENDS EventLog, Integers, Sequences, FiniteSets

VARIABLES
  part,
  phase, target, jobId, stage, result, askAbout, asking, source, streams, silent, pollRef, intervals,
  activeJob, settled, sent, server, analyses, calm, refused,
  wake, attempts, started, live, doing, index,
  store, now, key, window, hit,
  env, registered, status, running, flight, caller, ran,
  queue, task, work, active, inventory, parsing, timer, hung, timedOut,
  deployment, worker, stores, warm, consumerRunning, activeJobs, queued, job, git, disk, kills, orphans

CONSTANTS
  Targets, PageRequests, Questions, EventSources, \* Dashboard: its Requests
  WakeAttempts,                                   \* Wake: its Attempts
  Arrivals, Window, Allowed, Horizon,             \* RateLimit
  Callers, Registrations,                         \* WarmUp
  Files, ParseConcurrency, Unreadable,            \* ParsePool: its Concurrency
  Jobs, Remotes, Asked, Kills, MaxStalled         \* WorkerProcess

\* A schedule has an entry, a window a length, a pool its integers.
ASSUME ServicesAssumption ==
  /\ DOMAIN Targets = 1..Len(Targets) /\ Len(Targets) \in Nat
  /\ PageRequests \in Nat /\ Questions \in Nat /\ EventSources \subseteq BOOLEAN
  /\ WakeAttempts \in Nat \ {0}
  /\ Arrivals \in Nat /\ Window \in Nat \ {0} /\ Allowed \in Nat /\ Horizon \in Nat
  /\ Registrations \in Nat
  /\ Files \in Nat /\ ParseConcurrency \in Int /\ Unreadable \in BOOLEAN
  /\ IsFiniteSet(Jobs) /\ Asked \subseteq Int /\ Kills \in Nat /\ MaxStalled \in Nat

D == INSTANCE Dashboard WITH Requests <- PageRequests
K == INSTANCE Wake WITH Attempts <- WakeAttempts
R == INSTANCE RateLimit
W == INSTANCE WarmUp
P == INSTANCE ParsePool WITH Concurrency <- ParseConcurrency
I == INSTANCE WorkerProcess

dashboardVars == <<phase, target, jobId, stage, result, askAbout, asking, source, streams, silent, pollRef, intervals,
                   activeJob, settled, sent, server, analyses, calm, refused>>
wakeVars == <<wake, attempts, started, live, doing, index>>
rateVars == <<store, now, key, window, hit>>
warmVars == <<env, registered, status, running, flight, caller, ran>>
poolVars == <<queue, task, work, active, inventory, parsing, timer, hung, timedOut>>
workerVars == <<deployment, worker, stores, warm, consumerRunning, activeJobs, queued, job, git, disk, kills, orphans>>
allVars == <<part, vars, dashboardVars, wakeVars, rateVars, warmVars, poolVars, workerVars>>

ServicesInit ==
  /\ part \in {"log", "dashboard", "wake", "rate", "warm", "pool", "worker"}
  /\ Init /\ D!Init /\ K!Init /\ W!Init /\ P!Init /\ I!Init
  /\ R!Init /\ (part # "rate" => store = "redis")
  /\ part # "warm" => env = [mongo |-> TRUE, redis |-> FALSE, redisConfigured |-> FALSE, qa |-> FALSE, qaConfigured |-> FALSE]
  /\ part # "worker" => \A setting \in {"embedded", "postgres", "embedding"} : deployment[setting]
  /\ part # "pool" => timer

ServicesNext ==
  /\ UNCHANGED part
  /\ \/ part = "log" /\ Next /\ UNCHANGED <<dashboardVars, wakeVars, rateVars, warmVars, poolVars, workerVars>>
     \/ part = "dashboard" /\ D!Next /\ UNCHANGED <<vars, wakeVars, rateVars, warmVars, poolVars, workerVars>>
     \/ part = "wake" /\ K!Next /\ UNCHANGED <<vars, dashboardVars, rateVars, warmVars, poolVars, workerVars>>
     \/ part = "rate" /\ R!Next /\ UNCHANGED <<vars, dashboardVars, wakeVars, warmVars, poolVars, workerVars>>
     \/ part = "warm" /\ W!Next /\ UNCHANGED <<vars, dashboardVars, wakeVars, rateVars, poolVars, workerVars>>
     \/ part = "pool" /\ P!Next /\ UNCHANGED <<vars, dashboardVars, wakeVars, rateVars, warmVars, workerVars>>
     \/ part = "worker" /\ I!Next /\ UNCHANGED <<vars, dashboardVars, wakeVars, rateVars, warmVars, poolVars>>

ServicesSpec ==
  /\ ServicesInit /\ [][ServicesNext]_allVars
  /\ \A m \in Message : WF_vars(Step(m))
  /\ D!Fairness /\ K!Fairness /\ W!Fairness /\ P!Fairness /\ I!Fairness

----------------------------------------------------------------------------

DashboardIsHonest == part = "dashboard" => D!DashboardIsHonest
DashboardSettles == D!DashboardSettles

\* The rate limit, the warm-up, the wake, the parse and the worker keep their
\* bounds (WindowsHold, RefusedForCause, KeysExpire; WarmsOnce, WarmIsEarned,
\* WarmLatches; WakesOnce; SlotsAreExact, WorkIsBounded, LateWorkIsIgnored;
\* GaugeIsExact, ProbesAreHonest, NothingIsHeld, DiskIsAccounted,
\* BranchIsMeant).
BoundsAreKept ==
  /\ part = "wake" => K!WakesOnce
  /\ part = "rate" => R!RateIsLimited
  /\ part = "warm" => W!WarmUpIsHonest
  /\ part = "pool" => P!ParsingIsBounded
  /\ part = "worker" => I!WorkerIsAccountable

\* What was begun ends: the processor can await its last append, the page
\* learns whether the API is there (useWake.ts:62-73), every call of warmUp
\* returns whatever fails (warmup.ts:152-166), the stage has its files
\* although a read may stall, while there is a timer and no parse holds the
\* thread for ever (concurrency.ts:43-66), and every job is over
\* although Git may hang (publicRepoCloneService.ts:243-245) and the worker
\* be killed.
Busy == Appending \/ K!Waking \/ W!Warming \/ P!Parsing \/ I!Working
ServicesEnd == Busy ~> ~Busy

----------------------------------------------------------------------------
(* The instance                                                             *)

MCTargets == <<1, 2>>

\* One remote has no branch of the default name, the other has what is asked for.
MCRemotes ==
  <<[requested |-> "main", default |-> "master", branches |-> {"master", "dev"}],
    [requested |-> "dev", default |-> "main", branches |-> {"main", "dev"}]>>
=============================================================================
