-------------------------------- MODULE WarmUp -------------------------------
(***************************************************************************)
(* The boot-time warm-up registry (packages/analyzers/src/pipeline/        *)
(* warmup.ts) with the API's tasks (apps/api/src/health/warmup.ts).  A     *)
(* task may be registered at any time; calls of warmUp that overlap share  *)
(* one flight, in which the tasks that are not warm run together.          *)
(***************************************************************************)
EXTENDS Naturals, FiniteSets

CONSTANTS
  Callers,        \* of warmUp
  Registrations   \* how often the tasks may be registered

Tasks == {"mongo-connection", "shared-redis", "qa-dependencies"}
required(n) == n = "mongo-connection"

VARIABLES
  env,            \* what the process can reach, and what it was configured with
  registered,     \* how often the tasks were
  status,         \* of each task
  running,        \* the runs of each task in progress
  flight,         \* inFlight
  caller,         \* the state of each call of warmUp
  \* The rest only observes.
  ran             \* the tasks that ran to success

warmVars == <<env, registered, status, running, flight, caller, ran>>

Environments == [mongo : BOOLEAN, redis : BOOLEAN, redisConfigured : BOOLEAN, qa : BOOLEAN, qaConfigured : BOOLEAN]

Init ==
  /\ env \in {e \in Environments : (e.redis => e.redisConfigured) /\ (e.qa => e.qaConfigured)}
  /\ registered = 0
  /\ status = [n \in Tasks |-> "none"]
  /\ running = [n \in Tasks |-> 0]
  /\ flight = FALSE
  /\ caller = [c \in Callers |-> [at |-> "idle", warmedUp |-> FALSE]]
  /\ ran = {}

Registered == {n \in Tasks : status[n] # "none"}

\* "Nothing to do" is not "ready": an empty registry is not warm.
warmedUp ==
  LET needed == {n \in Registered : required(n)}
  IN needed # {} /\ \A n \in needed : status[n] = "warm"

\* The same name replaces the task, and a task that is warm stays so.
register(n) == IF status[n] = "warm" THEN "warm" ELSE "pending"

\* The question-answering task is only there when it can run.
registerApiWarmupTasks ==
  /\ registered < Registrations
  /\ registered' = registered + 1
  /\ LET named == {n \in Tasks : n = "qa-dependencies" => env.qaConfigured}
     IN status' = [n \in Tasks |-> IF n \in named THEN register(n) ELSE status[n]]
  /\ UNCHANGED <<env, running, flight, caller, ran>>

Cold == {n \in Registered : status[n] # "warm"}

\* The first call starts the tasks that are not warm, all at once; a call
\* that finds a flight under way waits for it.
warmUp(c) ==
  /\ caller[c].at = "idle"
  /\ caller' = [caller EXCEPT ![c].at = "waiting"]
  /\ IF flight THEN UNCHANGED <<flight, running, status>>
     ELSE /\ flight' = TRUE
          /\ running' = [n \in Tasks |-> running[n] + IF n \in Cold THEN 1 ELSE 0]
          /\ status' = [n \in Tasks |-> IF n \in Cold THEN "running" ELSE status[n]]
  /\ UNCHANGED <<env, registered, ran>>

\* A Redis that is not configured is a choice, one out of reach a failure.
succeeds(n) ==
  CASE n = "mongo-connection" -> env.mongo
    [] n = "shared-redis" -> env.redis \/ ~env.redisConfigured
    [] n = "qa-dependencies" -> env.qa

\* A failure is recorded, not thrown.
TaskEnds(n) ==
  /\ running[n] > 0
  /\ running' = [running EXCEPT ![n] = @ - 1]
  /\ status' = [status EXCEPT ![n] = IF succeeds(n) THEN "warm" ELSE "failed"]
  /\ ran' = IF succeeds(n) THEN ran \cup {n} ELSE ran
  /\ UNCHANGED <<env, registered, flight, caller>>

\* Every call that waits is given one snapshot.
Land ==
  /\ flight /\ \A n \in Tasks : running[n] = 0
  /\ flight' = FALSE
  /\ caller' = [c \in Callers |-> IF caller[c].at = "waiting" THEN [at |-> "returned", warmedUp |-> warmedUp] ELSE caller[c]]
  /\ UNCHANGED <<env, registered, status, running, ran>>

\* Mongo, Redis and the stores come and go.
Weather ==
  /\ \E e \in Environments :
       /\ e.redis => e.redisConfigured
       /\ e.qa => e.qaConfigured
       /\ Cardinality({f \in {"mongo", "redis", "qa"} : e[f] # env[f]}) = 1
       /\ e.redisConfigured = env.redisConfigured /\ e.qaConfigured = env.qaConfigured
       /\ env' = e
  /\ UNCHANGED <<registered, status, running, flight, caller, ran>>

Next ==
  \/ registerApiWarmupTasks \/ Land \/ Weather
  \/ \E c \in Callers : warmUp(c)
  \/ \E n \in Tasks : TaskEnds(n)

\* The tasks' own calls return.
Fairness == WF_warmVars(Land) /\ \A n \in Tasks : WF_warmVars(TaskEnds(n))

----------------------------------------------------------------------------

\* However calls and registrations overlap, no task runs twice at once
\* (warmup.ts:80-86).
WarmsOnce == \A n \in Tasks : running[n] <= 1

\* The process says it is warm when every task it needs has run and at no
\* other time, and the optional ones have no say in it (warmup.ts:105-117,
\* health/warmup.ts:65-100).
WarmIsEarned ==
  /\ \A n \in Tasks : status[n] = "warm" <=> n \in ran
  /\ warmedUp <=> "mongo-connection" \in ran

\* Who waited for the flight is told what it came to, and warm stays warm
\* (health/warmup.ts:26-31).
WarmLatches ==
  \A c \in Callers : caller[c].at = "returned" /\ caller[c].warmedUp => warmedUp

WarmUpIsHonest == WarmsOnce /\ WarmIsEarned /\ WarmLatches

\* A call of warmUp has not returned.
Warming == \E c \in Callers : caller[c].at = "waiting"
=============================================================================
