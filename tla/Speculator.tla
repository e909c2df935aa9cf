----------------------------- MODULE Speculator -----------------------------
(***************************************************************************)
(* Speculative prefetch with a staging layer (createSpeculator,            *)
(* packages/analyzers/src/pipeline/speculation.ts): tasks are computed     *)
(* ahead of the stages that may ask for them, at most Slots at a time, and   *)
(* only what a stage asked for is promoted into the shared cache when the  *)
(* run commits.  A run owns one speculator and settles it at most once     *)
(* (runPipeline, orchestrator.ts), possibly while stages that it has given *)
(* up on are still waiting for a claim; a cache that rejects ends the run  *)
(* unsettled.                                                              *)
(***************************************************************************)
EXTENDS Naturals, Sequences, FiniteSets, SequencesExt

CONSTANTS
  Keys,     \* cache keys a task may compute
  Claims,   \* calls of claim
  Slots       \* maxConcurrent

\* Stated apart from the assumption, for modules that instantiate this one.
SpeculatorConstants ==
  /\ IsFiniteSet(Keys)
  /\ Slots \in Nat \ {0}

ASSUME SpeculatorAssumption == SpeculatorConstants

VARIABLES
  staged,     \* keys registered by speculate and not discarded
  queue,      \* tasks that wait for a slot
  task,       \* each key's computation, and what its promise resolved to
  inFlight,   \* slots taken
  failed, claimed,
  claim,      \* the calls of claim
  cache,      \* keys in the shared cache
  visited,    \* claimed keys commit has dealt with
  phase       \* of the run

tasks == <<queue, task, inFlight>>
vars == <<staged, tasks, failed, claimed, claim, cache, visited, phase>>

\* A task that has ended keeps its slot until `finally` gives it back.
TaskState == [at : {"none", "queued", "running", "ended", "over"},
              value : {"pending", "value", "null"}]

TypeOK ==
  /\ staged \subseteq Keys
  /\ queue \in Seq(Keys)
  /\ task \in [Keys -> TaskState]
  /\ inFlight \in 0..Slots
  /\ failed \subseteq Keys /\ claimed \subseteq Keys
  /\ claim \in [Claims -> [at : {"idle", "absent", "waiting", "miss", "hit"},
                           key : Keys]]
  /\ cache \subseteq Keys /\ visited \subseteq Keys
  /\ phase \in {"open", "committing", "committed", "rejected", "rolledBack"}

Init ==
  /\ staged = {}
  /\ queue = <<>>
  /\ task = [k \in Keys |-> [at |-> "none", value |-> "pending"]]
  /\ inFlight = 0
  /\ failed = {} /\ claimed = {}
  /\ claim \in [Claims -> [at : {"idle"}, key : Keys]]
  /\ cache = {} /\ visited = {}
  /\ phase = "open"

----------------------------------------------------------------------------

Min2(a, b) == IF a < b THEN a ELSE b

\* pump, with n slots taken: start tasks from the head of q while there is room.
Pump(t, q, n) ==
  LET started == Min2(Slots - n, Len(q))
  IN  /\ queue' = SubSeq(q, started + 1, Len(q))
      /\ task' = [k \in Keys |->
           IF \E i \in 1..started : q[i] = k THEN [t[k] EXCEPT !.at = "running"] ELSE t[k]]
      /\ inFlight' = n + started

\* speculate: registered at once, so that a task in the queue can be claimed.
Speculate(k) ==
  /\ phase = "open" /\ k \notin staged
  /\ staged' = staged \cup {k}
  /\ Pump([task EXCEPT ![k].at = "queued"], Append(queue, k), inFlight)
  /\ UNCHANGED <<failed, claimed, claim, cache, visited, phase>>

\* compute ends: a failure is noted, and the promise resolves.
TaskEnds(k) ==
  /\ task[k].at = "running"
  /\ \/ /\ task' = [task EXCEPT ![k] = [at |-> "ended", value |-> "value"]]
        /\ UNCHANGED failed
     \/ /\ task' = [task EXCEPT ![k] = [at |-> "ended", value |-> "null"]]
        /\ failed' = failed \cup {k}
  /\ UNCHANGED <<staged, queue, inFlight, claimed, claim, cache, visited, phase>>

\* `finally`: the slot is free, and the next task starts.
SlotFreed(k) ==
  /\ task[k].at = "ended"
  /\ Pump([task EXCEPT ![k].at = "over"], queue, inFlight - 1)
  /\ UNCHANGED <<staged, failed, claimed, claim, cache, visited, phase>>

----------------------------------------------------------------------------
(* A stage asks for a key.                                                  *)

\* q with its n-th element taken out and put first.
ToFront(q, n) ==
  [j \in 1..Len(q) |-> IF j = 1 THEN q[n] ELSE IF j <= n THEN q[j - 1] ELSE q[j]]

\* A claim is proof that the guess was right: the task moves to the front.
Claim(c) ==
  /\ claim[c].at = "idle"
  /\ claim' = [claim EXCEPT ![c].at = IF claim[c].key \in staged THEN "waiting" ELSE "absent"]
  /\ \/ \E n \in DOMAIN queue : queue[n] = claim[c].key /\ queue' = ToFront(queue, n)
     \/ ~Contains(queue, claim[c].key) /\ UNCHANGED queue
  /\ UNCHANGED <<staged, task, inFlight, failed, claimed, cache, visited, phase>>

\* Its promise resolves.
ClaimReturns(c) ==
  LET k == claim[c].key
  IN  /\ claim[c].at = "waiting" /\ task[k].value # "pending"
      /\ IF task[k].value = "null" \/ k \in failed
         THEN /\ claim' = [claim EXCEPT ![c].at = "miss"]
              /\ UNCHANGED claimed
         ELSE /\ claim' = [claim EXCEPT ![c].at = "hit"]
              /\ claimed' = claimed \cup {k}
      /\ UNCHANGED <<staged, tasks, failed, cache, visited, phase>>

----------------------------------------------------------------------------
(* The run settles its speculations.                                        *)

\* settle: discard everything; a task that did not start resolves to null, one
\* that runs goes on.
Settle ==
  /\ queue' = <<>>
  /\ task' = [k \in Keys |->
       IF Contains(queue, k) THEN [at |-> "over", value |-> "null"] ELSE task[k]]
  /\ staged' = {} /\ claimed' = {} /\ failed' = {}

\* commit runs over the claimed keys, those claimed meanwhile included.
Commit ==
  /\ phase = "open"
  /\ phase' = "committing"
  /\ UNCHANGED <<staged, tasks, failed, claimed, claim, cache, visited>>

\* Mutant: all that is staged is promoted.
CommitStaged(k) ==
  /\ phase = "committing" /\ k \in staged \ visited
  /\ task[k].value # "pending"
  /\ visited' = visited \cup {k}
  /\ cache' = IF task[k].value = "value" THEN cache \cup {k} ELSE cache
  /\ UNCHANGED <<staged, tasks, failed, claimed, claim, phase>>

\* One turn of its loop: cache.set is awaited.
CommitKey(k) ==
  /\ phase = "committing" /\ k \in claimed \ visited
  /\ visited' = visited \cup {k}
  /\ cache' = IF k \in staged /\ task[k].value # "null" /\ k \notin failed
              THEN cache \cup {k} ELSE cache
  /\ UNCHANGED <<staged, tasks, failed, claimed, claim, phase>>

\* cache.set rejects, and commit with it: the rest is not promoted, and nobody
\* settles.
CommitThrows(k) ==
  /\ phase = "committing" /\ k \in claimed \ visited
  /\ k \in staged /\ task[k].value # "null" /\ k \notin failed
  /\ phase' = "rejected"
  /\ UNCHANGED <<staged, tasks, failed, claimed, claim, cache, visited>>

\* Mutant: the loop is not awaited.
CommitEndsAtOnce ==
  /\ phase = "committing"
  /\ phase' = "committed"
  /\ Settle
  /\ UNCHANGED <<inFlight, claim, cache, visited>>

CommitEnds ==
  /\ phase = "committing" /\ claimed \subseteq visited
  /\ phase' = "committed"
  /\ Settle
  /\ UNCHANGED <<inFlight, claim, cache, visited>>

Rollback ==
  /\ phase = "open"
  /\ phase' = "rolledBack"
  /\ Settle
  /\ UNCHANGED <<inFlight, claim, cache, visited>>

Step ==
  \/ \E k \in Keys : TaskEnds(k) \/ SlotFreed(k) \/ CommitKey(k)
  \/ \E c \in Claims : ClaimReturns(c)
  \/ CommitEnds

Next ==
  \/ Step
  \/ \E k \in Keys : Speculate(k)
  \/ \E c \in Claims : Claim(c)
  \/ Commit \/ Rollback
  \/ \E k \in Keys : CommitThrows(k)

Spec == Init /\ [][Next]_vars

\* Every computation ends, and what a promise resumes is resumed.
FairSpec ==
  /\ Spec
  /\ \A k \in Keys : WF_vars(TaskEnds(k)) /\ WF_vars(SlotFreed(k)) /\ WF_vars(CommitKey(k))
  /\ \A c \in Claims : WF_vars(ClaimReturns(c))
  /\ WF_vars(CommitEnds)

----------------------------------------------------------------------------

Busy == {k \in Keys : task[k].at \in {"running", "ended"}}

\* The slots count the computations, never more than Slots, and none is left
\* free while a task waits: a slot lost or given back twice would show here.
SlotsAreUsed ==
  /\ inFlight = Cardinality(Busy)
  /\ inFlight <= Slots
  /\ queue # <<>> => inFlight = Slots

\* What a stage waits for is ahead of what no stage has asked for.
ProvenFirst ==
  \A i, j \in DOMAIN queue :
    (\E c \in Claims : claim[c].at = "waiting" /\ claim[c].key = queue[j]) /\ i < j
      => \E c \in Claims : claim[c].at = "waiting" /\ claim[c].key = queue[i]

\* A key is computed once, so a claim never doubles the work it would spare.
ComputedOnce ==
  [][\A k \in Keys : task[k].at \in {"running", "ended", "over"}
       => task'[k].at \notin {"none", "queued"}
          /\ (task[k].at # "running" => task'[k].at # "running")]_vars

\* The shared cache is given what some stage asked for and got, and nothing
\* when the run was rolled back.
OnlyProvenPromoted ==
  /\ \A k \in cache : task[k].value = "value" /\ \E c \in Claims : claim[c] = [at |-> "hit", key |-> k]
  /\ phase = "rolledBack" => cache = {}

\* When a commit ends, all that a stage asked for and got is in the cache,
\* also what was claimed while the commit waited for the cache.
CommitIsComplete ==
  [][phase = "committing" /\ phase' = "committed"
       => \A c \in Claims : claim[c].at = "hit" => claim[c].key \in cache']_vars

\* Tasks move one way: what waits is staged, once, and has no value yet; what a
\* stage got stays what it got.
TasksInv ==
  /\ \A k \in Keys : task[k].at \in {"none", "queued", "running"} <=> task[k].value = "pending"
  /\ \A n \in DOMAIN queue : task[queue[n]].at = "queued" /\ queue[n] \in staged
  /\ \A m, n \in DOMAIN queue : queue[m] = queue[n] => m = n
  /\ phase = "open" => \A k \in Keys \ staged : task[k].at = "none"

\* What is claimed was asked for and got, and nothing is promoted before the
\* run commits.
ClaimsInv ==
  /\ \A k \in claimed : task[k].value = "value" /\ \E c \in Claims : claim[c] = [at |-> "hit", key |-> k]
  /\ phase \in {"open", "rolledBack"} => cache = {}

\* Why only proven values are promoted and slots are used.
SpeculatorInv == TasksInv /\ ClaimsInv /\ OnlyProvenPromoted /\ SlotsAreUsed

\* A claim of a staged key always returns, though the run be rolled back
\* while its task is still in the queue.
ClaimsReturn == \A c \in Claims : claim[c].at = "waiting" ~> claim[c].at \in {"miss", "hit"}

\* Who asks is served before who guesses, and always; no key is computed twice,
\* and what was asked for and got is in the cache when a commit ends.
ClaimsAreHonoured == [](TypeOK /\ ProvenFirst) /\ ComputedOnce /\ CommitIsComplete /\ ClaimsReturn
=============================================================================
