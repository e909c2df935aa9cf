------------------------------ MODULE ParsePool ------------------------------
(***************************************************************************)
(* The bounded, timed parse of every file (createLimiter and withTimeout   *)
(* in packages/analyzers/src/util/concurrency.ts, as stage inventory uses  *)
(* them).  A file that times out frees its slot while its work goes on.    *)
(***************************************************************************)
EXTENDS Naturals, Sequences, FiniteSets

CONSTANTS
  Files,       \* how many, in their order
  Concurrency, \* PARSE_CONCURRENCY
  Unreadable   \* whether a read may fail otherwise than by a missing file

VARIABLES
  queue,       \* the tasks that wait for a slot
  task,        \* of each file
  work,        \* its read and parse, which a timeout does not stop
  active,      \* the limiter's counter
  inventory,   \* the results, once the stage has them
  parsing,     \* "before", "during", "done" or "failed"
  timer,       \* whether PARSE_TIMEOUT_MS is positive; else there is no timer
  hung,        \* whether a parse holds the one thread and will not return
  \* The rest only observes.
  timedOut

poolVars == <<queue, task, work, active, inventory, parsing, timer, hung, timedOut>>

File == 1..Files
limit == IF Concurrency < 1 THEN 1 ELSE Concurrency

Init ==
  /\ queue = <<>>
  /\ task = [f \in File |-> "none"]
  /\ work = [f \in File |-> "none"]
  /\ active = 0
  /\ inventory = <<>>
  /\ parsing = "before"
  /\ timer \in BOOLEAN /\ hung = FALSE
  /\ timedOut = {}

\* next(), as often as it is called: tasks start while slots are free.
Started(q, free) == {q[i] : i \in 1..(IF Len(q) < free THEN Len(q) ELSE free)}
Left(q, free) == SubSeq(q, 1 + Cardinality(Started(q, free)), Len(q))

\* All files are scheduled in one go.
Schedule ==
  /\ parsing = "before"
  /\ parsing' = "during"
  /\ LET all == [f \in File |-> f]
         started == Started(all, limit)
     IN /\ queue' = Left(all, limit)
        /\ active' = Cardinality(started)
        /\ task' = [f \in File |-> IF f \in started THEN "running" ELSE "queued"]
        /\ work' = [f \in File |-> IF f \in started THEN "running" ELSE "none"]
  /\ UNCHANGED <<inventory, timer, hung, timedOut>>

\* Mutant: counts the next task before it leaves, and never less.
ReleaseLeaky(f, outcome) ==
  LET started == Started(queue, limit - active)
  IN /\ queue' = Left(queue, limit - active)
     /\ active' = active + Cardinality(started)
     /\ task' = [g \in File |-> IF g = f THEN outcome ELSE IF g \in started THEN "running" ELSE task[g]]

\* The task of f settles: its slot goes to the first that waits.
Release(f, outcome) ==
  LET started == Started(queue, limit - (active - 1))
  IN /\ queue' = Left(queue, limit - (active - 1))
     /\ active' = active - 1 + Cardinality(started)
     /\ task' = [g \in File |-> IF g = f THEN outcome ELSE IF g \in started THEN "running" ELSE task[g]]

Begun(w) == [g \in File |-> IF task'[g] = "running" /\ task[g] = "queued" THEN "running" ELSE w[g]]

\* parseFile: a missing file or one that does not parse is unparsed.
ParseEnds(f) ==
  /\ ~hung
  /\ work[f] = "running" /\ task[f] = "running"
  /\ \E outcome \in {"parsed", "unparsed"} : Release(f, outcome)
  /\ work' = Begun([work EXCEPT ![f] = "ended"])
  /\ UNCHANGED <<inventory, parsing, timer, hung, timedOut>>

\* A read that is refused rejects the task, and with it the stage.
ReadRejects(f) ==
  /\ Unreadable /\ ~hung
  /\ work[f] = "running" /\ task[f] = "running"
  /\ Release(f, "rejected")
  /\ work' = Begun([work EXCEPT ![f] = "ended"])
  /\ parsing' = IF parsing = "during" THEN "failed" ELSE parsing
  /\ UNCHANGED <<inventory, timer, hung, timedOut>>

\* The timer ends the wait for a read that stalls.  It needs the thread.
TimeOut(f) ==
  /\ timer /\ ~hung
  /\ task[f] = "running"
  /\ Release(f, "unparsed")
  /\ work' = Begun(work)
  /\ timedOut' = timedOut \cup {f}
  /\ UNCHANGED <<inventory, parsing, timer, hung>>

\* The work of a file that timed out ends: nobody looks.
EndsLate(f) ==
  /\ ~hung /\ f \in timedOut /\ work[f] = "running"
  /\ work' = [work EXCEPT ![f] = "ended"]
  /\ UNCHANGED <<queue, task, active, inventory, parsing, timer, hung, timedOut>>

\* The parse is synchronous: one that does not return, of a file that is waited
\* for or not, leaves nothing else to run.
Hang(f) ==
  /\ ~hung /\ work[f] = "running"
  /\ hung' = TRUE
  /\ UNCHANGED <<queue, task, work, active, inventory, parsing, timer, timedOut>>

\* Promise.all: the results in the order of the files.
Collect ==
  /\ ~hung /\ parsing = "during"
  /\ \A f \in File : task[f] \in {"parsed", "unparsed"}
  /\ parsing' = "done" /\ inventory' = task
  /\ UNCHANGED <<queue, task, work, active, timer, hung, timedOut>>

Next ==
  \/ Schedule \/ Collect
  \/ \E f \in File : ParseEnds(f) \/ ReadRejects(f) \/ TimeOut(f) \/ EndsLate(f) \/ Hang(f)

\* Timers fire while the thread is free.  A read may stall, a parse may hang.
Fairness == WF_poolVars(Collect) /\ \A f \in File : WF_poolVars(TimeOut(f))

----------------------------------------------------------------------------

Running == {f \in File : task[f] = "running"}

\* The counter is the number of tasks that run, never more than the limit,
\* and no slot is free while a task waits (concurrency.ts:7-40).
SlotsAreExact ==
  /\ active = Cardinality(Running) /\ active <= limit
  /\ queue # <<>> => active = limit
  /\ \A f \in File : task[f] = "queued" <=> \E i \in DOMAIN queue : queue[i] = f

\* The limit bounds the work only as far as none timed out.
WorkIsBounded ==
  Cardinality({f \in File : work[f] = "running"}) <= limit + Cardinality(timedOut)

\* Each file's work is begun once, before its task settles, and what ends late
\* does not touch the inventory (inventory.ts:92-123).
LateWorkIsIgnored ==
  /\ parsing = "done" => inventory = task /\ timedOut \subseteq {f \in File : inventory[f] = "unparsed"}
  /\ \A f \in File : task[f] \in {"parsed", "rejected"} => work[f] = "ended"

ParsingIsBounded == SlotsAreExact /\ WorkIsBounded /\ LateWorkIsIgnored

\* The stage waits for its files, with a timer and a thread to end the wait.
Parsing == parsing = "during" /\ timer /\ ~hung
=============================================================================
