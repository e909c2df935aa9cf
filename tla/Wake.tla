-------------------------------- MODULE Wake --------------------------------
(***************************************************************************)
(* Waking the API (apps/web/src/lib/useWake.ts): one request when the page *)
(* opens, and after each failure the next of a schedule of delays.  The    *)
(* effect that does it may be cleaned up and run again.                    *)
(***************************************************************************)
EXTENDS Naturals

CONSTANTS Attempts \* entries of WAKE_BACKOFF_MS

VARIABLES
  wake,     \* status
  attempts,
  started,  \* startedRef
  live,     \* whether the effect that started has not been cleaned up
  doing,    \* "nothing", "timer" or "asking"
  index     \* of the attempt the timer is for, or that is under way

wakeVars == <<wake, attempts, started, live, doing, index>>

Init ==
  /\ wake = "waking" /\ attempts = 0
  /\ started = FALSE /\ live = FALSE
  /\ doing = "nothing" /\ index = 0

\* A second run of the effect finds it started, and does nothing.
Effect ==
  /\ ~started
  /\ started' = TRUE /\ live' = TRUE
  /\ doing' = "timer" /\ index' = 0
  /\ UNCHANGED <<wake, attempts>>

\* Cleans up: the timers go, an answer on its way is ignored.
Cleanup ==
  /\ live
  /\ live' = FALSE
  /\ doing' = IF doing = "timer" THEN "nothing" ELSE doing
  /\ UNCHANGED <<wake, attempts, started, index>>

Attempt ==
  /\ doing = "timer"
  /\ doing' = "asking" /\ attempts' = attempts + 1
  /\ UNCHANGED <<wake, started, live, index>>

\* Any answer, of whatever status, says the process is up.
AnswerComes ==
  /\ doing = "asking"
  /\ doing' = "nothing"
  /\ wake' = IF live THEN "ready" ELSE wake
  /\ UNCHANGED <<attempts, started, live, index>>

\* Mutant: none after the first.
AttemptFailsForGood ==
  /\ doing = "asking"
  /\ doing' = "nothing"
  /\ UNCHANGED <<wake, index, attempts, started, live>>

\* Refused, or given up after WAKE_ATTEMPT_TIMEOUT_MS.
AttemptFails ==
  /\ doing = "asking"
  /\ IF ~live THEN doing' = "nothing" /\ UNCHANGED <<wake, index>>
     ELSE IF index + 1 >= Attempts
     THEN doing' = "nothing" /\ wake' = "offline" /\ UNCHANGED index
     ELSE doing' = "timer" /\ index' = index + 1 /\ UNCHANGED wake
  /\ UNCHANGED <<attempts, started, live>>

Next == Effect \/ Cleanup \/ Attempt \/ AnswerComes \/ AttemptFails

\* Timers fire; an attempt is answered or aborted.
Fairness == WF_wakeVars(Attempt) /\ WF_wakeVars(AnswerComes \/ AttemptFails)

----------------------------------------------------------------------------

\* The wake is no poll: it asks no oftener than its schedule says, stops at
\* the first answer, and gives up only when the schedule is exhausted
\* (useWake.ts:24-31).
WakesOnce ==
  /\ attempts <= Attempts
  /\ wake # "waking" => doing = "nothing"
  /\ wake = "offline" => attempts = Attempts

\* The page waits for the API, and nothing cleaned the wait up.
Waking == live /\ wake = "waking"
=============================================================================
