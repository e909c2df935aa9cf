------------------------------ MODULE RateLimit ------------------------------
(***************************************************************************)
(* The per-address limit on analyses (apps/api/src/middleware/rateLimit.ts)*)
(* for one address: requests counted in a fixed window, by INCR and EXPIRE *)
(* in Redis, two calls of which either may fail, or in the memory of one   *)
(* process.  A unit of time is a second.                                   *)
(***************************************************************************)
EXTENDS Naturals, FiniteSets

CONSTANTS
  Arrivals,    \* how many requests come
  Window, Allowed,
  Horizon      \* when time stops

VARIABLES
  store,   \* "redis" or "memory"
  now,
  key,     \* Redis: the count of each window, and when it expires
  window,  \* memory: the current window's count and start
  hit      \* the state of each request

rateVars == <<store, now, key, window, hit>>

Requests == 1..Arrivals
Never == Horizon + Window + 2
NoKey == [count |-> 0, expires |-> Never]
Bucket(t) == t \div Window
WindowEnd(b) == (b + 1) * Window

Init ==
  /\ store \in {"redis", "memory"}
  /\ now = 0
  /\ key = [b \in 0..Bucket(Horizon) |-> NoKey]
  /\ window = [count |-> 0, start |-> 0]
  /\ hit = [r \in Requests |-> [at |-> "idle", t |-> 0, late |-> FALSE, resetAt |-> 0, failed |-> FALSE]]

\* A key is gone once its time to live has passed.
Elapse ==
  /\ now < Horizon
  /\ now' = now + 1
  /\ key' = [b \in DOMAIN key |-> IF key[b].expires <= now' THEN NoKey ELSE key[b]]
  /\ UNCHANGED <<store, window, hit>>

\* count > max: 429 with the time left, else the request goes on.
Decide(r, count, resetAt, failed) ==
  hit' = [hit EXCEPT ![r].at = IF count > Allowed THEN "refused" ELSE "passed",
                     ![r].late = IF hit[r].at = "expire" THEN hit[r].late ELSE now > resetAt,
                     ![r].resetAt = resetAt, ![r].failed = failed]

\* Requests are numbered as they come.
Comes(r) == hit[r].at = "idle" /\ \A q \in 1..(r - 1) : hit[q].at # "idle"

Arrive(r) ==
  /\ store = "redis" /\ Comes(r)
  /\ hit' = [hit EXCEPT ![r].at = "incr", ![r].t = now]
  /\ UNCHANGED <<store, now, key, window>>

\* The first request of a window has the time to live still to set.
Incr(r) ==
  /\ hit[r].at = "incr"
  /\ LET b == Bucket(hit[r].t)
         count == key[b].count + 1
     IN /\ key' = [key EXCEPT ![b].count = count]
        /\ IF count = 1 THEN hit' = [hit EXCEPT ![r].at = "expire", ![r].late = now > WindowEnd(b)]
           ELSE Decide(r, count, WindowEnd(b), FALSE)
  /\ UNCHANGED <<store, now, window>>

Expire(r) ==
  /\ hit[r].at = "expire"
  /\ LET b == Bucket(hit[r].t)
     IN /\ key' = [key EXCEPT ![b].expires = IF key[b].count = 0 THEN Never ELSE now + Window + 1]
        /\ Decide(r, 1, WindowEnd(b), FALSE)
  /\ UNCHANGED <<store, now, window>>

\* Either call fails, INCR before or after Redis counted: fails open.
RedisFails(r) ==
  /\ hit[r].at \in {"incr", "expire"}
  /\ \/ UNCHANGED key
     \/ hit[r].at = "incr" /\ key' = [key EXCEPT ![Bucket(hit[r].t)].count = @ + 1]
  /\ Decide(r, 1, WindowEnd(Bucket(hit[r].t)), TRUE)
  /\ UNCHANGED <<store, now, window>>

\* In memory a window begins with a request, and all of it is one step.
HitMemory(r) ==
  /\ store = "memory" /\ Comes(r)
  /\ window' = IF window.count = 0 \/ now - window.start >= Window
               THEN [count |-> 1, start |-> now]
               ELSE [window EXCEPT !.count = @ + 1]
  /\ hit' = [hit EXCEPT ![r].t = now, ![r].resetAt = window'.start + Window,
                        ![r].at = IF window'.count > Allowed THEN "refused" ELSE "passed"]
  /\ UNCHANGED <<store, now, key>>

Next ==
  \/ Elapse
  \/ \E r \in Requests : Arrive(r) \/ Incr(r) \/ Expire(r) \/ RedisFails(r) \/ HitMemory(r)

----------------------------------------------------------------------------

\* No window lets more through than it allows, whatever the order of the two
\* calls of overlapping requests, but for those let through because Redis
\* failed and those that reached Redis after their window (rateLimit.ts:31-38).
WindowsHold ==
  \A resetAt \in {hit[r].resetAt : r \in Requests} :
    Cardinality({r \in Requests : /\ hit[r].at = "passed" /\ ~hit[r].failed
                                  /\ hit[r].resetAt = resetAt /\ ~hit[r].late}) <= Allowed

\* A request is refused for those before it in its window, never for more.
RefusedForCause ==
  \A r \in Requests :
    hit[r].at = "refused" =>
      /\ hit[r].t < hit[r].resetAt /\ hit[r].resetAt <= hit[r].t + Window
      /\ Cardinality({q \in Requests : hit[q].at # "idle" /\ hit[q].t < hit[r].resetAt
                                       /\ hit[q].t + Window >= hit[r].resetAt}) > Allowed

\* A key is without a time to live only while its first request is about to
\* set it, or after that one failed (rateLimit.ts:53-63).
KeysExpire ==
  \A b \in DOMAIN key :
    key[b].count > 0 /\ key[b].expires = Never =>
      \E r \in Requests : Bucket(hit[r].t) = b /\ (hit[r].at = "expire" \/ hit[r].failed)

RateIsLimited == WindowsHold /\ RefusedForCause /\ KeysExpire
=============================================================================
