---------------------------- MODULE RunContract ----------------------------
(***************************************************************************)
(* What a caller of runPipeline is promised, whatever the schedule: stages *)
(* are dealt with one at a time in declared order, each completed stage    *)
(* computed its slices from the slices of the stages before it, and the    *)
(* status is what the records say.  Only then is a slice corrected.  No    *)
(* concurrency, no launching, no speculation.                              *)
(***************************************************************************)
EXTENDS Naturals, Sequences

CONSTANTS N, Ingest, AI, Slice, Optional, Owns, Reads, Evidence, Corrected

Stage == 1..N
Det == Stage \ AI

VARIABLES next, adopted, slices, seen, records, status

vars == <<next, adopted, slices, seen, records, status>>

Init ==
  /\ next = 1
  /\ adopted = {}                       \* stages taken over from a cached analysis
  /\ slices = [k \in Slice |-> "none"]
  /\ seen = [s \in Stage |-> [k \in Reads[s] |-> "unread"]]  \* by a completed stage
  /\ records = <<>>
  /\ status = "none"

Recorded(st) == {s \in Stage : \E n \in DOMAIN records :
                   records[n] = [stage |-> s, status |-> st]}

Record(s, st) == records' = Append(records, [stage |-> s, status |-> st])

Open == status = "none"

\* The cache answers for the whole run, before any stage but Ingest.
Answer ==
  /\ Open /\ next \in {1, Ingest + 1}
  /\ status' \in {"cacheHit", "rejected"}
  /\ UNCHANGED <<next, adopted, slices, seen, records>>

\* The cache contributes every deterministic slice and some AI ones.
Adopt ==
  /\ Open /\ next \in {1, Ingest + 1}
  /\ adopted = {}
  /\ adopted' \in {S \in SUBSET Stage : Det \subseteq S /\ S # Stage}
  /\ slices' = [k \in Slice |-> IF \E s \in adopted' : k \in Owns[s]
                                THEN "cached" ELSE slices[k]]
  /\ UNCHANGED seen

Complete ==
  /\ Open /\ next \in Stage \ adopted
  /\ \E made \in SUBSET Owns[next] :
       /\ Owns[next] \ Optional \subseteq made
       /\ slices' = [k \in Slice |-> IF k \in made THEN "fresh" ELSE slices[k]]
  /\ seen' = [seen EXCEPT ![next] = [k \in Reads[next] |-> slices[k]]]
  /\ Record(next, "completed")
  /\ UNCHANGED <<adopted, status>>

Reuse ==
  /\ Open /\ next \in adopted
  /\ Record(next, "completed")
  /\ UNCHANGED <<adopted, slices, seen, status>>

Fail ==
  /\ Open /\ next \in Stage \ adopted
  /\ Recorded("failed") \cap Det = {}
  /\ Record(next, "failed")
  /\ UNCHANGED <<adopted, slices, seen, status>>

\* The cache could not be asked after Ingest: the completed stage is recorded
\* a second time, as failed.
Discredit ==
  /\ Open /\ next = Ingest + 1 /\ next > 1
  /\ adopted = {} /\ Recorded("failed") = {}
  /\ Record(Ingest, "failed")
  /\ UNCHANGED <<next, adopted, slices, seen, status>>

Skip ==
  /\ Open /\ next \in Stage \ adopted
  /\ Record(next, "skipped")
  /\ UNCHANGED <<adopted, slices, seen, status>>

\* Once stages are skipped nothing else is run.
Stopped == Recorded("skipped") # {} \/ Recorded("failed") \cap Det # {}

StatusOf ==
  IF Recorded("failed") \cap Det # {} THEN "failed"
  ELSE IF Recorded("skipped") # {} THEN "aborted"
  ELSE IF Recorded("failed") # {} THEN "partial"
  ELSE "completed"

Conclude ==
  /\ Open /\ next = N + 1
  /\ status' = StatusOf
  /\ \/ UNCHANGED slices
     \/ /\ slices[Evidence] # "none" /\ slices[Corrected] = "fresh"
        /\ slices' = [slices EXCEPT ![Corrected] = "reconciled"]
  /\ UNCHANGED <<next, adopted, seen, records>>

Next ==
  \/ Answer \/ Discredit
  \/ Adopt /\ UNCHANGED <<next, records, status>>
  \/ /\ \/ Reuse \/ Skip
        \/ ~Stopped /\ (Complete \/ Fail)
     /\ next' = next + 1
  \/ Conclude

Spec == Init /\ [][Next]_vars
=============================================================================
