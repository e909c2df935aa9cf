------------------------------ MODULE EventLog ------------------------------
(***************************************************************************)
(* The replay log of one job (createMongoEventLogStore in apps/worker/src/ *)
(* services/workerAnalysisService.ts).  The processor calls append for     *)
(* each message without awaiting it, so appends overlap; append reads the  *)
(* greatest seq, creates the next one, and starts over when the unique     *)
(* index {jobId, seq} says that it lost the race.  A message is its        *)
(* position in the order of emission.                                      *)
(***************************************************************************)
EXTENDS Naturals

CONSTANTS
  Messages,   \* how many messages the job emits
  Attempts,   \* the bound of the retry loop, 5 in the code
  Faults      \* whether Mongo may fail for another reason

Message == 1..Messages

ASSUME LogAssumption ==
  Messages \in Nat /\ Attempts \in Nat \ {0} /\ Faults \in BOOLEAN

VARIABLES
  docs,       \* the job's documents in jobevents
  writer      \* the append call of each message

vars == <<docs, writer>>

Doc == [seq : Nat, msg : Message]
Writer == [at : {"idle", "find", "create", "stored", "dropped", "failed"},
           seq : Nat, attempt : 0..(Attempts - 1)]

TypeOK == docs \subseteq Doc /\ writer \in [Message -> Writer]

Init ==
  /\ docs = {}
  /\ writer = [m \in Message |-> [at |-> "idle", seq |-> 0, attempt |-> 0]]

Taken == {d.seq : d \in docs}

\* Mutant: counts from 1 when the log is empty.
NextSeqFromOne(n) == /\ \A s \in Taken : s < n
                     /\ n - 1 \in Taken \/ n = 1

\* last ? last.seq + 1 : 0
IsNextSeq(n) == /\ \A s \in Taken : s < n
                /\ n = 0 \/ n - 1 \in Taken

\* append is called; it runs on its own from here.
append(m) ==
  /\ writer[m].at = "idle"
  /\ writer' = [writer EXCEPT ![m].at = "find"]
  /\ UNCHANGED docs

FindLast(m) ==
  /\ writer[m].at = "find"
  /\ \E n \in 0..Messages :
       /\ IsNextSeq(n)
       /\ writer' = [writer EXCEPT ![m].at = "create", ![m].seq = n]
  /\ UNCHANGED docs

Create(m) ==
  /\ writer[m].at = "create"
  /\ writer[m].seq \notin Taken
  /\ docs' = docs \cup {[seq |-> writer[m].seq, msg |-> m]}
  /\ writer' = [writer EXCEPT ![m].at = "stored"]

\* E11000: recompute the seq, or warn and give up after the last attempt.
LoseRace(m) ==
  /\ writer[m].at = "create"
  /\ writer[m].seq \in Taken
  /\ IF writer[m].attempt + 1 < Attempts
     THEN writer' = [writer EXCEPT ![m].at = "find", ![m].attempt = @ + 1]
     ELSE writer' = [writer EXCEPT ![m].at = "dropped"]
  /\ UNCHANGED docs

\* Any other error is warned about and swallowed.
Fault(m) ==
  /\ Faults
  /\ writer[m].at \in {"find", "create"}
  /\ writer' = [writer EXCEPT ![m].at = "failed"]
  /\ UNCHANGED docs

Step(m) == FindLast(m) \/ Create(m) \/ LoseRace(m)

\* The processor emits in order and does not wait.
Emit(m) ==
  /\ \A n \in 1..(m - 1) : writer[n].at # "idle"
  /\ append(m)

Next == \E m \in Message : Emit(m) \/ Step(m) \/ Fault(m)

Spec == Init /\ [][Next]_vars
\* Mongo answers.
FairSpec == Spec /\ \A m \in Message : WF_vars(Step(m))

----------------------------------------------------------------------------

\* The log has no holes and no two documents in one place, however the appends
\* race: read in seq order it is a sequence.
Dense ==
  /\ \A d, e \in docs : d.seq = e.seq => d = e
  /\ \A d \in docs : \A n \in 0..d.seq : n \in Taken

\* The best-effort log stores a message once or not at all.
StoredOnce ==
  /\ \A d \in docs : writer[d.msg].at = "stored"
  /\ \A d, e \in docs : d.msg = e.msg => d = e
  /\ \A m \in Message : writer[m].at = "stored" => \E d \in docs : d.msg = m

\* A message the database did not refuse is given up only after it lost to as
\* many others as there are attempts.
DroppedOnlyWhenCrowded ==
  \A m \in Message :
    writer[m].at = "dropped" => \A n \in 0..(Attempts - 1) : n \in Taken

\* An append that was started ends, so the processor can await the last one.
Appending == \E m \in Message : writer[m].at \in {"find", "create"}
AppendsEnd == Appending ~> ~Appending

\* An attempt is spent on a place that is taken, and the next one aims above
\* it: the places below an append's aim are all taken.
TriesTaken ==
  \A m \in Message :
    /\ writer[m].at \in {"idle", "find"} =>
         \A n \in 0..(writer[m].attempt - 1) : n \in Taken
    /\ writer[m].at = "create" =>
         /\ writer[m].attempt <= writer[m].seq
         /\ \A n \in 0..(writer[m].seq - 1) : n \in Taken

\* Why messages are dropped only in a crowd, and the log has no holes.
RaceInv ==
  /\ Dense
  /\ StoredOnce
  /\ TriesTaken
  /\ DroppedOnlyWhenCrowded
=============================================================================
