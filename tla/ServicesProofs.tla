---------------------------- MODULE ServicesProofs ----------------------------
(***************************************************************************)
(* What the small stateful parts promise (DashboardIsHonest and            *)
(* BoundsAreKept), for any targets, windows, pools, jobs and numbers of    *)
(* attempts, requests, registrations and kills.                            *)
(***************************************************************************)
EXTENDS MCServices, FiniteSetTheorems, FunctionTheorems, TLAPS

----------------------------------------------------------------------------
(* The replay log: no holes, a message once, and none lost but in a crowd.  *)

\* The log and its writers keep their types.
LEMMA LogType == Spec => []TypeOK
<1> USE LogAssumption
<1>1. Init => TypeOK
  BY DEF Init, TypeOK, Writer
<1>2. TypeOK /\ [Next]_vars => TypeOK'
  <2> SUFFICES ASSUME TypeOK, [Next]_vars PROVE TypeOK'
    OBVIOUS
  <2> USE DEF TypeOK, Writer
  <2>1. ASSUME NEW m \in Message, append(m) PROVE TypeOK'
    BY <2>1 DEF append
  <2>2. ASSUME NEW m \in Message, FindLast(m) PROVE TypeOK'
    <3>1. PICK n \in 0..Messages :
            writer' = [writer EXCEPT ![m].at = "create", ![m].seq = n]
      BY <2>2 DEF FindLast
    <3>2. n \in Nat /\ writer[m] \in Writer
      OBVIOUS
    <3>3. writer'[m] = [at |-> "create", seq |-> n, attempt |-> writer[m].attempt]
      BY <3>1
    <3>4. \A k \in Message : writer'[k] = IF k = m THEN writer'[m] ELSE writer[k]
      BY <3>1
    <3>5. writer' \in [Message -> Writer]
      BY <3>1, <3>2, <3>3, <3>4
    <3> QED
      BY <2>2, <3>5 DEF FindLast
  <2>3. ASSUME NEW m \in Message, Create(m) PROVE TypeOK'
    BY <2>3 DEF Create, Doc
  <2>4. ASSUME NEW m \in Message, LoseRace(m) PROVE TypeOK'
    BY <2>4 DEF LoseRace
  <2>5. ASSUME NEW m \in Message, Fault(m) PROVE TypeOK'
    BY <2>5 DEF Fault
  <2>6. CASE UNCHANGED vars
    BY <2>6 DEF vars
  <2> QED
    BY <2>1, <2>2, <2>3, <2>4, <2>5, <2>6 DEF Next, Emit, Step
<1> QED
  BY <1>1, <1>2, PTL DEF Spec

\* A seq that IsNextSeq allows is above every one that is taken, with none
\* left out below it.
LEMMA NextSeqFills ==
  ASSUME Dense, TypeOK, NEW n \in Nat, IsNextSeq(n)
  PROVE  \A k \in 0..(n - 1) : k \in Taken
<1>1. CASE n = 0
  BY <1>1
<1>2. CASE n # 0
  <2>1. PICK d \in docs : d.seq = n - 1
    BY <1>2 DEF IsNextSeq, Taken
  <2> QED
    BY <2>1 DEF Dense
<1> QED
  BY <1>1, <1>2

\* What the moves of one writer need to keep RaceInv while the log stays.
LEMMA QuietStep ==
  ASSUME TypeOK, RaceInv, UNCHANGED docs, NEW m \in Message, NEW w \in Writer,
         writer' = [writer EXCEPT ![m] = w],
         writer[m].at # "stored", w.at # "stored",
         w.at \in {"idle", "find"} => \A n \in 0..(w.attempt - 1) : n \in Taken,
         w.at = "create" => /\ w.attempt <= w.seq
                            /\ \A n \in 0..(w.seq - 1) : n \in Taken,
         w.at = "dropped" => \A n \in 0..(Attempts - 1) : n \in Taken
  PROVE  RaceInv'
<1> USE LogAssumption DEF RaceInv
<1>1. Dense' /\ Taken' = Taken
  BY DEF Dense, Taken
<1>2. \A n \in Message : writer'[n] = IF n = m THEN w ELSE writer[n]
  BY DEF TypeOK
<1>3. StoredOnce'
  BY <1>2 DEF StoredOnce, TypeOK, Doc
<1>4. TriesTaken'
  BY <1>1, <1>2 DEF TriesTaken
<1>5. DroppedOnlyWhenCrowded'
  BY <1>1, <1>2 DEF DroppedOnlyWhenCrowded
<1> QED
  BY <1>1, <1>3, <1>4, <1>5

\* One step keeps RaceInv.
LEMMA RaceStep ==
  ASSUME TypeOK, RaceInv, [Next]_vars
  PROVE  RaceInv'
<1> USE LogAssumption
<1>1. ASSUME NEW m \in Message, append(m) PROVE RaceInv'
  <2> DEFINE w == [at |-> "find", seq |-> writer[m].seq, attempt |-> writer[m].attempt]
  <2>1. /\ w \in Writer /\ writer' = [writer EXCEPT ![m] = w]
        /\ UNCHANGED docs /\ writer[m].at = "idle"
    <3>1. writer[m] \in Writer
      BY DEF TypeOK
    <3>2. w \in Writer /\ w = [writer[m] EXCEPT !.at = "find"]
      BY <3>1 DEF Writer
    <3> HIDE DEF w
    <3> QED
      BY <1>1, <3>2 DEF append
  <2>2. \A n \in 0..(w.attempt - 1) : n \in Taken
    BY <2>1 DEF RaceInv, TriesTaken
  <2> HIDE DEF w
  <2> QED
    BY <2>1, <2>2, QuietStep DEF w
<1>2. ASSUME NEW m \in Message, FindLast(m) PROVE RaceInv'
  <2>1. PICK n \in 0..Messages :
          /\ IsNextSeq(n)
          /\ writer' = [writer EXCEPT ![m].at = "create", ![m].seq = n]
    BY <1>2 DEF FindLast
  <2> DEFINE w == [at |-> "create", seq |-> n, attempt |-> writer[m].attempt]
  <2>2. n \in Nat /\ (\A k \in 0..(n - 1) : k \in Taken) /\ n \notin Taken
    <3>1. n \in Nat /\ Dense
      BY DEF RaceInv
    <3>2. \A k \in 0..(n - 1) : k \in Taken
      BY <2>1, <3>1, NextSeqFills
    <3>3. n \notin Taken
      BY <2>1, <3>1 DEF IsNextSeq
    <3> QED
      BY <3>1, <3>2, <3>3
  <2>3. /\ w \in Writer /\ writer' = [writer EXCEPT ![m] = w]
        /\ UNCHANGED docs /\ writer[m].at = "find"
    BY <1>2, <2>1, <2>2 DEF FindLast, TypeOK, Writer
  <2>4. writer[m].attempt <= n
    <3>1. writer[m].attempt \in Nat /\ \A k \in 0..(writer[m].attempt - 1) : k \in Taken
      BY <2>3 DEF RaceInv, TriesTaken, TypeOK, Writer
    <3> QED
      BY <2>2, <3>1
  <2> HIDE DEF w
  <2> QED
    BY <2>2, <2>3, <2>4, QuietStep DEF w
<1>3. ASSUME NEW m \in Message, Create(m) PROVE RaceInv'
  <2> DEFINE new == [seq |-> writer[m].seq, msg |-> m]
  <2>1. writer[m] \in Writer /\ new \in Doc /\ docs' = docs \cup {new}
    BY <1>3 DEF Create, TypeOK, Writer, Doc
  <2>2. /\ writer[m].at = "create" /\ writer[m].seq \notin Taken
        /\ \A n \in 0..(writer[m].seq - 1) : n \in Taken
    BY <1>3 DEF Create, RaceInv, TriesTaken
  <2>3. Taken' = Taken \cup {writer[m].seq}
    BY <2>1 DEF Taken
  <2>4. \A n \in Message : /\ writer'[n].at = IF n = m THEN "stored" ELSE writer[n].at
                           /\ writer'[n].seq = writer[n].seq
                           /\ writer'[n].attempt = writer[n].attempt
    BY <1>3 DEF Create, TypeOK, Writer
  <2>5. Dense'
    <3>1. \A d \in docs : d.seq # new.seq
      BY <2>2 DEF Taken
    <3>2. \A d, e \in docs' : d.seq = e.seq => d = e
      BY <2>1, <3>1 DEF RaceInv, Dense
    <3>3. \A n \in 0..new.seq : n \in Taken'
      BY <2>1, <2>2, <2>3 DEF Writer
    <3>4. \A d \in docs' : \A n \in 0..d.seq : n \in Taken'
      BY <2>1, <2>3, <3>3 DEF RaceInv, Dense
    <3> QED
      BY <3>2, <3>4 DEF Dense
  <2>6. StoredOnce'
    <3>1. \A d \in docs : d.msg # m /\ d.msg \in Message
      BY <2>2 DEF RaceInv, StoredOnce, TypeOK, Doc
    <3> QED
      BY <2>1, <2>4, <3>1 DEF RaceInv, StoredOnce
  <2>7. TriesTaken'
    BY <2>3, <2>4 DEF RaceInv, TriesTaken
  <2>8. DroppedOnlyWhenCrowded'
    BY <2>3, <2>4 DEF RaceInv, DroppedOnlyWhenCrowded
  <2> QED
    BY <2>5, <2>6, <2>7, <2>8 DEF RaceInv
<1>4. ASSUME NEW m \in Message, LoseRace(m) PROVE RaceInv'
  <2>1. /\ writer[m] \in Writer /\ UNCHANGED docs /\ writer[m].at = "create"
        /\ writer[m].seq \in Taken
        /\ writer[m].attempt <= writer[m].seq
        /\ \A n \in 0..(writer[m].seq - 1) : n \in Taken
    BY <1>4 DEF LoseRace, TypeOK, RaceInv, TriesTaken
  <2>2. \A n \in 0..writer[m].attempt : n \in Taken
    BY <2>1 DEF Writer
  <2>3. CASE writer[m].attempt + 1 < Attempts
    <3> DEFINE w == [at |-> "find", seq |-> writer[m].seq, attempt |-> writer[m].attempt + 1]
    <3>1. w \in Writer /\ writer' = [writer EXCEPT ![m] = w]
      BY <1>4, <2>1, <2>3 DEF LoseRace, TypeOK, Writer
    <3>2. \A n \in 0..(w.attempt - 1) : n \in Taken
      BY <2>1, <2>2 DEF Writer
    <3> HIDE DEF w
    <3> QED
      BY <2>1, <3>1, <3>2, QuietStep DEF w
  <2>4. CASE ~(writer[m].attempt + 1 < Attempts)
    <3> DEFINE w == [at |-> "dropped", seq |-> writer[m].seq, attempt |-> writer[m].attempt]
    <3>1. w \in Writer /\ writer' = [writer EXCEPT ![m] = w]
      BY <1>4, <2>1, <2>4 DEF LoseRace, TypeOK, Writer
    <3>2. \A n \in 0..(Attempts - 1) : n \in Taken
      BY <2>1, <2>2, <2>4 DEF Writer
    <3> HIDE DEF w
    <3> QED
      BY <2>1, <3>1, <3>2, QuietStep DEF w
  <2> QED
    BY <2>3, <2>4
<1>5. ASSUME NEW m \in Message, Fault(m) PROVE RaceInv'
  <2> DEFINE w == [at |-> "failed", seq |-> writer[m].seq, attempt |-> writer[m].attempt]
  <2>1. /\ w \in Writer /\ writer' = [writer EXCEPT ![m] = w] /\ UNCHANGED docs
        /\ writer[m].at \in {"find", "create"}
    <3>1. writer[m] \in Writer
      BY DEF TypeOK
    <3>2. w \in Writer /\ w = [writer[m] EXCEPT !.at = "failed"]
      BY <3>1 DEF Writer
    <3> HIDE DEF w
    <3> QED
      BY <1>5, <3>2 DEF Fault
  <2> HIDE DEF w
  <2> QED
    BY <2>1, QuietStep DEF w
<1>6. CASE UNCHANGED vars
  BY <1>6 DEF vars, RaceInv, StoredOnce, TriesTaken, DroppedOnlyWhenCrowded, Dense, Taken
<1> QED
  BY <1>1, <1>2, <1>3, <1>4, <1>5, <1>6 DEF Next, Emit, Step

\* However the appends race, the log stays a sequence, each message is in it
\* once, and a message is given up only when others fill the places it tried.
THEOREM RaceInvariant == Spec => []RaceInv
<1>1. Init => RaceInv
  BY LogAssumption DEF Init, RaceInv, Dense, StoredOnce, TriesTaken, DroppedOnlyWhenCrowded, Taken
<1>2. TypeOK /\ TypeOK' /\ RaceInv /\ [Next]_vars => RaceInv'
  BY RaceStep
<1> QED
  BY <1>1, <1>2, LogType, PTL DEF Spec

\* The log read by the API has no holes, database faults or not.
THEOREM LogIsDense == Spec => []Dense
<1>1. RaceInv => Dense
  BY DEF RaceInv
<1> QED
  BY <1>1, RaceInvariant, PTL

\* Races alone lose a message only in a crowd of Attempts others.
THEOREM LossNeedsACrowd == Spec => []DroppedOnlyWhenCrowded
<1>1. RaceInv => DroppedOnlyWhenCrowded
  BY DEF RaceInv
<1> QED
  BY <1>1, RaceInvariant, PTL

----------------------------------------------------------------------------
(* The browser's driver                                                     *)

\* A job is not watched, shown or asked about before it was created, and its
\* creation is asked for once.
Unasked(j) ==
  sent["tick"][j] = 0 /\ sent["getJob"][j] = 0 /\ sent["getResult"][j] = 0 /\ sent["ask"][j] = 0

JobSound(j) ==
  /\ sent["create"][j] <= 1
  /\ j > analyses => server[j] = "none" /\ sent["create"][j] = 0
  /\ sent["create"][j] > 0 => server[j] = "none"
  /\ server[j] = "none" =>
       j # jobId /\ j # activeJob /\ j \notin streams /\ j \notin intervals /\ Unasked(j)
  /\ j \in streams => j \notin intervals

JobsInv == \A j \in D!Job : JobSound(j)

\* What is shown is of the active job, and its stream is the one to close.
RefsInv ==
  /\ jobId \in {D!None, activeJob}
  /\ activeJob \in streams => source = activeJob
  /\ jobId = D!None => stage = "none" /\ activeJob \notin streams
  /\ analyses > 0 => target = Targets[analyses]
  /\ phase = "ready" /\ jobId # D!None => result = jobId

\* An analysis that began alone is the only one anything is open for.
NothingOlder ==
  \A j \in D!Job : j # analyses =>
    j \notin streams /\ j \notin intervals /\ sent["create"][j] = 0 /\ Unasked(j)

Watched ==
  /\ jobId \in {D!None, analyses}
  /\ analyses \in intervals => pollRef = analyses
  /\ analyses \in streams => source = analyses
  /\ analyses \in D!Job /\ sent["ask"][analyses] > 0 => jobId = analyses
  /\ askAbout # D!None => askAbout = jobId

Closed ==
  settled => /\ streams = {} /\ intervals = {}
             /\ analyses \in D!Job /\ server[analyses] # "none"

FailedForCause == phase = "failed" => refused \/ server[activeJob] = "failed"

CalmInv == calm => NothingOlder /\ Watched /\ Closed /\ FailedForCause

DashboardType ==
  /\ phase \in {"idle", "starting", "running", "ready", "failed"}
  /\ stage \in {"none", "running", "completed"}
  /\ jobId \in D!Job \cup {D!None} /\ result \in D!Job \cup {D!None}
  /\ askAbout \in D!Job \cup {D!None} /\ activeJob \in D!Job \cup {D!None}
  /\ source \in D!Job \cup {D!None} /\ pollRef \in D!Job \cup {D!None}
  /\ streams \subseteq D!Job /\ intervals \subseteq D!Job
  /\ analyses \in 0..Len(Targets)
  /\ sent \in [D!Kinds -> [D!Job -> Nat]]
  /\ server \in [D!Job -> {"none", "running", "completed", "failed"}]
  /\ calm \in BOOLEAN /\ settled \in BOOLEAN

DashboardInv == DashboardType /\ JobsInv /\ RefsInv /\ CalmInv

\* A request is sent or answered.
LEMMA Counted ==
  ASSUME sent \in [D!Kinds -> [D!Job -> Nat]], NEW k \in D!Kinds, NEW j \in D!Job, NEW n \in Int,
         sent[k][j] + n >= 0
  PROVE  LET after == [sent EXCEPT ![k][j] = @ + n]
         IN /\ after \in [D!Kinds -> [D!Job -> Nat]]
            /\ after[k][j] = sent[k][j] + n
            /\ \A h \in D!Kinds, i \in D!Job : h # k \/ i # j => after[h][i] = sent[h][i]
<1>1. sent[k] \in [D!Job -> Nat] /\ sent[k][j] + n \in Nat
  OBVIOUS
<1>2. [sent[k] EXCEPT ![j] = @ + n] \in [D!Job -> Nat]
  BY <1>1
<1> QED BY <1>1, <1>2

\* Nothing is asked for, open or shown when the page opens.
LEMMA DashboardStarts == D!Init => DashboardInv
<1> SUFFICES ASSUME D!Init PROVE DashboardInv
  OBVIOUS
<1> USE DEF D!Init, D!None, D!Job, D!Kinds
<1>1. DashboardType
  <2>1. sent \in [D!Kinds -> [D!Job -> Nat]]
    OBVIOUS
  <2>2. analyses \in 0..Len(Targets)
    BY ServicesAssumption
  <2>3. server \in [D!Job -> {"none", "running", "completed", "failed"}]
    OBVIOUS
  <2> QED BY <2>1, <2>2, <2>3 DEF DashboardType
<1>2. JobsInv
  BY ServicesAssumption DEF JobsInv, JobSound, Unasked
<1>3. RefsInv /\ CalmInv
  BY ServicesAssumption DEF RefsInv, CalmInv, NothingOlder, Watched, Closed, FailedForCause, Unasked
<1> QED BY <1>1, <1>2, <1>3 DEF DashboardInv

\* The requests of one kind about one job, n more or -n fewer.
Moved(kind, j, n) ==
  /\ sent' \in [D!Kinds -> [D!Job -> Nat]]
  /\ sent'[kind][j] = sent[kind][j] + n
  /\ \A h \in D!Kinds, x \in D!Job : h # kind \/ x # j => sent'[h][x] = sent[h][x]

\* One of a kind is answered and one of another goes out.
Followed(kind, next, j) ==
  /\ sent' \in [D!Kinds -> [D!Job -> Nat]]
  /\ sent'[kind][j] = sent[kind][j] - 1 /\ sent'[next][j] = sent[next][j] + 1
  /\ \A h \in D!Kinds, x \in D!Job : (h # kind /\ h # next) \/ x # j => sent'[h][x] = sent[h][x]

\* An answer takes one request of its kind away.
LEMMA AnsweredMoves ==
  ASSUME DashboardType, NEW kind \in D!Kinds, NEW j \in D!Job, D!InFlight(kind, j), D!Answered(kind, j)
  PROVE  Moved(kind, j, -1) /\ sent[kind][j] > 0
<1>1. sent \in [D!Kinds -> [D!Job -> Nat]] /\ sent[kind][j] + (-1) >= 0
  BY DEF DashboardType, D!InFlight
<1>2. sent' = [sent EXCEPT ![kind][j] = @ + (-1)]
  BY <1>1 DEF D!Answered
<1> QED BY <1>1, <1>2, Counted DEF Moved, D!InFlight

\* A request goes out.
LEMMA SendMoves ==
  ASSUME DashboardType, NEW kind \in D!Kinds, NEW j \in D!Job,
         sent' = [sent EXCEPT ![kind][j] = @ + 1]
  PROVE  Moved(kind, j, 1)
BY Counted DEF DashboardType, Moved

\* An answer is followed by a request of another kind about the same job.
LEMMA FollowMoves ==
  ASSUME DashboardType, NEW kind \in D!Kinds, NEW next \in D!Kinds, NEW j \in D!Job, kind # next,
         D!InFlight(kind, j),
         sent' = [sent EXCEPT ![kind][j] = @ - 1, ![next][j] = @ + 1]
  PROVE  Followed(kind, next, j) /\ sent[kind][j] > 0
<1>1. sent \in [D!Kinds -> [D!Job -> Nat]] /\ sent[kind][j] > 0
  BY DEF DashboardType, D!InFlight
<1> DEFINE b == [sent EXCEPT ![kind] = [sent[kind] EXCEPT ![j] = sent[kind][j] - 1],
                             ![next] = [sent[next] EXCEPT ![j] = sent[next][j] + 1]]
<1>2. sent' = b
  BY <1>1
<1>3. [sent[kind] EXCEPT ![j] = sent[kind][j] - 1] \in [D!Job -> Nat]
  BY <1>1
<1>4. [sent[next] EXCEPT ![j] = sent[next][j] + 1] \in [D!Job -> Nat]
  BY <1>1
<1>5. b \in [D!Kinds -> [D!Job -> Nat]]
  BY <1>1, <1>3, <1>4
<1>6. b[kind][j] = sent[kind][j] - 1 /\ b[next][j] = sent[next][j] + 1
  BY <1>1, <1>3, <1>4
<1>7. ASSUME NEW h \in D!Kinds, NEW x \in D!Job, (h # kind /\ h # next) \/ x # j
      PROVE  b[h][x] = sent[h][x]
  <2>1. CASE h # kind /\ h # next
    BY <2>1, <1>1
  <2>2. CASE h = kind
    BY <2>2, <1>1, <1>3, <1>7
  <2>3. CASE h = next
    BY <2>3, <1>1, <1>4, <1>7
  <2> QED BY <2>1, <2>2, <2>3
<1> HIDE DEF b
<1>8. sent' \in [D!Kinds -> [D!Job -> Nat]]
  BY <1>2, <1>5
<1>9. sent'[kind][j] = sent[kind][j] - 1 /\ sent'[next][j] = sent[next][j] + 1
  BY <1>2, <1>6
<1>10. \A h \in D!Kinds, x \in D!Job : (h # kind /\ h # next) \/ x # j => sent'[h][x] = sent[h][x]
  BY <1>2, <1>7
<1> QED BY <1>1, <1>8, <1>9, <1>10 DEF Followed

\* The job ends.
LEMMA ServeKeeps ==
  ASSUME DashboardInv, NEW j \in D!Job, D!Serve(j)
  PROVE  DashboardInv'
<1> USE DEF D!None
<1>0. DashboardType /\ JobsInv /\ RefsInv /\ CalmInv
  BY DEF DashboardInv
<1>1. /\ server[j] = "running" /\ \E end \in {"completed", "failed"} : server' = [server EXCEPT ![j] = end]
      /\ UNCHANGED <<phase, target, jobId, stage, result, askAbout, asking, source, streams, pollRef,
                     intervals, activeJob, settled, sent, analyses, calm, refused>>
  BY DEF D!shown, D!asked, D!channels, D!refs, D!Serve
<1>2. DashboardType'
  BY <1>0, <1>1 DEF DashboardType
<1>3. ASSUME NEW x \in D!Job PROVE JobSound(x)'
  <2>1. JobSound(x) /\ JobSound(j) /\ j \in Nat \ {0} /\ x \in Nat \ {0}
    BY <1>0, ServicesAssumption DEF JobsInv, D!Job
  <2>2. sent'["create"][x] \in Nat /\ sent["create"][x] \in Nat /\ analyses \in Nat
    BY <1>0, <1>1 DEF DashboardType, D!Kinds
  <2>3. CASE x = j
    BY <2>1, <2>2, <2>3, <1>0, <1>1 DEF JobSound, Unasked, DashboardType, D!Kinds, RefsInv
  <2>4. CASE x # j
    BY <2>1, <2>2, <2>4, <1>0, <1>1 DEF JobSound, Unasked, DashboardType, D!Kinds, RefsInv
  <2> QED BY <2>3, <2>4
<1>4. RefsInv'
  BY <1>0, <1>1, ServicesAssumption DEF DashboardType, D!Job, JobsInv, JobSound, Unasked, RefsInv, D!Kinds
<1>5. CalmInv'
  BY <1>0, <1>1 DEF DashboardType, JobsInv, JobSound, Unasked, RefsInv, CalmInv, NothingOlder, Watched,
     Closed, FailedForCause, D!Kinds
<1> QED BY <1>2, <1>3, <1>4, <1>5 DEF DashboardInv, JobsInv

\* A stream goes silent: nothing the invariant speaks of changes.
LEMMA GoesSilentKeeps ==
  ASSUME DashboardInv, NEW j \in D!Job, D!GoesSilent(j)
  PROVE  DashboardInv'
<1>1. UNCHANGED <<phase, target, jobId, stage, result, askAbout, asking, source, streams, pollRef,
                  intervals, activeJob, settled, sent, server, analyses, calm, refused>>
  BY DEF D!shown, D!asked, D!refs, D!GoesSilent
<1>2. DashboardType' /\ RefsInv'
  BY <1>1 DEF DashboardInv, DashboardType, RefsInv
<1>3. JobsInv'
  BY <1>1 DEF DashboardInv, JobsInv, JobSound, Unasked
<1>4. CalmInv'
  BY <1>1 DEF DashboardInv, CalmInv, NothingOlder, Unasked, Watched, Closed, FailedForCause
<1> QED BY <1>2, <1>3, <1>4 DEF DashboardInv

\* The job is made: it is the active one, watched by a stream or by polling.
LEMMA CreatedKeeps ==
  ASSUME DashboardInv, NEW j \in D!Job, D!created(j)
  PROVE  DashboardInv'
<1> USE DEF D!None
<1>0. DashboardType /\ JobsInv /\ RefsInv /\ CalmInv
  BY DEF DashboardInv
<1>1. CASE D!Answered("create", j) /\ streams' = streams \cup {j} /\ source' = j /\ UNCHANGED <<pollRef, intervals>>
  <2>1. /\ Moved("create", j, -1) /\ sent["create"][j] > 0
        /\ streams' = streams \cup {j} /\ source' = j /\ pollRef' = pollRef /\ intervals' = intervals
        /\ activeJob' = j /\ phase' = "running" /\ jobId' = j
        /\ server' \in [D!Job -> {"none", "running", "completed", "failed"}]
        /\ server'[j] = "running" /\ \A y \in D!Job : y # j => server'[y] = server[y]
        /\ UNCHANGED <<target, stage, result, askAbout, asking, settled, analyses, calm, refused>>
    <3>1. Moved("create", j, -1) /\ sent["create"][j] > 0
      BY <1>1, <1>0, AnsweredMoves DEF D!Kinds, D!created
    <3>2. /\ streams' = streams \cup {j} /\ source' = j /\ pollRef' = pollRef /\ intervals' = intervals
          /\ activeJob' = j /\ phase' = "running" /\ jobId' = j
          /\ server' \in [D!Job -> {"none", "running", "completed", "failed"}]
          /\ server'[j] = "running" /\ \A y \in D!Job : y # j => server'[y] = server[y]
          /\ UNCHANGED <<target, stage, result, askAbout, asking, settled, analyses, calm, refused>>
      BY <1>1, <1>0 DEF DashboardType, D!shown, D!asked, D!channels, D!refs, D!created
    <3> QED BY <3>1, <3>2
  <2>2. DashboardType'
    BY <1>0, <2>1 DEF Moved, DashboardType
  <2>3. ASSUME NEW x \in D!Job PROVE JobSound(x)'
    <3>1. JobSound(x) /\ JobSound(j) /\ j \in Nat \ {0} /\ x \in Nat \ {0}
      BY <1>0, ServicesAssumption DEF JobsInv, D!Job
    <3>2. sent'["create"][x] \in Nat /\ sent["create"][x] \in Nat /\ analyses \in Nat
      BY <1>0, <2>1 DEF Moved, DashboardType, D!Kinds
    <3>5. sent'["create"][j] = 0
      <4>1. sent["create"][j] \in Nat /\ sent["create"][j] <= 1 /\ sent["create"][j] > 0
        BY <3>1, <1>0, <2>1 DEF DashboardType, D!Kinds, JobSound
      <4>2. sent'["create"][j] = sent["create"][j] - 1
        BY <2>1 DEF Moved, D!Kinds
      <4> QED BY <4>1, <4>2
    <3>6. server[j] = "none" /\ j \notin streams /\ j \notin intervals /\ ~(j > analyses)
      BY <3>1, <2>1 DEF JobSound
    <3>3. CASE x = j
      BY <3>5, <3>6, <3>1, <3>3, <2>1 DEF JobSound
    <3>4. CASE x # j
      BY <3>1, <3>2, <3>4, <1>0, <2>1 DEF Moved, JobSound, Unasked, DashboardType, D!Kinds, RefsInv
    <3> QED BY <3>3, <3>4
  <2>4. RefsInv'
    BY <1>0, <2>1, ServicesAssumption
       DEF Moved, DashboardType, D!Job, JobsInv, JobSound, Unasked, RefsInv, D!Kinds
  <2>5. CalmInv'
    <3> SUFFICES ASSUME calm PROVE (NothingOlder /\ Watched /\ Closed /\ FailedForCause)'
      BY <2>1 DEF CalmInv
    <3>1. NothingOlder /\ Watched /\ Closed /\ FailedForCause /\ j = analyses /\ analyses' = analyses /\ JobSound(j)
      BY <1>0, <2>1 DEF CalmInv, NothingOlder, JobsInv, Unasked, D!Kinds
    <3>2. NothingOlder'
      BY <3>1, <2>1 DEF Moved, NothingOlder, Unasked, D!Kinds
    <3>3. Watched'
      BY <3>1, <1>0, <2>1 DEF Moved, Watched, JobSound, Unasked, DashboardType, RefsInv, D!Kinds
    <3>6. streams \subseteq {j} /\ intervals \subseteq {j}
      BY <3>1, <1>0 DEF NothingOlder, DashboardType
    <3>4. Closed'
      BY <3>6, <3>1, <1>0, <2>1
         DEF Moved, Watched, Closed, JobSound, Unasked, DashboardType, RefsInv, D!Kinds
    <3>5. FailedForCause'
      BY <3>1, <1>0, <2>1 DEF Moved, FailedForCause, JobSound, DashboardType, D!Kinds
    <3> QED BY <3>2, <3>3, <3>4, <3>5
  <2> QED BY <2>2, <2>3, <2>4, <2>5 DEF DashboardInv, JobsInv
<1>2. CASE /\ sent' = [sent EXCEPT !["create"][j] = @ - 1, !["tick"][j] = @ + 1]
            /\ source' = D!None /\ UNCHANGED streams /\ intervals' = intervals \cup {j} /\ pollRef' = j
  <2>1. /\ Followed("create", "tick", j) /\ sent["create"][j] > 0
        /\ source' = D!None /\ streams' = streams /\ intervals' = intervals \cup {j} /\ pollRef' = j
        /\ activeJob' = j /\ phase' = "running" /\ jobId' = j
        /\ server' \in [D!Job -> {"none", "running", "completed", "failed"}]
        /\ server'[j] = "running" /\ \A y \in D!Job : y # j => server'[y] = server[y]
        /\ UNCHANGED <<target, stage, result, askAbout, asking, settled, analyses, calm, refused>>
    <3>1. Followed("create", "tick", j) /\ sent["create"][j] > 0
      BY <1>2, <1>0, FollowMoves DEF D!Kinds, D!created
    <3>2. /\ source' = D!None /\ streams' = streams /\ intervals' = intervals \cup {j} /\ pollRef' = j
          /\ activeJob' = j /\ phase' = "running" /\ jobId' = j
          /\ server' \in [D!Job -> {"none", "running", "completed", "failed"}]
          /\ server'[j] = "running" /\ \A y \in D!Job : y # j => server'[y] = server[y]
          /\ UNCHANGED <<target, stage, result, askAbout, asking, settled, analyses, calm, refused>>
      BY <1>2, <1>0 DEF DashboardType, D!shown, D!asked, D!channels, D!refs, D!created
    <3> QED BY <3>1, <3>2
  <2>2. DashboardType'
    BY <1>0, <2>1 DEF Followed, DashboardType
  <2>3. ASSUME NEW x \in D!Job PROVE JobSound(x)'
    <3>1. JobSound(x) /\ JobSound(j) /\ j \in Nat \ {0} /\ x \in Nat \ {0}
      BY <1>0, ServicesAssumption DEF JobsInv, D!Job
    <3>2. sent'["create"][x] \in Nat /\ sent["create"][x] \in Nat /\ analyses \in Nat
      BY <1>0, <2>1 DEF Followed, DashboardType, D!Kinds
    <3>5. sent'["create"][j] = 0
      <4>1. sent["create"][j] \in Nat /\ sent["create"][j] <= 1 /\ sent["create"][j] > 0
        BY <3>1, <1>0, <2>1 DEF DashboardType, D!Kinds, JobSound
      <4>2. sent'["create"][j] = sent["create"][j] - 1
        BY <2>1 DEF Followed, D!Kinds
      <4> QED BY <4>1, <4>2
    <3>6. server[j] = "none" /\ j \notin streams /\ j \notin intervals /\ ~(j > analyses)
      BY <3>1, <2>1 DEF JobSound
    <3>3. CASE x = j
      BY <3>5, <3>6, <3>1, <3>3, <2>1 DEF JobSound
    <3>4. CASE x # j
      BY <3>1, <3>2, <3>4, <1>0, <2>1 DEF Followed, JobSound, Unasked, DashboardType, D!Kinds, RefsInv
    <3> QED BY <3>3, <3>4
  <2>4. RefsInv'
    BY <1>0, <2>1, ServicesAssumption
       DEF Followed, DashboardType, D!Job, JobsInv, JobSound, Unasked, RefsInv, D!Kinds
  <2>5. CalmInv'
    <3> SUFFICES ASSUME calm PROVE (NothingOlder /\ Watched /\ Closed /\ FailedForCause)'
      BY <2>1 DEF CalmInv
    <3>1. NothingOlder /\ Watched /\ Closed /\ FailedForCause /\ j = analyses /\ analyses' = analyses /\ JobSound(j)
      BY <1>0, <2>1 DEF CalmInv, NothingOlder, JobsInv, Unasked, D!Kinds
    <3>2. NothingOlder'
      BY <3>1, <2>1 DEF Followed, NothingOlder, Unasked, D!Kinds
    <3>3. Watched'
      BY <3>1, <1>0, <2>1 DEF Followed, Watched, JobSound, Unasked, DashboardType, RefsInv, D!Kinds
    <3>6. streams \subseteq {j} /\ intervals \subseteq {j}
      BY <3>1, <1>0 DEF NothingOlder, DashboardType
    <3>4. Closed'
      BY <3>6, <3>1, <1>0, <2>1
         DEF Followed, Watched, Closed, JobSound, Unasked, DashboardType, RefsInv, D!Kinds
    <3>5. FailedForCause'
      BY <3>1, <1>0, <2>1 DEF Followed, FailedForCause, JobSound, DashboardType, D!Kinds
    <3> QED BY <3>2, <3>3, <3>4, <3>5
  <2> QED BY <2>2, <2>3, <2>4, <2>5 DEF DashboardInv, JobsInv
<1> QED BY <1>1, <1>2 DEF D!created, D!Answered, D!InFlight

\* It is refused.
LEMMA CreateFailsKeeps ==
  ASSUME DashboardInv, NEW j \in D!Job, D!createFails(j)
  PROVE  DashboardInv'
<1> USE DEF D!None
<1>0. DashboardType /\ JobsInv /\ RefsInv /\ CalmInv
  BY DEF DashboardInv
<1>1. /\ Moved("create", j, -1) /\ sent["create"][j] > 0 /\ phase' = "failed" /\ refused' = TRUE
      /\ UNCHANGED <<target, jobId, stage, result, askAbout, asking, source, streams, pollRef,
                     intervals, activeJob, settled, server, analyses, calm>>
  <2>1. Moved("create", j, -1) /\ sent["create"][j] > 0
    BY <1>0, AnsweredMoves DEF D!Kinds, D!createFails
  <2>2. /\ phase' = "failed" /\ refused' = TRUE
        /\ UNCHANGED <<target, jobId, stage, result, askAbout, asking, source, streams, pollRef,
                       intervals, activeJob, settled, server, analyses, calm>>
    BY DEF D!shown, D!asked, D!channels, D!refs, D!createFails, D!fail
  <2> QED BY <2>1, <2>2
<1>2. DashboardType'
  BY <1>0, <1>1 DEF Moved, DashboardType
<1>3. ASSUME NEW x \in D!Job PROVE JobSound(x)'
  <2>1. JobSound(x) /\ JobSound(j) /\ j \in Nat \ {0} /\ x \in Nat \ {0}
    BY <1>0, ServicesAssumption DEF JobsInv, D!Job
  <2>2. sent'["create"][x] \in Nat /\ sent["create"][x] \in Nat /\ analyses \in Nat
    BY <1>0, <1>1 DEF Moved, DashboardType, D!Kinds
  <2>3. CASE x = j
    BY <2>1, <2>2, <2>3, <1>0, <1>1 DEF Moved, JobSound, Unasked, DashboardType, D!Kinds, RefsInv
  <2>4. CASE x # j
    BY <2>1, <2>2, <2>4, <1>0, <1>1 DEF Moved, JobSound, Unasked, DashboardType, D!Kinds, RefsInv
  <2> QED BY <2>3, <2>4
<1>4. RefsInv'
  BY <1>0, <1>1, ServicesAssumption
     DEF Moved, DashboardType, D!Job, JobsInv, JobSound, Unasked, RefsInv, D!Kinds
<1>5. CalmInv'
  <2> SUFFICES ASSUME calm PROVE (NothingOlder /\ Watched /\ Closed /\ FailedForCause)'
    BY <1>1 DEF CalmInv
  <2>1. NothingOlder /\ Watched /\ Closed /\ FailedForCause /\ j = analyses /\ analyses' = analyses /\ JobSound(j)
    BY <1>0, <1>1 DEF CalmInv, NothingOlder, JobsInv, Unasked, Moved, D!Kinds
  <2>2. NothingOlder'
    BY <2>1, <1>1 DEF Moved, NothingOlder, Unasked, D!Kinds
  <2>3. Watched'
    BY <2>1, <1>0, <1>1 DEF Moved, Watched, JobSound, Unasked, DashboardType, RefsInv, D!Kinds
  <2>6. streams \subseteq {j} /\ intervals \subseteq {j}
    BY <2>1, <1>0 DEF NothingOlder, DashboardType
  <2>4. Closed'
    BY <2>6, <2>1, <1>0, <1>1
       DEF Moved, Watched, Closed, JobSound, Unasked, DashboardType, RefsInv, D!Kinds
  <2>5. FailedForCause'
    BY <2>1, <1>0, <1>1 DEF Moved, FailedForCause, JobSound, DashboardType, D!Kinds
  <2> QED BY <2>2, <2>3, <2>4, <2>5
<1> QED BY <1>2, <1>3, <1>4, <1>5 DEF DashboardInv, JobsInv

\* A stage's event is shown.
LEMMA StageEventKeeps ==
  ASSUME DashboardInv, NEW j \in D!Job, D!onStageEvent(j)
  PROVE  DashboardInv'
<1> USE DEF D!None
<1>0. DashboardType /\ JobsInv /\ RefsInv /\ CalmInv
  BY DEF DashboardInv
<1>1. /\ j \in streams /\ activeJob = j /\ stage' \in {"running", "completed", stage}
      /\ UNCHANGED <<phase, target, jobId, result, askAbout, asking, source, streams, pollRef,
                     intervals, activeJob, settled, sent, server, analyses, calm, refused>>
  BY DEF D!shown, D!asked, D!channels, D!refs, D!onStageEvent, D!merge, D!terminal
<1>2. DashboardType'
  BY <1>0, <1>1 DEF DashboardType
<1>3. ASSUME NEW x \in D!Job PROVE JobSound(x)'
  <2>1. JobSound(x) /\ JobSound(j) /\ j \in Nat \ {0} /\ x \in Nat \ {0}
    BY <1>0, ServicesAssumption DEF JobsInv, D!Job
  <2>2. sent'["create"][x] \in Nat /\ sent["create"][x] \in Nat /\ analyses \in Nat
    BY <1>0, <1>1 DEF DashboardType, D!Kinds
  <2>3. CASE x = j
    BY <2>1, <2>2, <2>3, <1>0, <1>1 DEF JobSound, Unasked, DashboardType, D!Kinds, RefsInv
  <2>4. CASE x # j
    BY <2>1, <2>2, <2>4, <1>0, <1>1 DEF JobSound, Unasked, DashboardType, D!Kinds, RefsInv
  <2> QED BY <2>3, <2>4
<1>4. RefsInv'
  BY <1>0, <1>1, ServicesAssumption DEF DashboardType, D!Job, JobsInv, JobSound, Unasked, RefsInv, D!Kinds
<1>5. CalmInv'
  <2> SUFFICES ASSUME calm PROVE (NothingOlder /\ Watched /\ Closed /\ FailedForCause)'
    BY <1>1 DEF CalmInv
  <2>1. NothingOlder /\ Watched /\ Closed /\ FailedForCause /\ j = analyses /\ analyses' = analyses /\ JobSound(j)
    BY <1>0, <1>1 DEF CalmInv, NothingOlder, JobsInv, Unasked, D!Kinds
  <2>2. NothingOlder'
    BY <2>1, <1>1 DEF NothingOlder, Unasked, D!Kinds
  <2>3. Watched'
    BY <2>1, <1>0, <1>1 DEF Watched, JobSound, Unasked, DashboardType, RefsInv, D!Kinds
  <2>6. streams \subseteq {j} /\ intervals \subseteq {j}
    BY <2>1, <1>0 DEF NothingOlder, DashboardType
  <2>4. Closed'
    BY <2>6, <2>1, <1>0, <1>1 DEF Watched, Closed, JobSound, Unasked, DashboardType, RefsInv, D!Kinds
  <2>5. FailedForCause'
    BY <2>1, <1>0, <1>1 DEF FailedForCause, JobSound, DashboardType, D!Kinds
  <2> QED BY <2>2, <2>3, <2>4, <2>5
<1> QED BY <1>2, <1>3, <1>4, <1>5 DEF DashboardInv, JobsInv

\* The stream says that the job is done.
LEMMA DoneKeeps ==
  ASSUME DashboardInv, NEW j \in D!Job, D!onDone(j)
  PROVE  DashboardInv'
<1> USE DEF D!None
<1>0. DashboardType /\ JobsInv /\ RefsInv /\ CalmInv
  BY DEF DashboardInv
<1>1. CASE settled \/ activeJob # j
  <2>1. /\ j \in streams /\ streams' = streams \ {j}
        /\ UNCHANGED <<phase, target, jobId, stage, result, askAbout, asking, source, pollRef,
                       intervals, activeJob, settled, sent, server, analyses, calm, refused>>
    BY <1>1 DEF D!shown, D!asked, D!channels, D!refs, D!onDone, D!Send
  <2>2. DashboardType'
    BY <1>0, <2>1, <1>1 DEF DashboardType
  <2>3. ASSUME NEW x \in D!Job PROVE JobSound(x)'
    <3>1. JobSound(x) /\ JobSound(j) /\ j \in Nat \ {0} /\ x \in Nat \ {0}
      BY <1>0, ServicesAssumption DEF JobsInv, D!Job
    <3>2. sent'["create"][x] \in Nat /\ sent["create"][x] \in Nat /\ analyses \in Nat
      BY <1>0, <2>1 DEF DashboardType, D!Kinds
    <3>3. CASE x = j
      BY <3>1, <3>2, <3>3, <1>0, <2>1, <1>1 DEF JobSound, Unasked, DashboardType, D!Kinds, RefsInv
    <3>4. CASE x # j
      BY <3>1, <3>2, <3>4, <1>0, <2>1, <1>1 DEF JobSound, Unasked, DashboardType, D!Kinds, RefsInv
    <3> QED BY <3>3, <3>4
  <2>4. RefsInv'
    BY <1>0, <2>1, <1>1, ServicesAssumption
       DEF DashboardType, D!Job, JobsInv, JobSound, Unasked, RefsInv, D!Kinds
  <2>5. CalmInv'
    <3> SUFFICES ASSUME calm PROVE (NothingOlder /\ Watched /\ Closed /\ FailedForCause)'
      BY <2>1 DEF CalmInv
    <3>1. NothingOlder /\ Watched /\ Closed /\ FailedForCause /\ j = analyses /\ analyses' = analyses /\ JobSound(j)
      BY <1>0, <2>1, <1>1 DEF CalmInv, NothingOlder, JobsInv, Unasked, D!Kinds
    <3>2. NothingOlder'
      BY <3>1, <2>1, <1>1 DEF NothingOlder, Unasked, D!Kinds
    <3>3. Watched'
      BY <3>1, <1>0, <2>1, <1>1 DEF Watched, JobSound, Unasked, DashboardType, RefsInv, D!Kinds
    <3>6. streams \subseteq {j} /\ intervals \subseteq {j}
      BY <3>1, <1>0 DEF NothingOlder, DashboardType
    <3>4. Closed'
      BY <3>6, <3>1, <1>0, <2>1, <1>1
         DEF Watched, Closed, JobSound, Unasked, DashboardType, RefsInv, D!Kinds
    <3>5. FailedForCause'
      BY <3>1, <1>0, <2>1, <1>1 DEF FailedForCause, JobSound, DashboardType, D!Kinds
    <3> QED BY <3>2, <3>3, <3>4, <3>5
  <2> QED BY <2>2, <2>3, <2>4, <2>5 DEF DashboardInv, JobsInv
<1>2. CASE ~(settled \/ activeJob # j)
  <2>1. /\ j \in streams /\ streams' = streams \ {j} /\ Moved("getJob", j, 1)
        /\ UNCHANGED <<phase, target, jobId, stage, result, askAbout, asking, source, pollRef,
                       intervals, activeJob, settled, server, analyses, calm, refused>>
    <3>1. Moved("getJob", j, 1)
      BY <1>2, <1>0, SendMoves DEF D!Kinds, D!onDone, D!Send
    <3>2. /\ j \in streams /\ streams' = streams \ {j}
          /\ UNCHANGED <<phase, target, jobId, stage, result, askAbout, asking, source, pollRef,
                         intervals, activeJob, settled, server, analyses, calm, refused>>
      BY <1>2 DEF D!shown, D!asked, D!channels, D!refs, D!onDone
    <3> QED BY <3>1, <3>2
  <2>2. DashboardType'
    BY <1>0, <2>1, <1>2 DEF Moved, DashboardType
  <2>3. ASSUME NEW x \in D!Job PROVE JobSound(x)'
    <3>1. JobSound(x) /\ JobSound(j) /\ j \in Nat \ {0} /\ x \in Nat \ {0}
      BY <1>0, ServicesAssumption DEF JobsInv, D!Job
    <3>2. sent'["create"][x] \in Nat /\ sent["create"][x] \in Nat /\ analyses \in Nat
      BY <1>0, <2>1 DEF Moved, DashboardType, D!Kinds
    <3>3. CASE x = j
      BY <3>1, <3>2, <3>3, <1>0, <2>1, <1>2 DEF Moved, JobSound, Unasked, DashboardType, D!Kinds, RefsInv
    <3>4. CASE x # j
      BY <3>1, <3>2, <3>4, <1>0, <2>1, <1>2 DEF Moved, JobSound, Unasked, DashboardType, D!Kinds, RefsInv
    <3> QED BY <3>3, <3>4
  <2>4. RefsInv'
    BY <1>0, <2>1, <1>2, ServicesAssumption
       DEF Moved, DashboardType, D!Job, JobsInv, JobSound, Unasked, RefsInv, D!Kinds
  <2>5. CalmInv'
    <3> SUFFICES ASSUME calm PROVE (NothingOlder /\ Watched /\ Closed /\ FailedForCause)'
      BY <2>1 DEF CalmInv
    <3>1. NothingOlder /\ Watched /\ Closed /\ FailedForCause /\ j = analyses /\ analyses' = analyses /\ JobSound(j)
      BY <1>0, <2>1, <1>2 DEF CalmInv, NothingOlder, JobsInv, Unasked, Moved, D!Kinds
    <3>2. NothingOlder'
      BY <3>1, <2>1, <1>2 DEF Moved, NothingOlder, Unasked, D!Kinds
    <3>3. Watched'
      BY <3>1, <1>0, <2>1, <1>2 DEF Moved, Watched, JobSound, Unasked, DashboardType, RefsInv, D!Kinds
    <3>6. streams \subseteq {j} /\ intervals \subseteq {j}
      BY <3>1, <1>0 DEF NothingOlder, DashboardType
    <3>4. Closed'
      BY <3>6, <3>1, <1>0, <2>1, <1>2
         DEF Moved, Watched, Closed, JobSound, Unasked, DashboardType, RefsInv, D!Kinds
    <3>5. FailedForCause'
      BY <3>1, <1>0, <2>1, <1>2 DEF Moved, FailedForCause, JobSound, DashboardType, D!Kinds
    <3> QED BY <3>2, <3>3, <3>4, <3>5
  <2> QED BY <2>2, <2>3, <2>4, <2>5 DEF DashboardInv, JobsInv
<1> QED BY <1>1, <1>2 DEF D!onDone, D!Send

\* The stream breaks.
LEMMA ErrorKeeps ==
  ASSUME DashboardInv, NEW j \in D!Job, D!onError(j)
  PROVE  DashboardInv'
<1> USE DEF D!None
<1>0. DashboardType /\ JobsInv /\ RefsInv /\ CalmInv
  BY DEF DashboardInv
<1>1. CASE activeJob = j /\ ~settled
  <2>1. /\ j \in streams /\ streams' = streams \ {j} /\ Moved("tick", j, 1)
        /\ intervals' = intervals \cup {j} /\ pollRef' = j
        /\ UNCHANGED <<phase, target, jobId, stage, result, askAbout, asking, source, activeJob,
                       settled, server, analyses, calm, refused>>
    <3>1. Moved("tick", j, 1)
      BY <1>1, <1>0, SendMoves DEF D!Kinds, D!onError, D!startPolling
    <3>2. /\ j \in streams /\ streams' = streams \ {j}
          /\ intervals' = intervals \cup {j} /\ pollRef' = j
          /\ UNCHANGED <<phase, target, jobId, stage, result, askAbout, asking, source, activeJob,
                         settled, server, analyses, calm, refused>>
      BY <1>1 DEF D!shown, D!asked, D!channels, D!refs, D!onError, D!startPolling
    <3> QED BY <3>1, <3>2
  <2>2. DashboardType'
    BY <1>0, <2>1, <1>1 DEF Moved, DashboardType
  <2>3. ASSUME NEW x \in D!Job PROVE JobSound(x)'
    <3>1. JobSound(x) /\ JobSound(j) /\ j \in Nat \ {0} /\ x \in Nat \ {0}
      BY <1>0, ServicesAssumption DEF JobsInv, D!Job
    <3>2. sent'["create"][x] \in Nat /\ sent["create"][x] \in Nat /\ analyses \in Nat
      BY <1>0, <2>1 DEF Moved, DashboardType, D!Kinds
    <3>3. CASE x = j
      BY <3>1, <3>2, <3>3, <1>0, <2>1, <1>1 DEF Moved, JobSound, Unasked, DashboardType, D!Kinds, RefsInv
    <3>4. CASE x # j
      BY <3>1, <3>2, <3>4, <1>0, <2>1, <1>1 DEF Moved, JobSound, Unasked, DashboardType, D!Kinds, RefsInv
    <3> QED BY <3>3, <3>4
  <2>4. RefsInv'
    BY <1>0, <2>1, <1>1, ServicesAssumption
       DEF Moved, DashboardType, D!Job, JobsInv, JobSound, Unasked, RefsInv, D!Kinds
  <2>5. CalmInv'
    <3> SUFFICES ASSUME calm PROVE (NothingOlder /\ Watched /\ Closed /\ FailedForCause)'
      BY <2>1 DEF CalmInv
    <3>1. NothingOlder /\ Watched /\ Closed /\ FailedForCause /\ j = analyses /\ analyses' = analyses /\ JobSound(j)
      BY <1>0, <2>1, <1>1 DEF CalmInv, NothingOlder, JobsInv, Unasked, Moved, D!Kinds
    <3>2. NothingOlder'
      BY <3>1, <2>1, <1>1 DEF Moved, NothingOlder, Unasked, D!Kinds
    <3>3. Watched'
      BY <3>1, <1>0, <2>1, <1>1 DEF Moved, Watched, JobSound, Unasked, DashboardType, RefsInv, D!Kinds
    <3>6. streams \subseteq {j} /\ intervals \subseteq {j}
      BY <3>1, <1>0 DEF NothingOlder, DashboardType
    <3>4. Closed'
      BY <3>6, <3>1, <1>0, <2>1, <1>1
         DEF Moved, Watched, Closed, JobSound, Unasked, DashboardType, RefsInv, D!Kinds
    <3>5. FailedForCause'
      BY <3>1, <1>0, <2>1, <1>1 DEF Moved, FailedForCause, JobSound, DashboardType, D!Kinds
    <3> QED BY <3>2, <3>3, <3>4, <3>5
  <2> QED BY <2>2, <2>3, <2>4, <2>5 DEF DashboardInv, JobsInv
<1>2. CASE ~(activeJob = j /\ ~settled)
  <2>1. /\ j \in streams /\ streams' = streams \ {j}
        /\ UNCHANGED <<phase, target, jobId, stage, result, askAbout, asking, source, pollRef,
                       intervals, activeJob, settled, sent, server, analyses, calm, refused>>
    BY <1>2 DEF D!shown, D!asked, D!channels, D!refs, D!onError, D!startPolling
  <2>2. DashboardType'
    BY <1>0, <2>1, <1>2 DEF DashboardType
  <2>3. ASSUME NEW x \in D!Job PROVE JobSound(x)'
    <3>1. JobSound(x) /\ JobSound(j) /\ j \in Nat \ {0} /\ x \in Nat \ {0}
      BY <1>0, ServicesAssumption DEF JobsInv, D!Job
    <3>2. sent'["create"][x] \in Nat /\ sent["create"][x] \in Nat /\ analyses \in Nat
      BY <1>0, <2>1 DEF DashboardType, D!Kinds
    <3>3. CASE x = j
      BY <3>1, <3>2, <3>3, <1>0, <2>1, <1>2 DEF JobSound, Unasked, DashboardType, D!Kinds, RefsInv
    <3>4. CASE x # j
      BY <3>1, <3>2, <3>4, <1>0, <2>1, <1>2 DEF JobSound, Unasked, DashboardType, D!Kinds, RefsInv
    <3> QED BY <3>3, <3>4
  <2>4. RefsInv'
    BY <1>0, <2>1, <1>2, ServicesAssumption
       DEF DashboardType, D!Job, JobsInv, JobSound, Unasked, RefsInv, D!Kinds
  <2>5. CalmInv'
    <3> SUFFICES ASSUME calm PROVE (NothingOlder /\ Watched /\ Closed /\ FailedForCause)'
      BY <2>1 DEF CalmInv
    <3>1. NothingOlder /\ Watched /\ Closed /\ FailedForCause /\ j = analyses /\ analyses' = analyses /\ JobSound(j)
      BY <1>0, <2>1, <1>2 DEF CalmInv, NothingOlder, JobsInv, Unasked, D!Kinds
    <3>2. NothingOlder'
      BY <3>1, <2>1, <1>2 DEF NothingOlder, Unasked, D!Kinds
    <3>3. Watched'
      BY <3>1, <1>0, <2>1, <1>2 DEF Watched, JobSound, Unasked, DashboardType, RefsInv, D!Kinds
    <3>6. streams \subseteq {j} /\ intervals \subseteq {j}
      BY <3>1, <1>0 DEF NothingOlder, DashboardType
    <3>4. Closed'
      BY <3>6, <3>1, <1>0, <2>1, <1>2
         DEF Watched, Closed, JobSound, Unasked, DashboardType, RefsInv, D!Kinds
    <3>5. FailedForCause'
      BY <3>1, <1>0, <2>1, <1>2 DEF FailedForCause, JobSound, DashboardType, D!Kinds
    <3> QED BY <3>2, <3>3, <3>4, <3>5
  <2> QED BY <2>2, <2>3, <2>4, <2>5 DEF DashboardInv, JobsInv
<1> QED BY <1>1, <1>2 DEF D!onError, D!startPolling

\* An interval asks.
LEMMA TickKeeps ==
  ASSUME DashboardInv, NEW j \in D!Job, D!tick(j)
  PROVE  DashboardInv'
<1> USE DEF D!None
<1>0. DashboardType /\ JobsInv /\ RefsInv /\ CalmInv
  BY DEF DashboardInv
<1>1. /\ j \in intervals /\ Moved("tick", j, 1)
      /\ UNCHANGED <<phase, target, jobId, stage, result, askAbout, asking, source, streams, pollRef,
                     intervals, activeJob, settled, server, analyses, calm, refused>>
  <2>1. Moved("tick", j, 1)
    BY <1>0, SendMoves DEF D!Kinds, D!tick, D!Send
  <2>2. /\ j \in intervals
        /\ UNCHANGED <<phase, target, jobId, stage, result, askAbout, asking, source, streams, pollRef,
                       intervals, activeJob, settled, server, analyses, calm, refused>>
    BY DEF D!shown, D!asked, D!channels, D!refs, D!tick
  <2> QED BY <2>1, <2>2
<1>2. DashboardType'
  BY <1>0, <1>1 DEF Moved, DashboardType
<1>3. ASSUME NEW x \in D!Job PROVE JobSound(x)'
  <2>1. JobSound(x) /\ JobSound(j) /\ j \in Nat \ {0} /\ x \in Nat \ {0}
    BY <1>0, ServicesAssumption DEF JobsInv, D!Job
  <2>2. sent'["create"][x] \in Nat /\ sent["create"][x] \in Nat /\ analyses \in Nat
    BY <1>0, <1>1 DEF Moved, DashboardType, D!Kinds
  <2>3. CASE x = j
    BY <2>1, <2>2, <2>3, <1>0, <1>1 DEF Moved, JobSound, Unasked, DashboardType, D!Kinds, RefsInv
  <2>4. CASE x # j
    BY <2>1, <2>2, <2>4, <1>0, <1>1 DEF Moved, JobSound, Unasked, DashboardType, D!Kinds, RefsInv
  <2> QED BY <2>3, <2>4
<1>4. RefsInv'
  BY <1>0, <1>1, ServicesAssumption
     DEF Moved, DashboardType, D!Job, JobsInv, JobSound, Unasked, RefsInv, D!Kinds
<1>5. CalmInv'
  <2> SUFFICES ASSUME calm PROVE (NothingOlder /\ Watched /\ Closed /\ FailedForCause)'
    BY <1>1 DEF CalmInv
  <2>1. NothingOlder /\ Watched /\ Closed /\ FailedForCause /\ j = analyses /\ analyses' = analyses /\ JobSound(j)
    BY <1>0, <1>1 DEF CalmInv, NothingOlder, JobsInv, Unasked, Moved, D!Kinds
  <2>2. NothingOlder'
    BY <2>1, <1>1 DEF Moved, NothingOlder, Unasked, D!Kinds
  <2>3. Watched'
    BY <2>1, <1>0, <1>1 DEF Moved, Watched, JobSound, Unasked, DashboardType, RefsInv, D!Kinds
  <2>6. streams \subseteq {j} /\ intervals \subseteq {j}
    BY <2>1, <1>0 DEF NothingOlder, DashboardType
  <2>4. Closed'
    BY <2>6, <2>1, <1>0, <1>1
       DEF Moved, Watched, Closed, JobSound, Unasked, DashboardType, RefsInv, D!Kinds
  <2>5. FailedForCause'
    BY <2>1, <1>0, <1>1 DEF Moved, FailedForCause, JobSound, DashboardType, D!Kinds
  <2> QED BY <2>2, <2>3, <2>4, <2>5
<1> QED BY <1>2, <1>3, <1>4, <1>5 DEF DashboardInv, JobsInv

\* A tick is answered.
LEMMA TickAnsweredKeeps ==
  ASSUME DashboardInv, NEW j \in D!Job, D!tickAnswered(j)
  PROVE  DashboardInv'
<1> USE DEF D!None
<1>0. DashboardType /\ JobsInv /\ RefsInv /\ CalmInv
  BY DEF DashboardInv
<1>1. CASE ~(activeJob = j /\ D!Ended(j) /\ ~settled)
  <2>1. /\ Moved("tick", j, -1) /\ sent["tick"][j] > 0
        /\ UNCHANGED <<phase, target, jobId, stage, result, askAbout, asking, source, streams, pollRef,
                       intervals, activeJob, settled, server, analyses, calm, refused>>
    <3>1. Moved("tick", j, -1) /\ sent["tick"][j] > 0
      BY <1>1, <1>0, AnsweredMoves DEF D!Kinds, D!tickAnswered, D!settle
    <3>2. /\ UNCHANGED <<phase, target, jobId, stage, result, askAbout, asking, source, streams,
                         pollRef, intervals, activeJob, settled, server, analyses, calm, refused>>
      BY <1>1
         DEF D!shown, D!asked, D!channels, D!refs, D!tickAnswered, D!settle, D!teardown, D!fail, D!Ended
    <3> QED BY <3>1, <3>2
  <2>2. DashboardType'
    BY <1>0, <2>1, <1>1 DEF Moved, DashboardType
  <2>3. ASSUME NEW x \in D!Job PROVE JobSound(x)'
    <3>1. JobSound(x) /\ JobSound(j) /\ j \in Nat \ {0} /\ x \in Nat \ {0}
      BY <1>0, ServicesAssumption DEF JobsInv, D!Job
    <3>2. sent'["create"][x] \in Nat /\ sent["create"][x] \in Nat /\ analyses \in Nat
      BY <1>0, <2>1 DEF Moved, DashboardType, D!Kinds
    <3>3. CASE x = j
      BY <3>1, <3>2, <3>3, <1>0, <2>1, <1>1 DEF Moved, JobSound, Unasked, DashboardType, D!Kinds, RefsInv
    <3>4. CASE x # j
      BY <3>1, <3>2, <3>4, <1>0, <2>1, <1>1 DEF Moved, JobSound, Unasked, DashboardType, D!Kinds, RefsInv
    <3> QED BY <3>3, <3>4
  <2>4. RefsInv'
    BY <1>0, <2>1, <1>1, ServicesAssumption
       DEF Moved, DashboardType, D!Job, JobsInv, JobSound, Unasked, RefsInv, D!Kinds
  <2>5. CalmInv'
    <3> SUFFICES ASSUME calm PROVE (NothingOlder /\ Watched /\ Closed /\ FailedForCause)'
      BY <2>1 DEF CalmInv
    <3>1. NothingOlder /\ Watched /\ Closed /\ FailedForCause /\ j = analyses /\ analyses' = analyses /\ JobSound(j)
      BY <1>0, <2>1, <1>1 DEF CalmInv, NothingOlder, JobsInv, Unasked, D!Kinds
    <3>2. NothingOlder'
      BY <3>1, <2>1, <1>1 DEF Moved, NothingOlder, Unasked, D!Kinds
    <3>3. Watched'
      BY <3>1, <1>0, <2>1, <1>1 DEF Moved, Watched, JobSound, Unasked, DashboardType, RefsInv, D!Kinds
    <3>6. streams \subseteq {j} /\ intervals \subseteq {j}
      BY <3>1, <1>0 DEF NothingOlder, DashboardType
    <3>4. Closed'
      BY <3>6, <3>1, <1>0, <2>1, <1>1
         DEF Moved, Watched, Closed, JobSound, Unasked, DashboardType, RefsInv, D!Kinds
    <3>5. FailedForCause'
      BY <3>1, <1>0, <2>1, <1>1 DEF Moved, FailedForCause, JobSound, DashboardType, D!Kinds
    <3> QED BY <3>2, <3>3, <3>4, <3>5
  <2> QED BY <2>2, <2>3, <2>4, <2>5 DEF DashboardInv, JobsInv
<1>2. CASE (activeJob = j /\ D!Ended(j) /\ ~settled) /\ server[j] = "failed"
  <2>1. /\ Moved("tick", j, -1) /\ sent["tick"][j] > 0 /\ activeJob = j
        /\ settled' = TRUE /\ phase' = "failed"
        /\ intervals' = intervals \ {pollRef} /\ pollRef' = D!None /\ streams' = streams \ {source} /\ source' = D!None
        /\ UNCHANGED <<target, jobId, stage, result, askAbout, asking, activeJob, server, analyses,
                       calm, refused>>
    <3>1. Moved("tick", j, -1) /\ sent["tick"][j] > 0
      BY <1>2, <1>0, AnsweredMoves DEF D!Kinds, D!tickAnswered, D!settle
    <3>2. /\ activeJob = j
          /\ settled' = TRUE /\ phase' = "failed"
          /\ intervals' = intervals \ {pollRef} /\ pollRef' = D!None /\ streams' = streams \ {source} /\ source' = D!None
          /\ UNCHANGED <<target, jobId, stage, result, askAbout, asking, activeJob, server, analyses,
                         calm, refused>>
      BY <1>2
         DEF D!shown, D!asked, D!channels, D!refs, D!tickAnswered, D!settle, D!teardown, D!fail, D!Ended
    <3> QED BY <3>1, <3>2
  <2>2. DashboardType'
    BY <1>0, <2>1, <1>2 DEF Moved, DashboardType
  <2>3. ASSUME NEW x \in D!Job PROVE JobSound(x)'
    <3>1. JobSound(x) /\ JobSound(j) /\ j \in Nat \ {0} /\ x \in Nat \ {0}
      BY <1>0, ServicesAssumption DEF JobsInv, D!Job
    <3>2. sent'["create"][x] \in Nat /\ sent["create"][x] \in Nat /\ analyses \in Nat
      BY <1>0, <2>1 DEF Moved, DashboardType, D!Kinds
    <3>3. CASE x = j
      BY <3>1, <3>2, <3>3, <1>0, <2>1, <1>2 DEF Moved, JobSound, Unasked, DashboardType, D!Kinds, RefsInv
    <3>4. CASE x # j
      BY <3>1, <3>2, <3>4, <1>0, <2>1, <1>2 DEF Moved, JobSound, Unasked, DashboardType, D!Kinds, RefsInv
    <3> QED BY <3>3, <3>4
  <2>4. RefsInv'
    BY <1>0, <2>1, <1>2, ServicesAssumption
       DEF Moved, DashboardType, D!Job, JobsInv, JobSound, Unasked, RefsInv, D!Kinds
  <2>5. CalmInv'
    <3> SUFFICES ASSUME calm PROVE (NothingOlder /\ Watched /\ Closed /\ FailedForCause)'
      BY <2>1 DEF CalmInv
    <3>1. NothingOlder /\ Watched /\ Closed /\ FailedForCause /\ j = analyses /\ analyses' = analyses /\ JobSound(j)
      BY <1>0, <2>1, <1>2 DEF CalmInv, NothingOlder, JobsInv, Unasked, D!Kinds
    <3>2. NothingOlder'
      BY <3>1, <2>1, <1>2 DEF Moved, NothingOlder, Unasked, D!Kinds
    <3>3. Watched'
      BY <3>1, <1>0, <2>1, <1>2 DEF Moved, Watched, JobSound, Unasked, DashboardType, RefsInv, D!Kinds
    <3>6. streams \subseteq {j} /\ intervals \subseteq {j}
      BY <3>1, <1>0 DEF NothingOlder, DashboardType
    <3>4. Closed'
      BY <3>6, <3>1, <1>0, <2>1, <1>2
         DEF Moved, Watched, Closed, JobSound, Unasked, DashboardType, RefsInv, D!Kinds
    <3>5. FailedForCause'
      BY <3>1, <1>0, <2>1, <1>2 DEF Moved, FailedForCause, JobSound, DashboardType, D!Kinds
    <3> QED BY <3>2, <3>3, <3>4, <3>5
  <2> QED BY <2>2, <2>3, <2>4, <2>5 DEF DashboardInv, JobsInv
<1>3. CASE (activeJob = j /\ D!Ended(j) /\ ~settled) /\ server[j] # "failed"
  <2>1. /\ Followed("tick", "getResult", j) /\ sent["tick"][j] > 0 /\ activeJob = j
        /\ settled' = TRUE
        /\ intervals' = intervals \ {pollRef} /\ pollRef' = D!None /\ streams' = streams \ {source} /\ source' = D!None
        /\ UNCHANGED <<phase, target, jobId, stage, result, askAbout, asking, activeJob, server,
                       analyses, calm, refused>>
    <3>1. Followed("tick", "getResult", j) /\ sent["tick"][j] > 0
      BY <1>3, <1>0, FollowMoves DEF D!Kinds, D!tickAnswered, D!settle
    <3>2. /\ activeJob = j
          /\ settled' = TRUE
          /\ intervals' = intervals \ {pollRef} /\ pollRef' = D!None /\ streams' = streams \ {source} /\ source' = D!None
          /\ UNCHANGED <<phase, target, jobId, stage, result, askAbout, asking, activeJob, server,
                         analyses, calm, refused>>
      BY <1>3
         DEF D!shown, D!asked, D!channels, D!refs, D!tickAnswered, D!settle, D!teardown, D!fail, D!Ended
    <3> QED BY <3>1, <3>2
  <2>2. DashboardType'
    BY <1>0, <2>1, <1>3 DEF Followed, DashboardType
  <2>3. ASSUME NEW x \in D!Job PROVE JobSound(x)'
    <3>1. JobSound(x) /\ JobSound(j) /\ j \in Nat \ {0} /\ x \in Nat \ {0}
      BY <1>0, ServicesAssumption DEF JobsInv, D!Job
    <3>2. sent'["create"][x] \in Nat /\ sent["create"][x] \in Nat /\ analyses \in Nat
      BY <1>0, <2>1 DEF Followed, DashboardType, D!Kinds
    <3>3. CASE x = j
      BY <3>1, <3>2, <3>3, <1>0, <2>1, <1>3
         DEF Followed, JobSound, Unasked, DashboardType, D!Kinds, RefsInv
    <3>4. CASE x # j
      BY <3>1, <3>2, <3>4, <1>0, <2>1, <1>3
         DEF Followed, JobSound, Unasked, DashboardType, D!Kinds, RefsInv
    <3> QED BY <3>3, <3>4
  <2>4. RefsInv'
    BY <1>0, <2>1, <1>3, ServicesAssumption
       DEF Followed, DashboardType, D!Job, JobsInv, JobSound, Unasked, RefsInv, D!Kinds
  <2>5. CalmInv'
    <3> SUFFICES ASSUME calm PROVE (NothingOlder /\ Watched /\ Closed /\ FailedForCause)'
      BY <2>1 DEF CalmInv
    <3>1. NothingOlder /\ Watched /\ Closed /\ FailedForCause /\ j = analyses /\ analyses' = analyses /\ JobSound(j)
      BY <1>0, <2>1, <1>3 DEF CalmInv, NothingOlder, JobsInv, Unasked, D!Kinds
    <3>2. NothingOlder'
      BY <3>1, <2>1, <1>3 DEF Followed, NothingOlder, Unasked, D!Kinds
    <3>3. Watched'
      BY <3>1, <1>0, <2>1, <1>3 DEF Followed, Watched, JobSound, Unasked, DashboardType, RefsInv, D!Kinds
    <3>6. streams \subseteq {j} /\ intervals \subseteq {j}
      BY <3>1, <1>0 DEF NothingOlder, DashboardType
    <3>4. Closed'
      BY <3>6, <3>1, <1>0, <2>1, <1>3
         DEF Followed, Watched, Closed, JobSound, Unasked, DashboardType, RefsInv, D!Kinds
    <3>5. FailedForCause'
      BY <3>1, <1>0, <2>1, <1>3 DEF Followed, FailedForCause, JobSound, DashboardType, D!Kinds
    <3> QED BY <3>2, <3>3, <3>4, <3>5
  <2> QED BY <2>2, <2>3, <2>4, <2>5 DEF DashboardInv, JobsInv
<1> QED BY <1>1, <1>2, <1>3 DEF D!tickAnswered, D!settle, D!teardown, D!fail

\* A tick fails.
LEMMA TickFailsKeeps ==
  ASSUME DashboardInv, NEW j \in D!Job, D!tickFails(j)
  PROVE  DashboardInv'
<1> USE DEF D!None
<1>0. DashboardType /\ JobsInv /\ RefsInv /\ CalmInv
  BY DEF DashboardInv
<1>1. /\ Moved("tick", j, -1) /\ sent["tick"][j] > 0 /\ phase' = "failed" /\ refused' = TRUE
      /\ intervals' = intervals \ {pollRef} /\ pollRef' = D!None /\ streams' = streams \ {source} /\ source' = D!None
      /\ UNCHANGED <<target, jobId, stage, result, askAbout, asking, activeJob, settled, server,
                     analyses, calm>>
  <2>1. Moved("tick", j, -1) /\ sent["tick"][j] > 0
    BY <1>0, AnsweredMoves DEF D!Kinds, D!tickFails
  <2>2. /\ phase' = "failed" /\ refused' = TRUE
        /\ intervals' = intervals \ {pollRef} /\ pollRef' = D!None /\ streams' = streams \ {source} /\ source' = D!None
        /\ UNCHANGED <<target, jobId, stage, result, askAbout, asking, activeJob, settled, server,
                       analyses, calm>>
    BY DEF D!shown, D!asked, D!channels, D!refs, D!tickFails, D!teardown, D!fail
  <2> QED BY <2>1, <2>2
<1>2. DashboardType'
  BY <1>0, <1>1 DEF Moved, DashboardType
<1>3. ASSUME NEW x \in D!Job PROVE JobSound(x)'
  <2>1. JobSound(x) /\ JobSound(j) /\ j \in Nat \ {0} /\ x \in Nat \ {0}
    BY <1>0, ServicesAssumption DEF JobsInv, D!Job
  <2>2. sent'["create"][x] \in Nat /\ sent["create"][x] \in Nat /\ analyses \in Nat
    BY <1>0, <1>1 DEF Moved, DashboardType, D!Kinds
  <2>3. CASE x = j
    BY <2>1, <2>2, <2>3, <1>0, <1>1 DEF Moved, JobSound, Unasked, DashboardType, D!Kinds, RefsInv
  <2>4. CASE x # j
    BY <2>1, <2>2, <2>4, <1>0, <1>1 DEF Moved, JobSound, Unasked, DashboardType, D!Kinds, RefsInv
  <2> QED BY <2>3, <2>4
<1>4. RefsInv'
  BY <1>0, <1>1, ServicesAssumption
     DEF Moved, DashboardType, D!Job, JobsInv, JobSound, Unasked, RefsInv, D!Kinds
<1>5. CalmInv'
  <2> SUFFICES ASSUME calm PROVE (NothingOlder /\ Watched /\ Closed /\ FailedForCause)'
    BY <1>1 DEF CalmInv
  <2>1. NothingOlder /\ Watched /\ Closed /\ FailedForCause /\ j = analyses /\ analyses' = analyses /\ JobSound(j)
    BY <1>0, <1>1 DEF CalmInv, NothingOlder, JobsInv, Unasked, Moved, D!Kinds
  <2>2. NothingOlder'
    BY <2>1, <1>1 DEF Moved, NothingOlder, Unasked, D!Kinds
  <2>3. Watched'
    BY <2>1, <1>0, <1>1 DEF Moved, Watched, JobSound, Unasked, DashboardType, RefsInv, D!Kinds
  <2>6. streams \subseteq {j} /\ intervals \subseteq {j}
    BY <2>1, <1>0 DEF NothingOlder, DashboardType
  <2>4. Closed'
    BY <2>6, <2>1, <1>0, <1>1
       DEF Moved, Watched, Closed, JobSound, Unasked, DashboardType, RefsInv, D!Kinds
  <2>5. FailedForCause'
    BY <2>1, <1>0, <1>1 DEF Moved, FailedForCause, JobSound, DashboardType, D!Kinds
  <2> QED BY <2>2, <2>3, <2>4, <2>5
<1> QED BY <1>2, <1>3, <1>4, <1>5 DEF DashboardInv, JobsInv

\* The job that finalize asked for is there.
LEMMA FinalizeAnsweredKeeps ==
  ASSUME DashboardInv, NEW j \in D!Job, D!finalizeAnswered(j)
  PROVE  DashboardInv'
<1> USE DEF D!None
<1>0. DashboardType /\ JobsInv /\ RefsInv /\ CalmInv
  BY DEF DashboardInv
<1>1. CASE ~(activeJob = j)
  <2>1. /\ Moved("getJob", j, -1) /\ sent["getJob"][j] > 0
        /\ UNCHANGED <<phase, target, jobId, stage, result, askAbout, asking, source, streams, pollRef,
                       intervals, activeJob, settled, server, analyses, calm, refused>>
    <3>1. Moved("getJob", j, -1) /\ sent["getJob"][j] > 0
      BY <1>1, <1>0, AnsweredMoves DEF D!Kinds, D!finalizeAnswered, D!settle
    <3>2. /\ UNCHANGED <<phase, target, jobId, stage, result, askAbout, asking, source, streams,
                         pollRef, intervals, activeJob, settled, server, analyses, calm, refused>>
      BY <1>1
         DEF D!shown, D!asked, D!channels, D!refs, D!finalizeAnswered, D!settle, D!teardown, D!fail,
         D!Ended
    <3> QED BY <3>1, <3>2
  <2>2. DashboardType'
    BY <1>0, <2>1, <1>1 DEF Moved, DashboardType
  <2>3. ASSUME NEW x \in D!Job PROVE JobSound(x)'
    <3>1. JobSound(x) /\ JobSound(j) /\ j \in Nat \ {0} /\ x \in Nat \ {0}
      BY <1>0, ServicesAssumption DEF JobsInv, D!Job
    <3>2. sent'["create"][x] \in Nat /\ sent["create"][x] \in Nat /\ analyses \in Nat
      BY <1>0, <2>1 DEF Moved, DashboardType, D!Kinds
    <3>3. CASE x = j
      BY <3>1, <3>2, <3>3, <1>0, <2>1, <1>1 DEF Moved, JobSound, Unasked, DashboardType, D!Kinds, RefsInv
    <3>4. CASE x # j
      BY <3>1, <3>2, <3>4, <1>0, <2>1, <1>1 DEF Moved, JobSound, Unasked, DashboardType, D!Kinds, RefsInv
    <3> QED BY <3>3, <3>4
  <2>4. RefsInv'
    BY <1>0, <2>1, <1>1, ServicesAssumption
       DEF Moved, DashboardType, D!Job, JobsInv, JobSound, Unasked, RefsInv, D!Kinds
  <2>5. CalmInv'
    <3> SUFFICES ASSUME calm PROVE (NothingOlder /\ Watched /\ Closed /\ FailedForCause)'
      BY <2>1 DEF CalmInv
    <3>1. NothingOlder /\ Watched /\ Closed /\ FailedForCause /\ j = analyses /\ analyses' = analyses /\ JobSound(j)
      BY <1>0, <2>1, <1>1 DEF CalmInv, NothingOlder, JobsInv, Unasked, D!Kinds
    <3>2. NothingOlder'
      BY <3>1, <2>1, <1>1 DEF Moved, NothingOlder, Unasked, D!Kinds
    <3>3. Watched'
      BY <3>1, <1>0, <2>1, <1>1 DEF Moved, Watched, JobSound, Unasked, DashboardType, RefsInv, D!Kinds
    <3>6. streams \subseteq {j} /\ intervals \subseteq {j}
      BY <3>1, <1>0 DEF NothingOlder, DashboardType
    <3>4. Closed'
      BY <3>6, <3>1, <1>0, <2>1, <1>1
         DEF Moved, Watched, Closed, JobSound, Unasked, DashboardType, RefsInv, D!Kinds
    <3>5. FailedForCause'
      BY <3>1, <1>0, <2>1, <1>1 DEF Moved, FailedForCause, JobSound, DashboardType, D!Kinds
    <3> QED BY <3>2, <3>3, <3>4, <3>5
  <2> QED BY <2>2, <2>3, <2>4, <2>5 DEF DashboardInv, JobsInv
<1>2. CASE (activeJob = j) /\ server[j] = "failed"
  <2>1. /\ Moved("getJob", j, -1) /\ sent["getJob"][j] > 0 /\ activeJob = j
        /\ settled' = TRUE /\ phase' = "failed"
        /\ intervals' = intervals \ {pollRef} /\ pollRef' = D!None /\ streams' = streams \ {source} /\ source' = D!None
        /\ UNCHANGED <<target, jobId, stage, result, askAbout, asking, activeJob, server, analyses,
                       calm, refused>>
    <3>1. Moved("getJob", j, -1) /\ sent["getJob"][j] > 0
      BY <1>2, <1>0, AnsweredMoves DEF D!Kinds, D!finalizeAnswered, D!settle
    <3>2. /\ activeJob = j
          /\ settled' = TRUE /\ phase' = "failed"
          /\ intervals' = intervals \ {pollRef} /\ pollRef' = D!None /\ streams' = streams \ {source} /\ source' = D!None
          /\ UNCHANGED <<target, jobId, stage, result, askAbout, asking, activeJob, server, analyses,
                         calm, refused>>
      BY <1>2
         DEF D!shown, D!asked, D!channels, D!refs, D!finalizeAnswered, D!settle, D!teardown, D!fail,
         D!Ended
    <3> QED BY <3>1, <3>2
  <2>2. DashboardType'
    BY <1>0, <2>1, <1>2 DEF Moved, DashboardType
  <2>3. ASSUME NEW x \in D!Job PROVE JobSound(x)'
    <3>1. JobSound(x) /\ JobSound(j) /\ j \in Nat \ {0} /\ x \in Nat \ {0}
      BY <1>0, ServicesAssumption DEF JobsInv, D!Job
    <3>2. sent'["create"][x] \in Nat /\ sent["create"][x] \in Nat /\ analyses \in Nat
      BY <1>0, <2>1 DEF Moved, DashboardType, D!Kinds
    <3>3. CASE x = j
      BY <3>1, <3>2, <3>3, <1>0, <2>1, <1>2 DEF Moved, JobSound, Unasked, DashboardType, D!Kinds, RefsInv
    <3>4. CASE x # j
      BY <3>1, <3>2, <3>4, <1>0, <2>1, <1>2 DEF Moved, JobSound, Unasked, DashboardType, D!Kinds, RefsInv
    <3> QED BY <3>3, <3>4
  <2>4. RefsInv'
    BY <1>0, <2>1, <1>2, ServicesAssumption
       DEF Moved, DashboardType, D!Job, JobsInv, JobSound, Unasked, RefsInv, D!Kinds
  <2>5. CalmInv'
    <3> SUFFICES ASSUME calm PROVE (NothingOlder /\ Watched /\ Closed /\ FailedForCause)'
      BY <2>1 DEF CalmInv
    <3>1. NothingOlder /\ Watched /\ Closed /\ FailedForCause /\ j = analyses /\ analyses' = analyses /\ JobSound(j)
      BY <1>0, <2>1, <1>2 DEF CalmInv, NothingOlder, JobsInv, Unasked, D!Kinds
    <3>2. NothingOlder'
      BY <3>1, <2>1, <1>2 DEF Moved, NothingOlder, Unasked, D!Kinds
    <3>3. Watched'
      BY <3>1, <1>0, <2>1, <1>2 DEF Moved, Watched, JobSound, Unasked, DashboardType, RefsInv, D!Kinds
    <3>6. streams \subseteq {j} /\ intervals \subseteq {j}
      BY <3>1, <1>0 DEF NothingOlder, DashboardType
    <3>4. Closed'
      BY <3>6, <3>1, <1>0, <2>1, <1>2
         DEF Moved, Watched, Closed, JobSound, Unasked, DashboardType, RefsInv, D!Kinds
    <3>5. FailedForCause'
      BY <3>1, <1>0, <2>1, <1>2 DEF Moved, FailedForCause, JobSound, DashboardType, D!Kinds
    <3> QED BY <3>2, <3>3, <3>4, <3>5
  <2> QED BY <2>2, <2>3, <2>4, <2>5 DEF DashboardInv, JobsInv
<1>3. CASE (activeJob = j) /\ server[j] # "failed"
  <2>1. /\ Followed("getJob", "getResult", j) /\ sent["getJob"][j] > 0 /\ activeJob = j
        /\ settled' = TRUE
        /\ intervals' = intervals \ {pollRef} /\ pollRef' = D!None /\ streams' = streams \ {source} /\ source' = D!None
        /\ UNCHANGED <<phase, target, jobId, stage, result, askAbout, asking, activeJob, server,
                       analyses, calm, refused>>
    <3>1. Followed("getJob", "getResult", j) /\ sent["getJob"][j] > 0
      BY <1>3, <1>0, FollowMoves DEF D!Kinds, D!finalizeAnswered, D!settle
    <3>2. /\ activeJob = j
          /\ settled' = TRUE
          /\ intervals' = intervals \ {pollRef} /\ pollRef' = D!None /\ streams' = streams \ {source} /\ source' = D!None
          /\ UNCHANGED <<phase, target, jobId, stage, result, askAbout, asking, activeJob, server,
                         analyses, calm, refused>>
      BY <1>3
         DEF D!shown, D!asked, D!channels, D!refs, D!finalizeAnswered, D!settle, D!teardown, D!fail,
         D!Ended
    <3> QED BY <3>1, <3>2
  <2>2. DashboardType'
    BY <1>0, <2>1, <1>3 DEF Followed, DashboardType
  <2>3. ASSUME NEW x \in D!Job PROVE JobSound(x)'
    <3>1. JobSound(x) /\ JobSound(j) /\ j \in Nat \ {0} /\ x \in Nat \ {0}
      BY <1>0, ServicesAssumption DEF JobsInv, D!Job
    <3>2. sent'["create"][x] \in Nat /\ sent["create"][x] \in Nat /\ analyses \in Nat
      BY <1>0, <2>1 DEF Followed, DashboardType, D!Kinds
    <3>3. CASE x = j
      BY <3>1, <3>2, <3>3, <1>0, <2>1, <1>3
         DEF Followed, JobSound, Unasked, DashboardType, D!Kinds, RefsInv
    <3>4. CASE x # j
      BY <3>1, <3>2, <3>4, <1>0, <2>1, <1>3
         DEF Followed, JobSound, Unasked, DashboardType, D!Kinds, RefsInv
    <3> QED BY <3>3, <3>4
  <2>4. RefsInv'
    BY <1>0, <2>1, <1>3, ServicesAssumption
       DEF Followed, DashboardType, D!Job, JobsInv, JobSound, Unasked, RefsInv, D!Kinds
  <2>5. CalmInv'
    <3> SUFFICES ASSUME calm PROVE (NothingOlder /\ Watched /\ Closed /\ FailedForCause)'
      BY <2>1 DEF CalmInv
    <3>1. NothingOlder /\ Watched /\ Closed /\ FailedForCause /\ j = analyses /\ analyses' = analyses /\ JobSound(j)
      BY <1>0, <2>1, <1>3 DEF CalmInv, NothingOlder, JobsInv, Unasked, D!Kinds
    <3>2. NothingOlder'
      BY <3>1, <2>1, <1>3 DEF Followed, NothingOlder, Unasked, D!Kinds
    <3>3. Watched'
      BY <3>1, <1>0, <2>1, <1>3 DEF Followed, Watched, JobSound, Unasked, DashboardType, RefsInv, D!Kinds
    <3>6. streams \subseteq {j} /\ intervals \subseteq {j}
      BY <3>1, <1>0 DEF NothingOlder, DashboardType
    <3>4. Closed'
      BY <3>6, <3>1, <1>0, <2>1, <1>3
         DEF Followed, Watched, Closed, JobSound, Unasked, DashboardType, RefsInv, D!Kinds
    <3>5. FailedForCause'
      BY <3>1, <1>0, <2>1, <1>3 DEF Followed, FailedForCause, JobSound, DashboardType, D!Kinds
    <3> QED BY <3>2, <3>3, <3>4, <3>5
  <2> QED BY <2>2, <2>3, <2>4, <2>5 DEF DashboardInv, JobsInv
<1> QED BY <1>1, <1>2, <1>3 DEF D!finalizeAnswered, D!settle, D!teardown, D!fail

\* The result is there.
LEMMA ResultAnsweredKeeps ==
  ASSUME DashboardInv, NEW j \in D!Job, D!resultAnswered(j)
  PROVE  DashboardInv'
<1> USE DEF D!None
<1>0. DashboardType /\ JobsInv /\ RefsInv /\ CalmInv
  BY DEF DashboardInv
<1>1. /\ Moved("getResult", j, -1) /\ sent["getResult"][j] > 0
      /\ \/ activeJob # j /\ UNCHANGED <<phase, result, refused>>
         \/ activeJob = j /\ phase' = "ready" /\ result' = j /\ UNCHANGED refused
         \/ activeJob = j /\ phase' = "failed" /\ refused' = TRUE /\ UNCHANGED result
      /\ UNCHANGED <<target, jobId, stage, askAbout, asking, source, streams, pollRef, intervals,
                     activeJob, settled, server, analyses, calm>>
  <2>1. Moved("getResult", j, -1) /\ sent["getResult"][j] > 0
    BY <1>0, AnsweredMoves DEF D!Kinds, D!resultAnswered
  <2>2. /\ \/ activeJob # j /\ UNCHANGED <<phase, result, refused>>
           \/ activeJob = j /\ phase' = "ready" /\ result' = j /\ UNCHANGED refused
           \/ activeJob = j /\ phase' = "failed" /\ refused' = TRUE /\ UNCHANGED result
        /\ UNCHANGED <<target, jobId, stage, askAbout, asking, source, streams, pollRef, intervals,
                       activeJob, settled, server, analyses, calm>>
    BY DEF D!shown, D!asked, D!channels, D!refs, D!resultAnswered, D!fail
  <2> QED BY <2>1, <2>2
<1>2. DashboardType'
  BY <1>0, <1>1 DEF Moved, DashboardType
<1>3. ASSUME NEW x \in D!Job PROVE JobSound(x)'
  <2>1. JobSound(x) /\ JobSound(j) /\ j \in Nat \ {0} /\ x \in Nat \ {0}
    BY <1>0, ServicesAssumption DEF JobsInv, D!Job
  <2>2. sent'["create"][x] \in Nat /\ sent["create"][x] \in Nat /\ analyses \in Nat
    BY <1>0, <1>1 DEF Moved, DashboardType, D!Kinds
  <2>3. CASE x = j
    BY <2>1, <2>2, <2>3, <1>0, <1>1 DEF Moved, JobSound, Unasked, DashboardType, D!Kinds, RefsInv
  <2>4. CASE x # j
    BY <2>1, <2>2, <2>4, <1>0, <1>1 DEF Moved, JobSound, Unasked, DashboardType, D!Kinds, RefsInv
  <2> QED BY <2>3, <2>4
<1>4. RefsInv'
  BY <1>0, <1>1, ServicesAssumption
     DEF Moved, DashboardType, D!Job, JobsInv, JobSound, Unasked, RefsInv, D!Kinds
<1>5. CalmInv'
  <2> SUFFICES ASSUME calm PROVE (NothingOlder /\ Watched /\ Closed /\ FailedForCause)'
    BY <1>1 DEF CalmInv
  <2>1. NothingOlder /\ Watched /\ Closed /\ FailedForCause /\ j = analyses /\ analyses' = analyses /\ JobSound(j)
    BY <1>0, <1>1 DEF CalmInv, NothingOlder, JobsInv, Unasked, Moved, D!Kinds
  <2>2. NothingOlder'
    BY <2>1, <1>1 DEF Moved, NothingOlder, Unasked, D!Kinds
  <2>3. Watched'
    BY <2>1, <1>0, <1>1 DEF Moved, Watched, JobSound, Unasked, DashboardType, RefsInv, D!Kinds
  <2>6. streams \subseteq {j} /\ intervals \subseteq {j}
    BY <2>1, <1>0 DEF NothingOlder, DashboardType
  <2>4. Closed'
    BY <2>6, <2>1, <1>0, <1>1
       DEF Moved, Watched, Closed, JobSound, Unasked, DashboardType, RefsInv, D!Kinds
  <2>5. FailedForCause'
    BY <2>1, <1>0, <1>1 DEF Moved, FailedForCause, JobSound, DashboardType, D!Kinds
  <2> QED BY <2>2, <2>3, <2>4, <2>5
<1> QED BY <1>2, <1>3, <1>4, <1>5 DEF DashboardInv, JobsInv

\* Either fails.
LEMMA FinalizeFailsKeeps ==
  ASSUME DashboardInv, NEW j \in D!Job, D!finalizeFails(j)
  PROVE  DashboardInv'
<1> USE DEF D!None
<1>0. DashboardType /\ JobsInv /\ RefsInv /\ CalmInv
  BY DEF DashboardInv
<1>1. /\ \E kind \in {"getJob", "getResult"} : Moved(kind, j, -1) /\ sent[kind][j] > 0
      /\ settled' = TRUE /\ phase' = "failed" /\ refused' = TRUE
      /\ intervals' = intervals \ {pollRef} /\ pollRef' = D!None /\ streams' = streams \ {source} /\ source' = D!None
      /\ UNCHANGED <<target, jobId, stage, result, askAbout, asking, activeJob, server, analyses, calm>>
  <2>1. \E kind \in {"getJob", "getResult"} : Moved(kind, j, -1) /\ sent[kind][j] > 0
    BY <1>0, AnsweredMoves DEF D!Kinds, D!finalizeFails
  <2>2. /\ settled' = TRUE /\ phase' = "failed" /\ refused' = TRUE
        /\ intervals' = intervals \ {pollRef} /\ pollRef' = D!None /\ streams' = streams \ {source} /\ source' = D!None
        /\ UNCHANGED <<target, jobId, stage, result, askAbout, asking, activeJob, server, analyses, calm>>
    BY DEF D!shown, D!asked, D!channels, D!refs, D!finalizeFails, D!teardown, D!fail
  <2> QED BY <2>1, <2>2
<1>2. DashboardType'
  BY <1>0, <1>1 DEF Moved, DashboardType
<1>3. ASSUME NEW x \in D!Job PROVE JobSound(x)'
  <2>1. JobSound(x) /\ JobSound(j) /\ j \in Nat \ {0} /\ x \in Nat \ {0}
    BY <1>0, ServicesAssumption DEF JobsInv, D!Job
  <2>2. sent'["create"][x] \in Nat /\ sent["create"][x] \in Nat /\ analyses \in Nat
    BY <1>0, <1>1 DEF Moved, DashboardType, D!Kinds
  <2>3. CASE x = j
    BY <2>1, <2>2, <2>3, <1>0, <1>1 DEF Moved, JobSound, Unasked, DashboardType, D!Kinds, RefsInv
  <2>4. CASE x # j
    BY <2>1, <2>2, <2>4, <1>0, <1>1 DEF Moved, JobSound, Unasked, DashboardType, D!Kinds, RefsInv
  <2> QED BY <2>3, <2>4
<1>4. RefsInv'
  BY <1>0, <1>1, ServicesAssumption
     DEF Moved, DashboardType, D!Job, JobsInv, JobSound, Unasked, RefsInv, D!Kinds
<1>5. CalmInv'
  <2> SUFFICES ASSUME calm PROVE (NothingOlder /\ Watched /\ Closed /\ FailedForCause)'
    BY <1>1 DEF CalmInv
  <2>1. NothingOlder /\ Watched /\ Closed /\ FailedForCause /\ j = analyses /\ analyses' = analyses /\ JobSound(j)
    BY <1>0, <1>1 DEF CalmInv, NothingOlder, JobsInv, Unasked, Moved, D!Kinds
  <2>2. NothingOlder'
    BY <2>1, <1>1 DEF Moved, NothingOlder, Unasked, D!Kinds
  <2>3. Watched'
    BY <2>1, <1>0, <1>1 DEF Moved, Watched, JobSound, Unasked, DashboardType, RefsInv, D!Kinds
  <2>6. streams \subseteq {j} /\ intervals \subseteq {j}
    BY <2>1, <1>0 DEF NothingOlder, DashboardType
  <2>4. Closed'
    <3>1. streams' = {}
      <4>1. j \in streams => source = j
        BY <2>1 DEF Watched
      <4> QED BY <2>6, <1>1, <4>1
    <3>2. intervals' = {}
      <4>1. j \in intervals => pollRef = j
        BY <2>1 DEF Watched
      <4> QED BY <2>6, <1>1, <4>1
    <3>3. server[j] # "none"
      <4>1. PICK kind \in {"getJob", "getResult"} : sent[kind][j] > 0
        BY <1>1
      <4>2. server[j] = "none" => sent["getJob"][j] = 0 /\ sent["getResult"][j] = 0
        BY <2>1 DEF JobSound, Unasked
      <4>3. sent["getJob"][j] = 0 => ~(sent["getJob"][j] > 0)
        OBVIOUS
      <4>4. sent["getResult"][j] = 0 => ~(sent["getResult"][j] > 0)
        OBVIOUS
      <4> QED BY <4>1, <4>2, <4>3, <4>4
    <3> QED BY <3>1, <3>2, <3>3, <2>1, <1>1 DEF Closed
  <2>5. FailedForCause'
    BY <2>1, <1>0, <1>1 DEF Moved, FailedForCause, JobSound, DashboardType, D!Kinds
  <2> QED BY <2>2, <2>3, <2>4, <2>5
<1> QED BY <1>2, <1>3, <1>4, <1>5 DEF DashboardInv, JobsInv

\* A question is answered.
LEMMA AskAnsweredKeeps ==
  ASSUME DashboardInv, NEW j \in D!Job, D!askAnswered(j)
  PROVE  DashboardInv'
<1> USE DEF D!None
<1>0. DashboardType /\ JobsInv /\ RefsInv /\ CalmInv
  BY DEF DashboardInv
<1>1. /\ Moved("ask", j, -1) /\ sent["ask"][j] > 0 /\ askAbout' \in {j, D!None}
      /\ UNCHANGED <<phase, target, jobId, stage, result, source, streams, pollRef, intervals,
                     activeJob, settled, server, analyses, calm, refused>>
  <2>1. Moved("ask", j, -1) /\ sent["ask"][j] > 0
    BY <1>0, AnsweredMoves DEF D!Kinds, D!askAnswered
  <2>2. /\ askAbout' \in {j, D!None}
        /\ UNCHANGED <<phase, target, jobId, stage, result, source, streams, pollRef, intervals,
                       activeJob, settled, server, analyses, calm, refused>>
    BY DEF D!shown, D!asked, D!channels, D!refs, D!askAnswered
  <2> QED BY <2>1, <2>2
<1>2. DashboardType'
  BY <1>0, <1>1 DEF Moved, DashboardType
<1>3. ASSUME NEW x \in D!Job PROVE JobSound(x)'
  <2>1. JobSound(x) /\ JobSound(j) /\ j \in Nat \ {0} /\ x \in Nat \ {0}
    BY <1>0, ServicesAssumption DEF JobsInv, D!Job
  <2>2. sent'["create"][x] \in Nat /\ sent["create"][x] \in Nat /\ analyses \in Nat
    BY <1>0, <1>1 DEF Moved, DashboardType, D!Kinds
  <2>3. CASE x = j
    BY <2>1, <2>2, <2>3, <1>0, <1>1 DEF Moved, JobSound, Unasked, DashboardType, D!Kinds, RefsInv
  <2>4. CASE x # j
    BY <2>1, <2>2, <2>4, <1>0, <1>1 DEF Moved, JobSound, Unasked, DashboardType, D!Kinds, RefsInv
  <2> QED BY <2>3, <2>4
<1>4. RefsInv'
  BY <1>0, <1>1, ServicesAssumption
     DEF Moved, DashboardType, D!Job, JobsInv, JobSound, Unasked, RefsInv, D!Kinds
<1>5. CalmInv'
  <2> SUFFICES ASSUME calm PROVE (NothingOlder /\ Watched /\ Closed /\ FailedForCause)'
    BY <1>1 DEF CalmInv
  <2>1. NothingOlder /\ Watched /\ Closed /\ FailedForCause /\ j = analyses /\ analyses' = analyses /\ JobSound(j)
    BY <1>0, <1>1 DEF CalmInv, NothingOlder, JobsInv, Unasked, Moved, D!Kinds
  <2>2. NothingOlder'
    BY <2>1, <1>1 DEF Moved, NothingOlder, Unasked, D!Kinds
  <2>3. Watched'
    BY <2>1, <1>0, <1>1 DEF Moved, Watched, JobSound, Unasked, DashboardType, RefsInv, D!Kinds
  <2>6. streams \subseteq {j} /\ intervals \subseteq {j}
    BY <2>1, <1>0 DEF NothingOlder, DashboardType
  <2>4. Closed'
    BY <2>6, <2>1, <1>0, <1>1
       DEF Moved, Watched, Closed, JobSound, Unasked, DashboardType, RefsInv, D!Kinds
  <2>5. FailedForCause'
    BY <2>1, <1>0, <1>1 DEF Moved, FailedForCause, JobSound, DashboardType, D!Kinds
  <2> QED BY <2>2, <2>3, <2>4, <2>5
<1> QED BY <1>2, <1>3, <1>4, <1>5 DEF DashboardInv, JobsInv

\* The user starts another analysis: alone, unless something is still open.
LEMMA AnalyzeKeeps ==
  ASSUME DashboardInv, D!analyze
  PROVE  DashboardInv'
<1> USE DEF D!None
<1> DEFINE j == analyses + 1
<1>0. DashboardType /\ JobsInv /\ RefsInv /\ CalmInv
  BY DEF DashboardInv
<1>1. j \in D!Job /\ analyses \in Nat /\ analyses' = j /\ sent' = [sent EXCEPT !["create"][j] = @ + 1]
  BY <1>0, ServicesAssumption DEF DashboardType, D!Job, D!analyze, D!Send
<1> HIDE DEF j
<1>2. /\ Moved("create", j, 1)
      /\ intervals' = intervals \ {pollRef} /\ pollRef' = D!None /\ streams' = streams \ {source} /\ source' = D!None
      /\ phase' = "starting" /\ target' = Targets[j] /\ jobId' = D!None /\ stage' = "none" /\ result' = D!None
      /\ askAbout' = D!None /\ settled' = FALSE
      /\ UNCHANGED <<activeJob, server>>
  BY <1>0, <1>1, SendMoves DEF D!analyze, D!teardown, D!Kinds
<1>3. calm' \in BOOLEAN /\ (calm' => D!Quiet /\ streams' = {} /\ intervals' = {})
  BY DEF D!analyze
<1>4. DashboardType'
  <2>1. analyses' \in 0..Len(Targets)
    BY <1>1, ServicesAssumption DEF D!Job
  <2>2. sent' \in [D!Kinds -> [D!Job -> Nat]]
    BY <1>2 DEF Moved
  <2> QED BY <1>0, <1>2, <1>3, <2>1, <2>2 DEF DashboardType
<1>5. ASSUME NEW x \in D!Job PROVE JobSound(x)'
  <2>1. JobSound(x) /\ JobSound(j) /\ j \in Nat \ {0} /\ x \in Nat \ {0} /\ j > analyses
    BY <1>0, <1>1, ServicesAssumption DEF JobsInv, D!Job, j
  <2>2. /\ sent'["create"][x] \in Nat /\ sent["create"][x] \in Nat
        /\ sent'["create"][x] = sent["create"][x] + (IF x = j THEN 1 ELSE 0)
        /\ sent'["tick"][x] = sent["tick"][x] /\ sent'["getJob"][x] = sent["getJob"][x]
        /\ sent'["getResult"][x] = sent["getResult"][x] /\ sent'["ask"][x] = sent["ask"][x]
    <3>1. sent'["create"][x] \in Nat /\ sent["create"][x] \in Nat
      BY <1>0, <1>2 DEF Moved, DashboardType, D!Kinds
    <3>2. CASE x = j
      BY <3>1, <3>2, <1>1, <1>2 DEF Moved, D!Kinds
    <3>3. CASE x # j
      BY <3>1, <3>3, <1>1, <1>2 DEF Moved, D!Kinds
    <3> QED BY <3>1, <3>2, <3>3
  <2>3. x > j => x > analyses
    BY <2>1, <1>1 DEF j
  <2> QED BY <2>1, <2>2, <2>3, <1>1, <1>2 DEF JobSound, Unasked
<1>6. RefsInv'
  BY <1>0, <1>1, <1>2 DEF RefsInv, DashboardType
<1>7. CalmInv'
  <2> SUFFICES ASSUME calm' PROVE (NothingOlder /\ Watched /\ Closed /\ FailedForCause)'
    BY DEF CalmInv
  <2>1. D!Quiet /\ streams' = {} /\ intervals' = {}
    BY <1>3
  <2>2. ASSUME NEW kind \in D!Kinds, NEW x \in D!Job PROVE sent[kind][x] = 0
    <3>1. sent[kind][x] \in Nat /\ ~(sent[kind][x] > 0)
      BY <1>0, <2>1 DEF D!Quiet, D!InFlight, DashboardType
    <3> QED BY <3>1
  <2>3. NothingOlder'
    BY <1>1, <1>2, <2>1, <2>2 DEF Moved, NothingOlder, Unasked, D!Kinds
  <2>4. sent'["ask"][j] = 0
    BY <1>1, <1>2, <2>2 DEF Moved, D!Kinds
  <2> QED BY <1>1, <1>2, <2>1, <2>3, <2>4 DEF Watched, Closed, FailedForCause
<1> QED BY <1>4, <1>5, <1>6, <1>7 DEF DashboardInv, JobsInv

\* The user asks about the job that is shown.
LEMMA AskQuestionKeeps ==
  ASSUME DashboardInv, D!askQuestion
  PROVE  DashboardInv'
<1> USE DEF D!None
<1> DEFINE j == jobId
<1>0. DashboardType /\ JobsInv /\ RefsInv /\ CalmInv
  BY DEF DashboardInv
<1>1. j \in D!Job
  BY <1>0 DEF DashboardType, D!askQuestion
<1>2. /\ Moved("ask", j, 1) /\ askAbout' = D!None
      /\ UNCHANGED <<phase, target, jobId, stage, result, source, streams, pollRef, intervals,
                     activeJob, settled, server, analyses, calm, refused>>
  BY <1>0, <1>1, SendMoves DEF D!askQuestion, D!Send, D!shown, D!channels, D!refs, D!Kinds
<1>4. DashboardType'
  BY <1>0, <1>2 DEF Moved, DashboardType
<1>5. ASSUME NEW x \in D!Job PROVE JobSound(x)'
  <2>1. JobSound(x) /\ server[j] # "none"
    BY <1>0, <1>1 DEF JobsInv, JobSound
  <2>2. CASE x = j
    BY <2>1, <2>2, <1>1, <1>2 DEF Moved, JobSound, D!Kinds
  <2>3. CASE x # j
    BY <2>1, <2>3, <1>1, <1>2 DEF Moved, JobSound, Unasked, D!Kinds
  <2> QED BY <2>2, <2>3
<1>6. RefsInv'
  BY <1>0, <1>2 DEF RefsInv
<1>7. CalmInv'
  <2> SUFFICES ASSUME calm PROVE (NothingOlder /\ Watched /\ Closed /\ FailedForCause)'
    BY <1>2 DEF CalmInv
  <2>1. NothingOlder /\ Watched /\ Closed /\ FailedForCause /\ j = analyses
    BY <1>0, <1>1, ServicesAssumption DEF CalmInv, Watched, D!Job
  <2>2. NothingOlder'
    BY <2>1, <1>2 DEF Moved, NothingOlder, Unasked, D!Kinds
  <2> QED BY <2>1, <2>2, <1>2 DEF Watched, Closed, FailedForCause
<1> QED BY <1>4, <1>5, <1>6, <1>7 DEF DashboardInv, JobsInv

\* Whatever the driver does, the invariant stays.
LEMMA DashboardStep ==
  ASSUME DashboardInv, [D!Next]_(D!dashboardVars)
  PROVE  DashboardInv'
<1>1. CASE UNCHANGED D!dashboardVars
  BY <1>1 DEF D!dashboardVars, D!shown, D!asked, D!channels, D!refs, DashboardInv, DashboardType, JobsInv,
              JobSound, Unasked, RefsInv, CalmInv, NothingOlder, Watched, Closed, FailedForCause
<1>2. CASE D!User
  BY <1>2, AnalyzeKeeps, AskQuestionKeeps DEF D!User
<1>3. ASSUME NEW j \in D!Job, D!Hook(j) \/ D!onStageEvent(j) \/ D!Serve(j) \/ D!GoesSilent(j)
      PROVE  DashboardInv'
  BY <1>3, ServeKeeps, GoesSilentKeeps, CreatedKeeps, CreateFailsKeeps, StageEventKeeps, DoneKeeps, ErrorKeeps, TickKeeps,
     TickAnsweredKeeps, TickFailsKeeps, FinalizeAnsweredKeeps, ResultAnsweredKeeps, FinalizeFailsKeeps,
     AskAnsweredKeeps DEF D!Hook
<1> QED BY <1>1, <1>2, <1>3 DEF D!Next

\* A stream that is closed is not silent.
SilentInv == silent \subseteq streams

LEMMA SilentKeeps ==
  ASSUME SilentInv, [D!Next]_(D!dashboardVars)
  PROVE  SilentInv'
<1> USE DEF SilentInv
<1>1. CASE UNCHANGED D!dashboardVars
  BY <1>1 DEF D!dashboardVars, D!channels
<1>2. CASE D!User
  BY <1>2 DEF D!User, D!analyze, D!askQuestion, D!teardown, D!channels
<1>3. ASSUME NEW j \in D!Job, D!created(j) \/ D!createFails(j) \/ D!Serve(j) \/ D!GoesSilent(j)
      PROVE  SilentInv'
  BY <1>3 DEF D!created, D!createFails, D!Serve, D!GoesSilent, D!channels
<1>4. ASSUME NEW j \in D!Job, D!onStageEvent(j) \/ D!onDone(j) \/ D!onError(j) \/ D!tick(j)
      PROVE  SilentInv'
  BY <1>4 DEF D!onStageEvent, D!onDone, D!onError, D!tick, D!channels
<1>5. ASSUME NEW j \in D!Job, D!tickAnswered(j) \/ D!tickFails(j)
      PROVE  SilentInv'
  BY <1>5 DEF D!tickAnswered, D!tickFails, D!settle, D!teardown, D!channels
<1>6. ASSUME NEW j \in D!Job, D!finalizeAnswered(j) \/ D!resultAnswered(j) \/ D!finalizeFails(j) \/ D!askAnswered(j)
      PROVE  SilentInv'
  BY <1>6 DEF D!finalizeAnswered, D!resultAnswered, D!finalizeFails, D!askAnswered, D!settle, D!teardown, D!channels
<1> QED BY <1>1, <1>2, <1>3, <1>4, <1>5, <1>6 DEF D!Next, D!Hook

\* What the invariants are for.
LEMMA DashboardShows ==
  ASSUME DashboardInv, SilentInv
  PROVE  D!DashboardIsHonest
<1> USE DEF D!None
<1>0. DashboardType /\ JobsInv /\ RefsInv /\ CalmInv
  BY DEF DashboardInv
<1>1. D!TypeOK
  <2>1. {jobId, result, askAbout, source, pollRef, activeJob} \subseteq D!Job \cup {D!None}
    BY <1>0 DEF DashboardType
  <2>2. \A kind \in D!Kinds, j \in D!Job : sent[kind][j] \in Nat
    BY <1>0 DEF DashboardType
  <2> QED BY <2>1, <2>2, <1>0 DEF DashboardType, SilentInv, D!TypeOK
<1>2. D!ResultIsOfTheJob
  BY <1>0, ServicesAssumption DEF DashboardType, RefsInv, CalmInv, Watched, D!ResultIsOfTheJob, D!Job
<1>3. D!AnswerIsAboutTheJob /\ D!FailuresAreReal
  BY <1>0 DEF CalmInv, Watched, FailedForCause, D!AnswerIsAboutTheJob, D!FailuresAreReal
<1>4. ASSUME calm PROVE Cardinality(streams) + Cardinality(intervals) <= 1
  <2>1. streams \subseteq {analyses} /\ intervals \subseteq {analyses}
    BY <1>0, <1>4 DEF DashboardType, CalmInv, NothingOlder
  <2>2. streams = {} \/ intervals = {}
    BY <2>1, <1>0 DEF DashboardType, JobsInv, JobSound
  <2>3. Cardinality({}) = 0 /\ Cardinality({analyses}) = 1
    BY FS_EmptySet, FS_Singleton
  <2>4. streams \in {{}, {analyses}} /\ intervals \in {{}, {analyses}}
    BY <2>1
  <2> QED BY <2>2, <2>3, <2>4
<1>5. D!NothingIsLeftOpen
  <2>1. calm => (settled => streams = {} /\ intervals = {})
    BY <1>0 DEF CalmInv, Closed
  <2>2. calm => Cardinality(streams) + Cardinality(intervals) <= 1
    BY <1>4
  <2>3. D!Cardinality(streams) = Cardinality(streams)
    BY DEF D!Cardinality, Cardinality
  <2>4. D!Cardinality(intervals) = Cardinality(intervals)
    BY DEF D!Cardinality, Cardinality
  <2> QED BY <2>1, <2>2, <2>3, <2>4 DEF D!NothingIsLeftOpen
<1> QED BY <1>1, <1>2, <1>3, <1>5 DEF D!DashboardIsHonest

\* What the browser shows is of the job it says, a failure has its cause, and
\* nothing of an analysis that began alone stays open (useAnalysis.ts), however
\* many analyses the user starts and in whatever order requests are answered.
THEOREM DashboardHonest == ServicesSpec => []DashboardIsHonest
<1>1. ServicesInit => DashboardInv /\ SilentInv
  BY DashboardStarts DEF ServicesInit, SilentInv, D!Init
<1>2. DashboardInv /\ SilentInv /\ [ServicesNext]_allVars => DashboardInv' /\ SilentInv'
  <2>1. [ServicesNext]_allVars => [D!Next]_(D!dashboardVars)
    BY DEF ServicesNext, allVars, dashboardVars,
       D!dashboardVars, D!shown, D!asked, D!channels, D!refs
  <2> QED BY <2>1, DashboardStep, SilentKeeps
<1>3. DashboardInv /\ SilentInv => DashboardIsHonest
  BY DashboardShows DEF DashboardIsHonest
<1> QED BY <1>1, <1>2, <1>3, PTL DEF ServicesSpec

\* A stage shown as ended stays so while its job is shown (useAnalysis.ts:28-30).
THEOREM StagesStay == ServicesSpec => D!StagesStayEnded
<1>1. ServicesInit => DashboardInv
  BY DashboardStarts DEF ServicesInit
<1>2. DashboardInv /\ [ServicesNext]_allVars => DashboardInv'
  <2>1. [ServicesNext]_allVars => [D!Next]_(D!dashboardVars)
    BY DEF ServicesNext, allVars, dashboardVars,
       D!dashboardVars, D!shown, D!asked, D!channels, D!refs
  <2> QED BY <2>1, DashboardStep
<1>3. DashboardInv /\ [ServicesNext]_allVars
        => [jobId' = jobId /\ D!terminal(stage) => D!terminal(stage')]_(D!dashboardVars)
  <2> SUFFICES ASSUME RefsInv, D!Next, jobId' = jobId, stage = "completed" PROVE stage' = "completed"
    BY DEF DashboardInv, ServicesNext, allVars, dashboardVars, D!dashboardVars, D!shown, D!asked, D!channels,
       D!refs, D!terminal
  <2>1. jobId # D!None
    BY DEF RefsInv
  <2>2. CASE D!User
    BY <2>1, <2>2 DEF D!User, D!analyze, D!askQuestion, D!shown
  <2>3. ASSUME NEW j \in D!Job, D!onStageEvent(j) PROVE stage' = "completed"
    BY <2>3 DEF D!onStageEvent, D!merge, D!terminal
  <2>4. ASSUME NEW j \in D!Job, D!Hook(j) \/ D!Serve(j) \/ D!GoesSilent(j) PROVE stage' = "completed"
    BY <2>4 DEF D!Hook, D!Serve, D!GoesSilent, D!created, D!createFails, D!onDone, D!onError, D!tick, D!tickAnswered,
       D!tickFails,
                D!finalizeAnswered, D!resultAnswered, D!finalizeFails, D!askAnswered, D!settle, D!fail,
                D!shown
  <2> QED BY <2>2, <2>3, <2>4 DEF D!Next
<1> QED BY <1>1, <1>2, <1>3, PTL DEF ServicesSpec, D!StagesStayEnded

----------------------------------------------------------------------------
(* The wake                                                                 *)

\* The n-th attempt is for the n-th entry of the schedule, and none is made
\* once the status is settled.
WakeInv ==
  /\ attempts \in Nat /\ index \in Nat /\ index < WakeAttempts
  /\ live \in BOOLEAN /\ started \in BOOLEAN
  /\ doing \in {"nothing", "timer", "asking"} /\ wake \in {"waking", "ready", "offline"}
  /\ ~started => doing = "nothing" /\ attempts = 0 /\ wake = "waking"
  /\ doing = "timer" => attempts = index /\ wake = "waking"
  /\ doing = "asking" => attempts = index + 1 /\ wake = "waking"
  /\ attempts <= WakeAttempts
  /\ wake = "offline" => attempts = WakeAttempts

\* Every step of the wake keeps to the schedule.
LEMMA WakeKeeps ==
  ASSUME WakeInv, [K!Next]_(K!wakeVars)
  PROVE  WakeInv'
<1> USE ServicesAssumption DEF WakeInv
<1>1. CASE UNCHANGED K!wakeVars
  BY <1>1 DEF K!wakeVars
<1>2. CASE K!Effect
  BY <1>2 DEF K!Effect
<1>3. CASE K!Cleanup
  BY <1>3 DEF K!Cleanup
<1>4. CASE K!Attempt
  BY <1>4 DEF K!Attempt
<1>5. CASE K!AnswerComes
  BY <1>5 DEF K!AnswerComes
<1>6. CASE K!AttemptFails
  BY <1>6 DEF K!AttemptFails
<1> QED BY <1>1, <1>2, <1>3, <1>4, <1>5, <1>6 DEF K!Next

\* The page asks no oftener than its schedule says, and gives up only at its
\* end (useWake.ts:24-31), whatever the schedule and however often the effect
\* is cleaned up.
LEMMA WakeBounded == ServicesSpec => []K!WakesOnce
<1>1. ServicesInit => WakeInv
  <2>1. WakeAttempts \in Nat \ {0}
    BY ServicesAssumption
  <2> SUFFICES ASSUME K!Init PROVE WakeInv
    BY DEF ServicesInit
  <2>2. wake = "waking" /\ attempts = 0 /\ started = FALSE /\ live = FALSE /\ doing = "nothing" /\ index = 0
    BY DEF K!Init
  <2>3. live \in BOOLEAN /\ started \in BOOLEAN
    BY <2>2
  <2>4. attempts \in Nat /\ index \in Nat /\ index < WakeAttempts /\ attempts <= WakeAttempts
    BY <2>1, <2>2
  <2>5. doing \in {"nothing", "timer", "asking"} /\ wake \in {"waking", "ready", "offline"}
    BY <2>2
  <2> HIDE DEF WakeInv
  <2> QED BY ONLY <2>2, <2>3, <2>4, <2>5 DEF WakeInv
<1>2. WakeInv /\ [ServicesNext]_allVars => WakeInv'
  <2>1. [ServicesNext]_allVars => [K!Next]_(K!wakeVars)
    BY DEF ServicesNext, allVars, wakeVars,
       K!wakeVars
  <2> QED BY <2>1, WakeKeeps
<1>3. WakeInv => K!WakesOnce
  BY DEF WakeInv, K!WakesOnce
<1> QED BY <1>1, <1>2, <1>3, PTL DEF ServicesSpec

----------------------------------------------------------------------------
(* The warm-up                                                              *)

\* A task runs only within a flight and while it is not warm; a task is warm
\* when it has run to success; and what a caller was told stays true.
WarmInv ==
  /\ status \in [W!Tasks -> {"none", "pending", "running", "warm", "failed"}]
  /\ running \in [W!Tasks -> 0..1]
  /\ ran \subseteq W!Tasks
  /\ \A n \in W!Tasks : running[n] > 0 => flight /\ status[n] \notin {"none", "warm"}
  /\ \A n \in W!Tasks : status[n] = "warm" <=> n \in ran
  /\ \A c \in Callers : caller[c].at = "returned" /\ caller[c].warmedUp => "mongo-connection" \in ran
  /\ DOMAIN caller = Callers

\* Of the tasks only Mongo's is needed.
LEMMA NeededIsMongo ==
  ASSUME WarmInv
  PROVE  W!warmedUp <=> "mongo-connection" \in ran
<1>1. {n \in W!Registered : W!required(n)} =
        IF status["mongo-connection"] # "none" THEN {"mongo-connection"} ELSE {}
  BY DEF W!Registered, W!required, W!Tasks
<1>2. W!warmedUp <=> status["mongo-connection"] = "warm"
  BY <1>1 DEF W!warmedUp
<1>3. "mongo-connection" \in W!Tasks
  BY DEF W!Tasks
<1> QED BY <1>2, <1>3 DEF WarmInv

\* Registrations, flights, tasks and outages keep what the warm-up says.
LEMMA WarmKeeps ==
  ASSUME WarmInv, [W!Next]_(W!warmVars)
  PROVE  WarmInv'
<1>1. CASE UNCHANGED W!warmVars
  BY <1>1 DEF W!warmVars, WarmInv
<1>2. CASE W!registerApiWarmupTasks
  BY <1>2 DEF W!registerApiWarmupTasks, W!register, WarmInv
<1>3. CASE W!Land
  <2>1. W!warmedUp <=> "mongo-connection" \in ran
    BY NeededIsMongo
  <2>2. \A n \in W!Tasks : running[n] = 0
    BY <1>3 DEF W!Land
  <2> QED BY <1>3, <2>1, <2>2 DEF W!Land, WarmInv
<1>4. CASE W!Weather
  BY <1>4 DEF W!Weather, WarmInv
<1>5. ASSUME NEW c \in Callers, W!warmUp(c) PROVE WarmInv'
  <2>1. CASE flight
    BY <1>5, <2>1 DEF W!warmUp, WarmInv
  <2>2. CASE ~flight
    <3>1. \A n \in W!Tasks : running[n] = 0
      BY <2>2 DEF WarmInv
    <3> QED BY <1>5, <2>2, <3>1 DEF W!warmUp, W!Cold, W!Registered, WarmInv
  <2> QED BY <2>1, <2>2
<1>6. ASSUME NEW n \in W!Tasks, W!TaskEnds(n) PROVE WarmInv'
  BY <1>6 DEF W!TaskEnds, WarmInv
<1> QED BY <1>1, <1>2, <1>3, <1>4, <1>5, <1>6 DEF W!Next

\* No task runs twice at once, warm means that the needed tasks ran, and who
\* was told so is not told otherwise (warmup.ts:80-117), for any callers and
\* however registrations and outages fall.
LEMMA WarmUpHonest == ServicesSpec => []W!WarmUpIsHonest
<1>1. ServicesInit => WarmInv
  BY DEF ServicesInit, W!Init, WarmInv
<1>2. WarmInv /\ [ServicesNext]_allVars => WarmInv'
  <2>1. [ServicesNext]_allVars => [W!Next]_(W!warmVars)
    BY DEF ServicesNext, allVars, warmVars,
       W!warmVars
  <2> QED BY <2>1, WarmKeeps
<1>3. WarmInv => W!WarmUpIsHonest
  <2> SUFFICES ASSUME WarmInv PROVE W!WarmUpIsHonest
    OBVIOUS
  <2> QED BY NeededIsMongo DEF WarmInv, W!WarmUpIsHonest, W!WarmsOnce, W!WarmIsEarned, W!WarmLatches
<1> QED BY <1>1, <1>2, <1>3, PTL DEF ServicesSpec

----------------------------------------------------------------------------
(* The bounded parse                                                        *)

InQueue(f) == \E n \in DOMAIN queue : queue[n] = f
Apart(q) == \A m, n \in DOMAIN q : q[m] = q[n] => m = n

\* The counter is the number of tasks that run, and no slot is free while a
\* task waits.
SlotsInv ==
  /\ queue \in Seq(P!File) /\ Apart(queue)
  /\ task \in [P!File -> {"none", "queued", "running", "parsed", "unparsed", "rejected"}]
  /\ active \in Nat /\ active = Cardinality(P!Running) /\ active <= P!limit
  /\ queue # <<>> => active = P!limit
  /\ \A f \in P!File : task[f] = "queued" <=> InQueue(f)

\* Work is begun with its task, and outlives it only where it timed out.
WorkInv ==
  /\ work \in [P!File -> {"none", "running", "ended"}]
  /\ timedOut \subseteq P!File
  /\ \A f \in P!File :
       /\ task[f] \in {"none", "queued"} => work[f] = "none"
       /\ task[f] = "running" => work[f] = "running"
       /\ task[f] \in {"parsed", "rejected"} => work[f] = "ended"
       /\ work[f] = "running" => task[f] = "running" \/ f \in timedOut
       /\ f \in timedOut => task[f] = "unparsed"

StageInv ==
  /\ parsing = "before" => active = 0 /\ \A f \in P!File : task[f] = "none"
  /\ parsing = "done" => inventory = task /\ \A f \in P!File : task[f] \in {"parsed", "unparsed"}

PoolInv == SlotsInv /\ WorkInv /\ StageInv

\* The instances count as this module does.
LEMMA SameCount ==
  ASSUME NEW S
  PROVE  P!Cardinality(S) = Cardinality(S) /\ R!Cardinality(S) = Cardinality(S) /\ I!Cardinality(S) = Cardinality(S)
BY DEF P!Cardinality, R!Cardinality, I!Cardinality, Cardinality

\* There is a slot, and files are finitely many.
LEMMA PoolBasics ==
  /\ P!limit \in Nat \ {0} /\ IsFiniteSet(P!File)
  /\ \A S : S \subseteq P!File => IsFiniteSet(S) /\ Cardinality(S) \in Nat
<1>1. IsFiniteSet(P!File)
  BY ServicesAssumption, FS_Interval DEF P!File
<1>2. P!limit \in Nat \ {0}
  BY ServicesAssumption DEF P!limit
<1> QED BY <1>1, <1>2, FS_Subset, FS_CardinalityType

\* What starts when there are n slots, and what is left.
LEMMA NextStarts ==
  ASSUME NEW q \in Seq(P!File), Apart(q), NEW n \in Nat
  PROVE  LET S == P!Started(q, n)
             r == P!Left(q, n)
         IN /\ S \subseteq P!File /\ Cardinality(S) \in Nat /\ Cardinality(S) <= n
            /\ \A f \in S : \E i \in DOMAIN q : q[i] = f
            /\ r \in Seq(P!File) /\ Apart(r)
            /\ r # <<>> => Cardinality(S) = n
            /\ \A f \in P!File : (\E i \in DOMAIN r : r[i] = f) <=> (\E i \in DOMAIN q : q[i] = f) /\ f \notin S
<1> DEFINE s == IF Len(q) < n THEN Len(q) ELSE n
           S == P!Started(q, n)
           r == P!Left(q, n)
<1>1. s \in Nat /\ s <= Len(q) /\ s <= n /\ (s < n => s = Len(q)) /\ Len(q) \in Nat
  OBVIOUS
<1> HIDE DEF s
<1>2. S = {q[i] : i \in 1..s}
  BY DEF P!Started, s
<1>3. \A i \in 1..s : i \in DOMAIN q /\ q[i] \in P!File
  BY <1>1
<1>4. Cardinality(S) = s /\ IsFiniteSet(S)
  <2> DEFINE f == [i \in 1..s |-> q[i]]
  <2>1. \A i, j \in 1..s : f[i] = f[j] => i = j
    BY <1>3 DEF Apart
  <2>2. f \in Bijection(1..s, S)
    BY <2>1, <1>2, Fun_IsBij
  <2>3. IsFiniteSet(1..s) /\ Cardinality(1..s) = s
    BY <1>1, FS_Interval
  <2>4. ExistsBijection(1..s, S)
    BY <2>2 DEF ExistsBijection
  <2> QED BY <2>3, <2>4, FS_Bijection
<1>5. r = SubSeq(q, 1 + s, Len(q))
  BY <1>4, SameCount DEF P!Left
<1>6. /\ r \in Seq(P!File) /\ Len(r) = Len(q) - s
      /\ \A i \in 1..Len(r) : r[i] = q[i + s] /\ i + s \in DOMAIN q
  BY <1>1, <1>5
<1>7. r # <<>> => s = n
  BY <1>1, <1>6
<1>8. Apart(r)
  <2> SUFFICES ASSUME NEW i \in DOMAIN r, NEW j \in DOMAIN r, r[i] = r[j] PROVE i = j
    BY DEF Apart
  <2>1. i \in 1..Len(r) /\ j \in 1..Len(r)
    BY <1>6
  <2>2. i + s = j + s
    BY <2>1, <1>6 DEF Apart
  <2> QED BY <2>1, <2>2, <1>1
<1>9. ASSUME NEW f \in P!File PROVE (\E i \in DOMAIN r : r[i] = f) <=> (\E i \in DOMAIN q : q[i] = f) /\ f \notin S
  <2>1. ASSUME NEW i \in DOMAIN r, r[i] = f PROVE (\E j \in DOMAIN q : q[j] = f) /\ f \notin S
    <3>1. i \in 1..Len(r) /\ q[i + s] = f /\ i + s \in DOMAIN q
      BY <2>1, <1>6
    <3>2. ASSUME NEW j \in 1..s, q[j] = f PROVE FALSE
      <4>1. j = i + s
        BY <3>1, <3>2, <1>3 DEF Apart
      <4> QED BY <4>1, <3>1, <1>1
    <3> QED BY <3>1, <3>2, <1>2
  <2>2. ASSUME NEW j \in DOMAIN q, q[j] = f, f \notin S PROVE \E i \in DOMAIN r : r[i] = f
    <3>1. j \in 1..Len(q) /\ ~(j <= s)
      BY <2>2, <1>2
    <3>3. j - s \in 1..Len(r) /\ j - s + s = j
      BY <3>1, <1>1, <1>6
    <3>4. r[j - s] = q[j - s + s]
      BY <3>3, <1>6
    <3>5. DOMAIN r = 1..Len(r)
      BY <1>6
    <3>2. j - s \in DOMAIN r /\ r[j - s] = f
      BY <2>2, <3>3, <3>4, <3>5
    <3> QED BY <3>2
  <2> QED BY <2>1, <2>2
<1>10. \A f \in S : f \in P!File /\ \E i \in DOMAIN q : q[i] = f
  BY <1>2, <1>3
<1> HIDE DEF r, S
<1> QED BY <1>1, <1>4, <1>6, <1>7, <1>8, <1>9, <1>10 DEF r, S

\* A task that settles gives its slot to the first that waits.
LEMMA ReleaseKeeps ==
  ASSUME SlotsInv, NEW f \in P!File, task[f] = "running",
         NEW outcome \in {"parsed", "unparsed", "rejected"}, P!Release(f, outcome)
  PROVE  /\ SlotsInv'
         /\ task'[f] = outcome
         /\ \A g \in P!File : g # f =>
              task'[g] = task[g] \/ (task[g] = "queued" /\ task'[g] = "running")
<1> DEFINE n == P!limit - (active - 1)
           S == P!Started(queue, n)
           r == P!Left(queue, n)
<1>1. n \in Nat /\ P!limit \in Nat /\ active \in Nat
  BY PoolBasics DEF SlotsInv
<1>2. queue' = r /\ active' = active - 1 + Cardinality(S)
  BY SameCount DEF P!Release
<1>3. task' = [g \in P!File |-> IF g = f THEN outcome ELSE IF g \in S THEN "running" ELSE task[g]]
  BY DEF P!Release
<1>4. /\ S \subseteq P!File /\ Cardinality(S) \in Nat /\ Cardinality(S) <= n
      /\ \A g \in S : \E i \in DOMAIN queue : queue[i] = g
      /\ r \in Seq(P!File) /\ Apart(r)
      /\ r # <<>> => Cardinality(S) = n
      /\ \A g \in P!File : (\E i \in DOMAIN r : r[i] = g) <=> (\E i \in DOMAIN queue : queue[i] = g) /\ g \notin S
  BY <1>1, NextStarts DEF SlotsInv
<1> HIDE DEF n, S, r
<1>5. \A g \in S : task[g] = "queued" /\ g # f
  BY <1>4 DEF SlotsInv, InQueue
<1>6. task' \in [P!File -> {"none", "queued", "running", "parsed", "unparsed", "rejected"}]
  BY <1>3 DEF SlotsInv
<1>7. \A g \in P!File : g # f => task'[g] = task[g] \/ (task[g] = "queued" /\ task'[g] = "running")
  BY <1>3, <1>5
<1>8. \A g \in P!File : task'[g] = "queued" <=> InQueue(g)'
  BY <1>2, <1>3, <1>4 DEF SlotsInv, InQueue
<1>9. P!Running' = (P!Running \ {f}) \cup S
  <2>1. P!Running = {g \in P!File : task[g] = "running"}
    BY DEF P!Running
  <2>2. P!Running' = {g \in P!File : task'[g] = "running"}
    BY DEF P!Running
  <2>3. \A g \in P!File : task'[g] = "running" <=> g # f /\ (g \in S \/ task[g] = "running")
    BY <1>3, <1>5
  <2> QED BY <2>1, <2>2, <2>3, <1>4, <1>5
<1>10. active' = Cardinality(P!Running') /\ active' \in Nat
  <2>1. P!Running \subseteq P!File /\ f \in P!Running /\ IsFiniteSet(P!Running)
    BY PoolBasics DEF P!Running
  <2>2. Cardinality(P!Running \ {f}) = active - 1 /\ IsFiniteSet(P!Running \ {f})
    BY <2>1, FS_RemoveElement DEF SlotsInv
  <2>3. (P!Running \ {f}) \cap S = {} /\ IsFiniteSet(S)
    BY <1>4, <1>5, PoolBasics DEF P!Running
  <2>4. Cardinality((P!Running \ {f}) \cup S) = active - 1 + Cardinality(S)
    <3> DEFINE A == P!Running \ {f}
    <3>1. IsFiniteSet(A) /\ A \cap S = {} /\ Cardinality(A) = active - 1
      BY <2>2, <2>3
    <3> HIDE DEF A
    <3>2. Cardinality(A \cup S) = Cardinality(A) + Cardinality(S) - Cardinality(A \cap S)
      BY <3>1, <2>3, FS_Union
    <3>3. Cardinality(A \cap S) = 0
      BY <3>1, FS_EmptySet
    <3>4. Cardinality(A \cup S) = active - 1 + Cardinality(S)
      BY <3>1, <3>2, <3>3, <1>1, <1>4
    <3> QED BY <3>4 DEF A
  <2>5. active - 1 \in Nat
    BY <2>2, FS_CardinalityType
  <2> QED BY <2>4, <2>5, <1>2, <1>4, <1>9
<1>11. active' <= P!limit /\ (queue' # <<>> => active' = P!limit)
  BY <1>1, <1>2, <1>4 DEF n
<1> QED BY <1>2, <1>3, <1>4, <1>6, <1>7, <1>8, <1>10, <1>11 DEF SlotsInv

\* What a step of the limiter does to the work.
LEMMA WorkKeeps ==
  ASSUME WorkInv, StageInv, NEW f \in P!File, task[f] = "running",
         NEW outcome \in {"parsed", "unparsed", "rejected"},
         task'[f] = outcome,
         \A g \in P!File : g # f =>
           task'[g] = task[g] \/ (task[g] = "queued" /\ task'[g] = "running"),
         NEW w \in [P!File -> {"none", "running", "ended"}], work' = P!Begun(w),
         \A g \in P!File : g # f => w[g] = work[g],
         \/ w[f] = "ended" /\ timedOut' = timedOut
         \/ w[f] = work[f] /\ timedOut' = timedOut \cup {f} /\ outcome = "unparsed"
  PROVE  WorkInv'
<1>1. work' = [g \in P!File |-> IF task'[g] = "running" /\ task[g] = "queued" THEN "running" ELSE w[g]]
  BY DEF P!Begun
<1>2. work' \in [P!File -> {"none", "running", "ended"}] /\ timedOut' \subseteq P!File
  BY <1>1 DEF WorkInv
<1>3. ASSUME NEW g \in P!File
      PROVE /\ task'[g] \in {"none", "queued"} => work'[g] = "none"
            /\ task'[g] = "running" => work'[g] = "running"
            /\ task'[g] \in {"parsed", "rejected"} => work'[g] = "ended"
            /\ work'[g] = "running" => task'[g] = "running" \/ g \in timedOut'
            /\ g \in timedOut' => task'[g] = "unparsed"
  <2>1. CASE g = f
    BY <2>1, <1>1 DEF WorkInv
  <2>2. CASE g # f /\ task'[g] = task[g]
    <3>1. work'[g] = work[g] /\ (g \in timedOut' <=> g \in timedOut)
      BY <2>2, <1>1
    <3> QED BY <2>2, <3>1 DEF WorkInv
  <2>3. CASE g # f /\ task[g] = "queued" /\ task'[g] = "running"
    <3>1. work'[g] = "running" /\ g \notin timedOut'
      BY <2>3, <1>1 DEF WorkInv
    <3> QED BY <2>3, <3>1
  <2> QED BY <2>1, <2>2, <2>3
<1> QED BY <1>2, <1>3 DEF WorkInv

\* Scheduling all at once fills the slots.
LEMMA ScheduleKeeps ==
  ASSUME PoolInv, P!Schedule
  PROVE  PoolInv'
<1> DEFINE all == [f \in P!File |-> f]
           S == P!Started(all, P!limit)
           r == P!Left(all, P!limit)
<1>1. /\ parsing = "before" /\ parsing' = "during" /\ queue' = r /\ active' = Cardinality(S)
      /\ task' = [f \in P!File |-> IF f \in S THEN "running" ELSE "queued"]
      /\ work' = [f \in P!File |-> IF f \in S THEN "running" ELSE "none"]
      /\ inventory' = inventory /\ timedOut' = timedOut
  BY SameCount DEF P!Schedule
<1>2. all \in Seq(P!File) /\ Apart(all) /\ \A f \in P!File : \E i \in DOMAIN all : all[i] = f
  BY ServicesAssumption DEF P!File, Apart
<1> HIDE DEF all
<1>3. /\ S \subseteq P!File /\ Cardinality(S) \in Nat /\ Cardinality(S) <= P!limit
      /\ r \in Seq(P!File) /\ Apart(r)
      /\ r # <<>> => Cardinality(S) = P!limit
      /\ \A f \in P!File : (\E i \in DOMAIN r : r[i] = f) <=> (\E i \in DOMAIN all : all[i] = f) /\ f \notin S
  BY <1>2, PoolBasics, NextStarts
<1> HIDE DEF S, r
<1>4. P!Running' = S
  BY <1>1, <1>3 DEF P!Running
<1>5. \A f \in P!File : task'[f] = "queued" <=> InQueue(f)'
  BY <1>1, <1>2, <1>3 DEF InQueue
<1>6. task' \in [P!File -> {"none", "queued", "running", "parsed", "unparsed", "rejected"}]
  BY <1>1
<1>7. SlotsInv'
  BY <1>1, <1>3, <1>4, <1>5, <1>6 DEF SlotsInv
<1>8. timedOut = {}
  BY <1>1 DEF PoolInv, WorkInv, StageInv
<1>9. WorkInv'
  BY <1>1, <1>8 DEF WorkInv
<1>10. StageInv'
  BY <1>1 DEF StageInv
<1> QED BY <1>7, <1>9, <1>10 DEF PoolInv

\* Every step of the parse keeps slots, work and stage in accord.
LEMMA PoolKeeps ==
  ASSUME PoolInv, [P!Next]_(P!poolVars)
  PROVE  PoolInv'
<1>0. SlotsInv /\ WorkInv /\ StageInv
  BY DEF PoolInv
<1>1. CASE UNCHANGED P!poolVars
  BY <1>1 DEF P!poolVars, PoolInv, SlotsInv, WorkInv, StageInv, InQueue, P!Running
<1>2. CASE P!Schedule
  BY <1>2, ScheduleKeeps
<1>3. CASE P!Collect
  BY <1>3 DEF P!Collect, PoolInv, SlotsInv, WorkInv, StageInv, InQueue, P!Running
<1>4. ASSUME NEW f \in P!File, task[f] = "running",
             NEW outcome \in {"parsed", "unparsed", "rejected"}, P!Release(f, outcome),
             inventory' = inventory, parsing' = IF outcome = "rejected" /\ parsing = "during" THEN "failed" ELSE parsing
      PROVE  StageInv'
  <2>1. parsing \notin {"before", "done"}
    BY <1>0, <1>4 DEF StageInv
  <2> QED BY <1>4, <2>1 DEF StageInv
<1>5. ASSUME NEW f \in P!File, P!ParseEnds(f) PROVE PoolInv'
  <2>1. PICK outcome \in {"parsed", "unparsed"} : P!Release(f, outcome)
    BY <1>5 DEF P!ParseEnds
  <2>2. /\ task[f] = "running" /\ work' = P!Begun([work EXCEPT ![f] = "ended"])
        /\ timedOut' = timedOut /\ inventory' = inventory /\ parsing' = parsing
    BY <1>5 DEF P!ParseEnds
  <2>3. /\ SlotsInv' /\ task'[f] = outcome
        /\ \A g \in P!File : g # f =>
             task'[g] = task[g] \/ (task[g] = "queued" /\ task'[g] = "running")
    BY <1>0, <2>1, <2>2, ReleaseKeeps
  <2> DEFINE w == [work EXCEPT ![f] = "ended"]
  <2>4. /\ w \in [P!File -> {"none", "running", "ended"}] /\ w[f] = "ended"
        /\ \A g \in P!File : g # f => w[g] = work[g]
    BY <1>0 DEF WorkInv
  <2>5. WorkInv'
    <3>1. work' = P!Begun(w)
      BY <2>2
    <3> HIDE DEF w
    <3> QED BY <1>0, <2>2, <2>3, <2>4, <3>1, WorkKeeps
  <2>6. StageInv'
    BY <1>4, <2>1, <2>2
  <2> QED BY <2>3, <2>5, <2>6 DEF PoolInv
<1>6. ASSUME NEW f \in P!File, P!ReadRejects(f) PROVE PoolInv'
  <2>2. /\ task[f] = "running" /\ work' = P!Begun([work EXCEPT ![f] = "ended"])
        /\ timedOut' = timedOut /\ inventory' = inventory /\ P!Release(f, "rejected")
        /\ parsing' = IF parsing = "during" THEN "failed" ELSE parsing
    BY <1>6 DEF P!ReadRejects
  <2>3. /\ SlotsInv' /\ task'[f] = "rejected"
        /\ \A g \in P!File : g # f =>
             task'[g] = task[g] \/ (task[g] = "queued" /\ task'[g] = "running")
    BY <1>0, <2>2, ReleaseKeeps
  <2> DEFINE w == [work EXCEPT ![f] = "ended"]
  <2>4. /\ w \in [P!File -> {"none", "running", "ended"}] /\ w[f] = "ended"
        /\ \A g \in P!File : g # f => w[g] = work[g]
    BY <1>0 DEF WorkInv
  <2>5. WorkInv'
    <3>1. work' = P!Begun(w)
      BY <2>2
    <3> HIDE DEF w
    <3> QED BY <1>0, <2>2, <2>3, <2>4, <3>1, WorkKeeps
  <2>6. StageInv'
    BY <1>4, <2>2
  <2> QED BY <2>3, <2>5, <2>6 DEF PoolInv
<1>7. ASSUME NEW f \in P!File, P!TimeOut(f) PROVE PoolInv'
  <2>2. /\ task[f] = "running" /\ work' = P!Begun(work)
        /\ timedOut' = timedOut \cup {f} /\ inventory' = inventory /\ P!Release(f, "unparsed")
        /\ parsing' = parsing
    BY <1>7 DEF P!TimeOut
  <2>3. /\ SlotsInv' /\ task'[f] = "unparsed"
        /\ \A g \in P!File : g # f =>
             task'[g] = task[g] \/ (task[g] = "queued" /\ task'[g] = "running")
    BY <1>0, <2>2, ReleaseKeeps
  <2>4. work \in [P!File -> {"none", "running", "ended"}]
    BY <1>0 DEF WorkInv
  <2>5. WorkInv'
    BY <1>0, <2>2, <2>3, <2>4, WorkKeeps
  <2>6. StageInv'
    BY <1>4, <2>2
  <2> QED BY <2>3, <2>5, <2>6 DEF PoolInv
<1>8. ASSUME NEW f \in P!File, P!EndsLate(f) PROVE PoolInv'
  <2>1. /\ f \in timedOut /\ work' = [work EXCEPT ![f] = "ended"]
        /\ UNCHANGED <<queue, task, active, inventory, parsing, timedOut>>
    BY <1>8 DEF P!EndsLate
  <2>2. SlotsInv' /\ StageInv'
    BY <1>0, <2>1 DEF SlotsInv, StageInv, InQueue, P!Running
  <2>3. WorkInv'
    BY <1>0, <2>1 DEF WorkInv
  <2> QED BY <2>2, <2>3 DEF PoolInv
<1>9. ASSUME NEW f \in P!File, P!Hang(f) PROVE PoolInv'
  <2>1. UNCHANGED <<queue, task, work, active, inventory, parsing, timedOut>>
    BY <1>9 DEF P!Hang
  <2> QED BY <2>1 DEF PoolInv, SlotsInv, WorkInv, StageInv, InQueue, P!Running
<1> QED BY <1>1, <1>2, <1>3, <1>5, <1>6, <1>7, <1>8, <1>9 DEF P!Next

\* The limiter's slots are counted exactly, the work that runs is bounded by
\* them and by what timed out, and what ends late touches nothing
\* (concurrency.ts:7-66, inventory.ts:92-123), for any files and concurrency.
LEMMA ParsingBounded == ServicesSpec => []P!ParsingIsBounded
<1>1. ServicesInit => PoolInv
  <2> SUFFICES ASSUME P!Init PROVE PoolInv
    BY DEF ServicesInit
  <2>1. P!Running = {}
    BY DEF P!Init, P!Running
  <2>2. SlotsInv
    BY <2>1, PoolBasics, FS_EmptySet DEF P!Init, SlotsInv, Apart, InQueue
  <2>3. WorkInv /\ StageInv
    BY DEF P!Init, WorkInv, StageInv
  <2> QED BY <2>2, <2>3 DEF PoolInv
<1>2. PoolInv /\ [ServicesNext]_allVars => PoolInv'
  <2>1. [ServicesNext]_allVars => [P!Next]_(P!poolVars)
    BY DEF ServicesNext, allVars, poolVars,
       P!poolVars
  <2> QED BY <2>1, PoolKeeps
<1>3. PoolInv => P!ParsingIsBounded
  <2> SUFFICES ASSUME SlotsInv, WorkInv, StageInv PROVE P!ParsingIsBounded
    BY DEF PoolInv
  <2>1. P!SlotsAreExact
    BY SameCount DEF SlotsInv, InQueue, P!SlotsAreExact
  <2>2. P!LateWorkIsIgnored
    BY DEF StageInv, WorkInv, P!LateWorkIsIgnored
  <2>3. P!WorkIsBounded
    <3> DEFINE B == {f \in P!File : work[f] = "running"}
    <3>1. B \subseteq P!Running \cup timedOut
      BY DEF WorkInv, P!Running
    <3>2. /\ IsFiniteSet(P!Running) /\ IsFiniteSet(timedOut) /\ IsFiniteSet(P!Running \cup timedOut)
          /\ Cardinality(P!Running) \in Nat /\ Cardinality(timedOut) \in Nat /\ Cardinality(B) \in Nat
      BY PoolBasics DEF P!Running, WorkInv
    <3> HIDE DEF B
    <3>3. Cardinality(B) <= Cardinality(P!Running \cup timedOut)
      BY <3>1, <3>2, FS_Subset
    <3>4. Cardinality(P!Running \cup timedOut) =
            Cardinality(P!Running) + Cardinality(timedOut) - Cardinality(P!Running \cap timedOut)
      BY <3>2, FS_Union
    <3>5. Cardinality(P!Running \cap timedOut) \in Nat
      BY PoolBasics DEF P!Running
    <3>6. Cardinality(P!Running \cup timedOut) \in Nat
      BY <3>2, FS_CardinalityType
    <3>7. Cardinality(P!Running) <= P!limit /\ P!limit \in Nat
      BY PoolBasics DEF SlotsInv
    <3>8. Cardinality(B) <= P!limit + Cardinality(timedOut)
      BY <3>2, <3>3, <3>4, <3>5, <3>6, <3>7
    <3> QED BY <3>8, SameCount DEF B, P!WorkIsBounded
  <2> QED BY <2>1, <2>2, <2>3 DEF P!ParsingIsBounded
<1> QED BY <1>1, <1>2, <1>3, PTL DEF ServicesSpec

----------------------------------------------------------------------------
(* The worker's process                                                     *)

Steps == {"none", "mkdir", "ls-remote", "heads", "clone", "rev-parse", "analyze", "cleanup"}
WithGit == {"ls-remote", "heads", "clone", "rev-parse"}
Branches == {I!None} \cup {Remotes[j].requested : j \in Jobs} \cup {Remotes[j].default : j \in Jobs}
Places == [at : Steps, dir : Nat, path : Nat, branch : Branches]
QueueStates == [state : {"none", "waiting", "active", "completed", "failed"}, stalls : Nat]
Children == [state : {"none", "running"}, timedOut : BOOLEAN]

WorkerType ==
  /\ deployment \in [embedded : BOOLEAN, asked : Asked, postgres : BOOLEAN, embedding : BOOLEAN]
  /\ worker \in {"exited", "down", "connect", "stores", "warming", "consume", "serving", "draining"}
  /\ queued \in [Jobs -> QueueStates]
  /\ job \in [Jobs -> Places]
  /\ git \in [Jobs -> Children]
  /\ disk \subseteq Jobs \X Nat

\* A job that BullMQ counts as active is at work in a process that is there,
\* and holds its directory, its child and its branch.
JobFine(j) ==
  /\ job[j].at # "none" <=> queued[j].state = "active"
  /\ job[j].at # "none" => worker \in {"serving", "draining"}
  /\ git[j].state = "running" <=> job[j].at \in WithGit
  /\ job[j].at \in {"none", "mkdir"} => job[j].dir = 0
  /\ job[j].dir > 0 => <<j, job[j].dir>> \in disk
  /\ job[j].at = "analyze" => job[j].path = job[j].dir
  /\ job[j].at = "cleanup" => job[j].path = job[j].dir \/ <<j, job[j].dir>> \in orphans
  /\ job[j].at \in {"clone", "rev-parse", "analyze"} /\ Remotes[j].requested \in Remotes[j].branches =>
       job[j].branch = Remotes[j].requested
  /\ job[j].at \in {"rev-parse", "analyze"} => job[j].branch \in Remotes[j].branches

AtWork == {j \in Jobs : I!Running(j)}
GaugeInv == activeJobs = Cardinality(AtWork) /\ activeJobs <= I!Concurrency
DirsInv == \A j \in Jobs, n \in Nat : <<j, n>> \in disk => n > 0 /\ (<<j, n>> \in orphans \/ n = job[j].dir)

\* What the probes are answered from.
ProbesInv ==
  /\ consumerRunning <=> worker = "serving"
  /\ worker \in {"warming", "consume", "serving", "draining"} =>
       (stores.mode \in {"memory", "postgres"} <=> deployment.embedding)
  /\ worker \in {"consume", "serving", "draining"} => warm.warmedUp

WorkerInv == WorkerType /\ (\A j \in Jobs : JobFine(j)) /\ GaugeInv /\ DirsInv /\ ProbesInv

\* An instance runs one to eight jobs at a time, an embedded one only one.
LEMMA ConcurrencyBound ==
  ASSUME WorkerType
  PROVE  I!Concurrency \in 1..8 /\ (deployment.embedded => I!Concurrency = 1)
<1>1. deployment.asked \in Int
  BY ServicesAssumption DEF WorkerType
<1> QED BY <1>1 DEF I!Concurrency, I!resolveScalingConfig, I!DEFAULT_CONCURRENCY, I!MAX_CONCURRENCY

\* Jobs at work are finitely many.
LEMMA WorkCounts ==
  IsFiniteSet(AtWork) /\ Cardinality(AtWork) \in Nat
<1>1. AtWork \subseteq Jobs /\ IsFiniteSet(Jobs)
  BY ServicesAssumption DEF AtWork
<1> QED BY <1>1, FS_Subset, FS_CardinalityType

\* What a step of one job need show of it.
LEMMA JobStep ==
  ASSUME WorkerInv, NEW j \in Jobs,
         worker' = worker, deployment' = deployment,
         stores' = stores, warm' = warm, consumerRunning' = consumerRunning,
         queued' \in [Jobs -> QueueStates], job' \in [Jobs -> Places], git' \in [Jobs -> Children],
         \A i \in Jobs : i # j => queued'[i] = queued[i] /\ job'[i] = job[i] /\ git'[i] = git[i],
         disk' \subseteq Jobs \X Nat, orphans \subseteq orphans',
         \A i \in Jobs, n \in Nat : i # j => (<<i, n>> \in disk' <=> <<i, n>> \in disk),
         \A n \in Nat : <<j, n>> \in disk' => n > 0 /\ (<<j, n>> \in orphans' \/ n = job'[j].dir),
         JobFine(j)', GaugeInv'
  PROVE  WorkerInv'
<1>0. WorkerType /\ (\A i \in Jobs : JobFine(i)) /\ GaugeInv /\ DirsInv /\ ProbesInv
  BY DEF WorkerInv
<1>1. WorkerType'
  BY <1>0 DEF WorkerType
<1>2. ASSUME NEW i \in Jobs PROVE JobFine(i)'
  <2>1. CASE i = j
    BY <2>1
  <2>2. CASE i # j
    <3>1. JobFine(i) /\ job[i] \in Places
      BY <1>0 DEF WorkerType
    <3>2. job[i].dir \in Nat
      BY <3>1 DEF Places
    <3>3. queued'[i] = queued[i] /\ job'[i] = job[i] /\ git'[i] = git[i]
      BY <2>2
    <3>4. <<i, job[i].dir>> \in disk' <=> <<i, job[i].dir>> \in disk
      BY <2>2, <3>2
    <3> QED BY <3>1, <3>3, <3>4 DEF JobFine
  <2> QED BY <2>1, <2>2
<1>3. DirsInv'
  BY <1>0 DEF DirsInv
<1>4. ProbesInv'
  BY <1>0 DEF ProbesInv
<1> QED BY <1>1, <1>2, <1>3, <1>4 DEF WorkerInv

\* What a step of the process that leaves the jobs alone need show.
LEMMA ProcessStep ==
  ASSUME WorkerInv,
         worker' \in {"exited", "down", "connect", "stores", "warming", "consume", "serving", "draining"},
         worker \in {"serving", "draining"} =>
           worker' \in {"serving", "draining"} \/ \A j \in Jobs : ~I!Running(j),
         UNCHANGED <<deployment, activeJobs, queued, job, git, disk, orphans>>,
         ProbesInv'
  PROVE  WorkerInv'
<1>0. WorkerType /\ (\A i \in Jobs : JobFine(i)) /\ GaugeInv /\ DirsInv /\ ProbesInv
  BY DEF WorkerInv
<1>1. WorkerType'
  BY <1>0 DEF WorkerType
<1>2. ASSUME NEW i \in Jobs PROVE JobFine(i)'
  BY <1>0 DEF JobFine, I!Running
<1>3. GaugeInv' /\ DirsInv'
  BY <1>0 DEF GaugeInv, DirsInv, AtWork, I!Running, I!Concurrency
<1> QED BY <1>1, <1>2, <1>3 DEF WorkerInv

\* The gauge follows a job that stays at work, or not at work.
LEMMA GaugeStays ==
  ASSUME GaugeInv, NEW j \in Jobs, deployment' = deployment, activeJobs' = activeJobs,
         \A i \in Jobs : i # j => job'[i] = job[i],
         job[j].at # "none" <=> job'[j].at # "none"
  PROVE  GaugeInv'
<1>1. AtWork' = AtWork
  BY DEF AtWork, I!Running
<1> QED BY <1>1 DEF GaugeInv, I!Concurrency

\* A job of which only where it is changes.
LEMMA GotoMoves ==
  ASSUME WorkerType, NEW j \in Jobs, NEW pc \in Steps, I!Goto(j, pc)
  PROVE  /\ job' \in [Jobs -> Places]
         /\ job'[j].at = pc /\ job'[j].dir = job[j].dir
         /\ job'[j].path = job[j].path /\ job'[j].branch = job[j].branch
         /\ \A i \in Jobs : i # j => job'[i] = job[i]
BY DEF WorkerType, Places, I!Goto

\* BullMQ holds the job as it is said.
LEMMA QueueMoves ==
  ASSUME WorkerType, NEW j \in Jobs, NEW s \in {"none", "waiting", "active", "completed", "failed"},
         queued' = [queued EXCEPT ![j].state = s]
  PROVE  /\ queued' \in [Jobs -> QueueStates] /\ queued'[j].state = s
         /\ \A i \in Jobs : i # j => queued'[i] = queued[i]
BY DEF WorkerType, QueueStates

\* The API adds a job.
LEMMA EnqueueKeeps ==
  ASSUME WorkerInv, NEW j \in Jobs, I!Enqueue(j)
  PROVE  WorkerInv'
<1>0. WorkerType /\ JobFine(j) /\ GaugeInv /\ DirsInv
  BY DEF WorkerInv
<1>1. /\ queued[j].state = "none" /\ queued' = [queued EXCEPT ![j].state = "waiting"]
      /\ UNCHANGED <<deployment, worker, stores, warm, consumerRunning, activeJobs, job, git, disk,
                     kills, orphans>>
  BY DEF I!Enqueue
<1>2. /\ queued' \in [Jobs -> QueueStates] /\ queued'[j].state = "waiting"
      /\ \A i \in Jobs : i # j => queued'[i] = queued[i]
  BY <1>0, <1>1, QueueMoves
<1>3. JobFine(j)'
  BY <1>0, <1>1, <1>2 DEF JobFine
<1>4. GaugeInv'
  BY <1>0, <1>1, GaugeStays
<1> QED BY <1>0, <1>1, <1>2, <1>3, <1>4, JobStep DEF WorkerType, DirsInv

\* A job is taken while a slot is free: the gauge counts it.
LEMMA TakeKeeps ==
  ASSUME WorkerInv, NEW j \in Jobs, I!Take(j)
  PROVE  WorkerInv'
<1>0. WorkerType /\ JobFine(j) /\ GaugeInv /\ DirsInv
  BY DEF WorkerInv
<1>1. /\ worker = "serving" /\ queued[j].state = "waiting"
      /\ Cardinality(AtWork) < I!Concurrency /\ activeJobs' = activeJobs + 1
      /\ queued' = [queued EXCEPT ![j].state = "active"] /\ I!Goto(j, "mkdir")
      /\ UNCHANGED <<deployment, worker, stores, warm, consumerRunning, git, disk, kills, orphans>>
  BY SameCount DEF I!Take, I!Serving, AtWork
<1>2. /\ queued' \in [Jobs -> QueueStates] /\ queued'[j].state = "active"
      /\ \A i \in Jobs : i # j => queued'[i] = queued[i]
  BY <1>0, <1>1, QueueMoves
<1>3. /\ job' \in [Jobs -> Places]
      /\ job'[j].at = "mkdir" /\ job'[j].dir = job[j].dir
      /\ job'[j].path = job[j].path /\ job'[j].branch = job[j].branch
      /\ \A i \in Jobs : i # j => job'[i] = job[i]
  BY <1>0, <1>1, GotoMoves DEF Steps
<1>4. job[j].at = "none" /\ job[j].dir = 0
  BY <1>0, <1>1 DEF JobFine
<1>5. JobFine(j)'
  BY <1>0, <1>1, <1>2, <1>3, <1>4 DEF JobFine, WithGit
<1>6. GaugeInv'
  <2>1. AtWork' = AtWork \cup {j} /\ j \notin AtWork
    BY <1>3, <1>4 DEF AtWork, I!Running
  <2>2. Cardinality(AtWork \cup {j}) = Cardinality(AtWork) + 1
    BY <2>1, WorkCounts, FS_AddElement
  <2>3. I!Concurrency \in Nat /\ I!Concurrency' = I!Concurrency
    BY <1>0, <1>1, ConcurrencyBound DEF I!Concurrency
  <2> QED BY <1>0, <1>1, <2>1, <2>2, <2>3, WorkCounts DEF GaugeInv
<1>7. \A n \in Nat : <<j, n>> \in disk' => n > 0 /\ (<<j, n>> \in orphans' \/ n = job'[j].dir)
  BY <1>0, <1>1, <1>3 DEF DirsInv
<1> QED BY <1>0, <1>1, <1>2, <1>3, <1>5, <1>6, <1>7, JobStep DEF WorkerType

\* A job gets a directory of its own.
LEMMA MakeTempKeeps ==
  ASSUME WorkerInv, NEW j \in Jobs, I!MakeTemp(j)
  PROVE  WorkerInv'
<1>0. WorkerType /\ JobFine(j) /\ GaugeInv /\ DirsInv
  BY DEF WorkerInv
<1>d. queued[j].stalls + 1 \in Nat /\ queued[j].stalls + 1 > 0
  BY <1>0 DEF WorkerType, QueueStates
<1> DEFINE n == queued[j].stalls + 1
<1>1. /\ job[j].at = "mkdir"
      /\ job' = [job EXCEPT ![j].at = "ls-remote", ![j].dir = n]
      /\ disk' = disk \cup {<<j, n>>} /\ git' = [git EXCEPT ![j] = I!Child]
      /\ UNCHANGED <<deployment, worker, stores, warm, consumerRunning, activeJobs, queued, kills,
                     orphans>>
  BY DEF I!MakeTemp
<1>n. n \in Nat /\ n > 0
  BY <1>d
<1> HIDE DEF n
<1>2. git' \in [Jobs -> Children] /\ git'[j].state = "running" /\ \A i \in Jobs : i # j => git'[i] = git[i]
  BY <1>0, <1>1 DEF WorkerType, Children, I!Child
<1>3. /\ job' \in [Jobs -> Places]
      /\ job'[j].at = "ls-remote" /\ job'[j].dir = n
      /\ \A i \in Jobs : i # j => job'[i] = job[i]
  BY <1>0, <1>1, <1>n DEF WorkerType, Places, Steps
<1>4. job[j].dir = 0
  BY <1>0, <1>1 DEF JobFine
<1>5. JobFine(j)'
  BY <1>0, <1>1, <1>2, <1>3 DEF JobFine, WithGit
<1>6. GaugeInv'
  BY <1>0, <1>1, <1>3, GaugeStays
<1>7. \A m \in Nat : <<j, m>> \in disk' => m > 0 /\ (<<j, m>> \in orphans' \/ m = job'[j].dir)
  <2> SUFFICES ASSUME NEW m \in Nat, <<j, m>> \in disk PROVE m > 0 /\ <<j, m>> \in orphans
    BY <1>1, <1>3, <1>n
  <2>1. m > 0 /\ (<<j, m>> \in orphans \/ m = 0)
    BY <1>0, <1>4 DEF DirsInv
  <2> QED BY <2>1
<1>8. /\ disk' \subseteq Jobs \X Nat
      /\ \A i \in Jobs, m \in Nat : i # j => (<<i, m>> \in disk' <=> <<i, m>> \in disk)
  BY <1>0, <1>1, <1>n DEF WorkerType
<1> QED BY <1>0, <1>1, <1>2, <1>3, <1>5, <1>6, <1>7, <1>8, JobStep DEF WorkerType

\* A child is killed, and still waited for.
LEMMA GitTimesOutKeeps ==
  ASSUME WorkerInv, NEW j \in Jobs, I!GitTimesOut(j)
  PROVE  WorkerInv'
<1>0. WorkerType /\ JobFine(j) /\ GaugeInv /\ DirsInv
  BY DEF WorkerInv
<1>1. /\ git[j].state = "running" /\ git' = [git EXCEPT ![j].timedOut = TRUE]
      /\ UNCHANGED <<deployment, worker, stores, warm, consumerRunning, activeJobs, queued, job, disk,
                     kills, orphans>>
  BY DEF I!GitTimesOut
<1>2. git' \in [Jobs -> Children] /\ git'[j].state = "running" /\ \A i \in Jobs : i # j => git'[i] = git[i]
  BY <1>0, <1>1 DEF WorkerType, Children
<1>3. JobFine(j)'
  BY <1>0, <1>1, <1>2 DEF JobFine
<1>4. GaugeInv'
  BY <1>0, <1>1, GaugeStays
<1> QED BY <1>0, <1>1, <1>2, <1>3, <1>4, JobStep DEF WorkerType, DirsInv

\* A job goes on to its next child or to its analysis, on a branch.
GoesOn(j, pc, branch, path, child) ==
  /\ job' \in [Jobs -> Places]
  /\ job'[j].at = pc /\ job'[j].dir = job[j].dir /\ job'[j].branch = branch /\ job'[j].path = path
  /\ \A i \in Jobs : i # j => job'[i] = job[i]
  /\ git' \in [Jobs -> Children] /\ git'[j].state = child
  /\ \A i \in Jobs : i # j => git'[i] = git[i]

\* A child is there or is not.
LEMMA ChildMoves ==
  ASSUME WorkerType, NEW j \in Jobs
  PROVE  /\ git' = [git EXCEPT ![j] = I!Child] =>
              /\ git' \in [Jobs -> Children] /\ git'[j].state = "running"
              /\ \A i \in Jobs : i # j => git'[i] = git[i]
         /\ git' = [git EXCEPT ![j] = I!NoChild] =>
              /\ git' \in [Jobs -> Children] /\ git'[j].state = "none"
              /\ \A i \in Jobs : i # j => git'[i] = git[i]
<1>1. I!Child \in Children /\ I!Child.state = "running" /\ I!NoChild \in Children /\ I!NoChild.state = "none"
  BY DEF Children, I!Child, I!NoChild
<1>2. \A c \in Children : git' = [git EXCEPT ![j] = c] =>
        git' \in [Jobs -> Children] /\ git'[j] = c /\ \A i \in Jobs : i # j => git'[i] = git[i]
  BY DEF WorkerType
<1> QED BY <1>1, <1>2

\* What a child that succeeds leads to.
LEMMA GitLeads ==
  ASSUME WorkerType, NEW j \in Jobs, I!GitSucceeds(j)
  PROVE  \/ /\ job[j].at = "ls-remote"
            /\ \/ GoesOn(j, "clone", Remotes[j].requested, job[j].path, "running")
               \/ GoesOn(j, "heads", job[j].branch, job[j].path, "running")
         \/ /\ job[j].at = "heads" /\ Remotes[j].requested \in Remotes[j].branches
            /\ GoesOn(j, "clone", Remotes[j].requested, job[j].path, "running")
         \/ /\ job[j].at = "heads" /\ Remotes[j].requested \notin Remotes[j].branches
            /\ GoesOn(j, "clone", Remotes[j].default, job[j].path, "running")
         \/ /\ job[j].at = "clone" /\ job[j].branch \in Remotes[j].branches
            /\ GoesOn(j, "rev-parse", job[j].branch, job[j].path, "running")
         \/ /\ job[j].at = "rev-parse"
            /\ GoesOn(j, "analyze", job[j].branch, job[j].dir, "none")
<1> DEFINE Clones(b) == job' = [job EXCEPT ![j].at = "clone", ![j].branch = b] /\ git' = [git EXCEPT ![j] = I!Child]
<1>1. ASSUME NEW b \in Branches, Clones(b) PROVE GoesOn(j, "clone", b, job[j].path, "running")
  <2>1. /\ job' \in [Jobs -> Places] /\ job'[j].at = "clone" /\ job'[j].dir = job[j].dir
        /\ job'[j].branch = b /\ job'[j].path = job[j].path /\ \A i \in Jobs : i # j => job'[i] = job[i]
    BY <1>1 DEF WorkerType, Places, Steps
  <2> QED BY <1>1, <2>1, ChildMoves DEF GoesOn
<1>2. ASSUME NEW pc \in Steps, I!Goto(j, pc), git' = [git EXCEPT ![j] = I!Child]
      PROVE  GoesOn(j, pc, job[j].branch, job[j].path, "running")
  BY <1>2, GotoMoves, ChildMoves DEF GoesOn
<1>3. ASSUME job' = [job EXCEPT ![j].at = "analyze", ![j].path = job[j].dir], git' = [git EXCEPT ![j] = I!NoChild]
      PROVE  GoesOn(j, "analyze", job[j].branch, job[j].dir, "none")
  <2>1. /\ job' \in [Jobs -> Places] /\ job'[j].at = "analyze" /\ job'[j].dir = job[j].dir
        /\ job'[j].branch = job[j].branch /\ job'[j].path = job[j].dir /\ \A i \in Jobs : i # j => job'[i] = job[i]
    BY <1>3 DEF WorkerType, Places, Steps
  <2> QED BY <1>3, <2>1, ChildMoves DEF GoesOn
<1>4. Remotes[j].requested \in Branches /\ Remotes[j].default \in Branches
  BY DEF Branches
<1>5. \/ job[j].at = "ls-remote" /\ Clones(Remotes[j].requested)
      \/ job[j].at = "ls-remote" /\ I!Goto(j, "heads") /\ git' = [git EXCEPT ![j] = I!Child]
      \/ job[j].at = "heads" /\ Remotes[j].requested \in Remotes[j].branches /\ Clones(Remotes[j].requested)
      \/ job[j].at = "heads" /\ Remotes[j].requested \notin Remotes[j].branches /\ Clones(Remotes[j].default)
      \/ job[j].at = "clone" /\ job[j].branch \in Remotes[j].branches
         /\ I!Goto(j, "rev-parse") /\ git' = [git EXCEPT ![j] = I!Child]
      \/ /\ job[j].at = "rev-parse" /\ job' = [job EXCEPT ![j].at = "analyze", ![j].path = job[j].dir]
         /\ git' = [git EXCEPT ![j] = I!NoChild]
  BY DEF I!GitSucceeds
<1> HIDE DEF Clones
<1>6. "heads" \in Steps /\ "rev-parse" \in Steps
  BY DEF Steps
<1> QED BY <1>1, <1>2, <1>3, <1>4, <1>5, <1>6

\* The next child, or the analysis: of the branch that was meant.
LEMMA GitSucceedsKeeps ==
  ASSUME WorkerInv, NEW j \in Jobs, I!GitSucceeds(j)
  PROVE  WorkerInv'
<1>0. WorkerType /\ JobFine(j) /\ GaugeInv /\ DirsInv
  BY DEF WorkerInv
<1>1. /\ git[j].state = "running"
      /\ UNCHANGED <<deployment, worker, stores, warm, consumerRunning, activeJobs, queued, disk,
                     kills, orphans>>
  BY DEF I!GitSucceeds
<1>2. /\ job' \in [Jobs -> Places] /\ git' \in [Jobs -> Children]
      /\ job[j].at # "none" /\ job'[j].at # "none" /\ job'[j].dir = job[j].dir
      /\ \A i \in Jobs : i # j => job'[i] = job[i] /\ git'[i] = git[i]
  BY <1>0, GitLeads DEF GoesOn
<1>3. JobFine(j)'
  <2>1. JobFine(j) /\ job[j].at \in WithGit
    BY <1>0, <1>1 DEF JobFine
  <2>2. CASE job[j].at = "ls-remote"
    <3>1. \/ GoesOn(j, "clone", Remotes[j].requested, job[j].path, "running")
          \/ GoesOn(j, "heads", job[j].branch, job[j].path, "running")
      BY <1>0, <2>2, GitLeads
    <3> QED BY <2>1, <2>2, <3>1, <1>1 DEF JobFine, WithGit, GoesOn
  <2>3. CASE job[j].at = "heads"
    <3>1. \/ /\ Remotes[j].requested \in Remotes[j].branches
             /\ GoesOn(j, "clone", Remotes[j].requested, job[j].path, "running")
          \/ /\ Remotes[j].requested \notin Remotes[j].branches
             /\ GoesOn(j, "clone", Remotes[j].default, job[j].path, "running")
      BY <1>0, <2>3, GitLeads
    <3> QED BY <2>1, <2>3, <3>1, <1>1 DEF JobFine, WithGit, GoesOn
  <2>4. CASE job[j].at = "clone"
    <3>1. job[j].branch \in Remotes[j].branches /\ GoesOn(j, "rev-parse", job[j].branch, job[j].path, "running")
      BY <1>0, <2>4, GitLeads
    <3> QED BY <2>1, <2>4, <3>1, <1>1 DEF JobFine, WithGit, GoesOn
  <2>5. CASE job[j].at = "rev-parse"
    <3>1. GoesOn(j, "analyze", job[j].branch, job[j].dir, "none")
      BY <1>0, <2>5, GitLeads
    <3> QED BY <2>1, <2>5, <3>1, <1>1 DEF JobFine, WithGit, GoesOn
  <2> QED BY <2>1, <2>2, <2>3, <2>4, <2>5 DEF WithGit
<1>4. GaugeInv'
  BY <1>0, <1>1, <1>2, GaugeStays
<1>5. \A n \in Nat : <<j, n>> \in disk' => n > 0 /\ (<<j, n>> \in orphans' \/ n = job'[j].dir)
  BY <1>0, <1>1, <1>2 DEF DirsInv
<1>6. disk' \subseteq Jobs \X Nat /\ queued' \in [Jobs -> QueueStates]
  BY <1>0, <1>1 DEF WorkerType
<1> QED BY <1>1, <1>2, <1>3, <1>4, <1>5, <1>6, JobStep

\* A clone that fails leaves its directory behind.
LEMMA GitFailsKeeps ==
  ASSUME WorkerInv, NEW j \in Jobs, I!GitFails(j)
  PROVE  WorkerInv'
<1>0. WorkerType /\ JobFine(j) /\ GaugeInv /\ DirsInv
  BY DEF WorkerInv
<1>1. /\ git[j].state = "running" /\ I!Goto(j, "cleanup") /\ git' = [git EXCEPT ![j] = I!NoChild]
      /\ orphans' = orphans \cup {<<j, job[j].dir>>}
      /\ UNCHANGED <<deployment, worker, stores, warm, consumerRunning, activeJobs, queued, disk, kills>>
  BY DEF I!GitFails
<1>2. git' \in [Jobs -> Children] /\ git'[j].state = "none" /\ \A i \in Jobs : i # j => git'[i] = git[i]
  BY <1>0, <1>1, ChildMoves
<1>3. /\ job' \in [Jobs -> Places]
      /\ job'[j].at = "cleanup" /\ job'[j].dir = job[j].dir
      /\ \A i \in Jobs : i # j => job'[i] = job[i]
  BY <1>0, <1>1, GotoMoves DEF Steps
<1>4. job[j].at \in WithGit
  BY <1>0, <1>1 DEF JobFine
<1>5. JobFine(j)'
  BY <1>0, <1>1, <1>2, <1>3, <1>4 DEF JobFine, WithGit
<1>6. GaugeInv'
  BY <1>0, <1>1, <1>3, <1>4, GaugeStays DEF WithGit
<1>7. \A n \in Nat : <<j, n>> \in disk' => n > 0 /\ (<<j, n>> \in orphans' \/ n = job'[j].dir)
  BY <1>0, <1>1, <1>3 DEF DirsInv
<1> QED BY <1>0, <1>1, <1>2, <1>3, <1>5, <1>6, <1>7, JobStep DEF WorkerType

\* The pipeline ends.
LEMMA AnalysisKeeps ==
  ASSUME WorkerInv, NEW j \in Jobs, I!Analyze(j)
  PROVE  WorkerInv'
<1>0. WorkerType /\ JobFine(j) /\ GaugeInv /\ DirsInv
  BY DEF WorkerInv
<1>1. /\ job[j].at = "analyze" /\ I!Goto(j, "cleanup")
      /\ UNCHANGED <<deployment, worker, stores, warm, consumerRunning, activeJobs, queued, git, disk,
                     kills, orphans>>
  BY DEF I!Analyze
<1>2. /\ job' \in [Jobs -> Places]
      /\ job'[j].at = "cleanup" /\ job'[j].dir = job[j].dir /\ job'[j].path = job[j].path
      /\ \A i \in Jobs : i # j => job'[i] = job[i]
  BY <1>0, <1>1, GotoMoves DEF Steps
<1>3. JobFine(j)'
  BY <1>0, <1>1, <1>2 DEF JobFine, WithGit
<1>4. GaugeInv'
  BY <1>0, <1>1, <1>2, GaugeStays
<1>5. \A n \in Nat : <<j, n>> \in disk' => n > 0 /\ (<<j, n>> \in orphans' \/ n = job'[j].dir)
  BY <1>0, <1>1, <1>2 DEF DirsInv
<1> QED BY <1>0, <1>1, <1>2, <1>3, <1>4, <1>5, JobStep DEF WorkerType

\* The directory is removed, unless the clone failed, or is left behind.
LEMMA FinishKeeps ==
  ASSUME WorkerInv, NEW j \in Jobs, I!Finish(j)
  PROVE  WorkerInv'
<1>0. WorkerType /\ JobFine(j) /\ GaugeInv /\ DirsInv
  BY DEF WorkerInv
<1>1. PICK s \in {"completed", "failed"} : queued' = [queued EXCEPT ![j].state = s]
  BY DEF I!Finish
<1>2. /\ job[j].at = "cleanup"
      /\ activeJobs' = activeJobs - 1 /\ job' = [job EXCEPT ![j] = I!Idle]
      /\ UNCHANGED <<deployment, worker, stores, warm, consumerRunning, git, kills>>
  BY DEF I!Finish
<1> DEFINE own == {<<j, job[j].path>>} \cap disk
<1>r. \/ disk' = disk \ own /\ orphans' = orphans
      \/ orphans' = orphans \cup own /\ disk' = disk
  BY DEF I!Finish
<1>o. \A d : d \in own <=> d = <<j, job[j].path>> /\ d \in disk
  OBVIOUS
<1> HIDE DEF own
<1>3. /\ queued' \in [Jobs -> QueueStates] /\ queued'[j].state = s
      /\ \A i \in Jobs : i # j => queued'[i] = queued[i]
  BY <1>0, <1>1, QueueMoves
<1>4. /\ job' \in [Jobs -> Places] /\ job'[j].at = "none" /\ job'[j].dir = 0
      /\ \A i \in Jobs : i # j => job'[i] = job[i]
  <2>1. I!Idle \in Places /\ I!Idle.at = "none" /\ I!Idle.dir = 0
    BY DEF I!Idle, Places, Steps, Branches
  <2> QED BY <1>0, <1>2, <2>1 DEF WorkerType
<1>5. JobFine(j)'
  <2>1. git'[j] = git[j] /\ git[j].state # "running"
    BY <1>0, <1>2 DEF JobFine, WithGit
  <2>2. queued'[j].state # "active" /\ ~(job'[j].dir > 0)
    BY <1>3, <1>4
  <2> QED BY <2>1, <2>2, <1>4 DEF JobFine, WithGit
<1>6. GaugeInv'
  <2>1. AtWork' = AtWork \ {j} /\ j \in AtWork
    BY <1>2, <1>4 DEF AtWork, I!Running
  <2>2. Cardinality(AtWork \ {j}) = Cardinality(AtWork) - 1
    BY <2>1, WorkCounts, FS_RemoveElement
  <2>3. I!Concurrency \in Nat /\ I!Concurrency' = I!Concurrency
    BY <1>0, <1>2, ConcurrencyBound DEF I!Concurrency
  <2> QED BY <1>0, <1>2, <2>1, <2>2, <2>3, WorkCounts DEF GaugeInv
<1>7. \A n \in Nat : <<j, n>> \in disk' => n > 0 /\ (<<j, n>> \in orphans' \/ n = job'[j].dir)
  <2> SUFFICES ASSUME NEW n \in Nat, <<j, n>> \in disk'  PROVE n > 0 /\ <<j, n>> \in orphans'
    OBVIOUS
  <2>0. <<j, n>> \in disk /\ (n = job[j].path => <<j, n>> \in orphans') /\ orphans \subseteq orphans'
    BY <1>r, <1>o
  <2>1. n > 0 /\ (<<j, n>> \in orphans \/ n = job[j].dir)
    BY <1>0, <2>0 DEF DirsInv
  <2>2. job[j].path = job[j].dir \/ <<j, job[j].dir>> \in orphans
    BY <1>0, <1>2 DEF JobFine
  <2> QED BY <2>0, <2>1, <2>2
<1>8. /\ disk' \subseteq Jobs \X Nat /\ orphans \subseteq orphans'
      /\ \A i \in Jobs, m \in Nat : i # j => (<<i, m>> \in disk' <=> <<i, m>> \in disk)
  BY <1>0, <1>r, <1>o DEF WorkerType
<1>9. git' \in [Jobs -> Children] /\ \A i \in Jobs : i # j => git'[i] = git[i]
  BY <1>0, <1>2 DEF WorkerType
<1> QED BY <1>2, <1>3, <1>4, <1>5, <1>6, <1>7, <1>8, <1>9, JobStep

\* The process is killed: its jobs stall, their directories stay.
LEMMA KillKeeps ==
  ASSUME WorkerInv, I!Kill
  PROVE  WorkerInv'
<1>0. WorkerType /\ (\A i \in Jobs : JobFine(i)) /\ GaugeInv /\ DirsInv /\ ProbesInv
  BY DEF WorkerInv
<1>1. /\ worker' = "down" /\ consumerRunning' = FALSE /\ activeJobs' = 0
      /\ orphans' = orphans \cup {<<j, job[j].dir>> : j \in {i \in Jobs : job[i].dir > 0}}
      /\ queued' = [j \in Jobs |->
                      IF ~I!Running(j) THEN queued[j]
                      ELSE [state |-> IF queued[j].stalls < MaxStalled THEN "waiting" ELSE "failed",
                            stalls |-> queued[j].stalls + 1]]
      /\ job' = [j \in Jobs |-> I!Idle] /\ git' = [j \in Jobs |-> I!NoChild]
      /\ deployment' = deployment /\ disk' = disk
  BY DEF I!Kill
<1>2. /\ I!Idle \in Places /\ I!Idle.at = "none" /\ I!Idle.dir = 0
      /\ I!NoChild \in Children /\ I!NoChild.state = "none"
  BY DEF I!Idle, Places, Steps, Branches, I!NoChild, Children
<1>3. /\ job' \in [Jobs -> Places] /\ git' \in [Jobs -> Children]
      /\ \A i \in Jobs : job'[i].at = "none" /\ job'[i].dir = 0 /\ git'[i].state = "none"
  BY <1>1, <1>2
<1>4. ASSUME NEW i \in Jobs PROVE queued'[i] \in QueueStates /\ queued'[i].state # "active"
  <2>1. queued[i] \in QueueStates
    BY <1>0 DEF WorkerType
  <2>2. CASE ~I!Running(i)
    BY <1>0, <1>1, <2>1, <2>2 DEF JobFine, I!Running
  <2>3. CASE I!Running(i)
    BY <1>1, <2>1, <2>3 DEF QueueStates
  <2> QED BY <2>2, <2>3
<1>5. WorkerType'
  BY <1>0, <1>1, <1>3, <1>4 DEF WorkerType
<1>6. ASSUME NEW i \in Jobs PROVE JobFine(i)'
  <2>1. /\ job'[i].at = "none" /\ job'[i].dir = 0 /\ git'[i].state = "none"
        /\ queued'[i].state # "active" /\ ~(job'[i].dir > 0)
    BY <1>3, <1>4
  <2> QED BY <2>1 DEF JobFine, WithGit
<1>7. GaugeInv'
  <2>1. AtWork' = {}
    BY <1>3 DEF AtWork, I!Running
  <2>2. I!Concurrency \in 1..8 /\ I!Concurrency' = I!Concurrency
    BY <1>0, <1>1, ConcurrencyBound DEF I!Concurrency
  <2> QED BY <1>1, <2>1, <2>2, FS_EmptySet DEF GaugeInv
<1>8. DirsInv'
  <2> SUFFICES ASSUME NEW i \in Jobs, NEW n \in Nat, <<i, n>> \in disk PROVE n > 0 /\ <<i, n>> \in orphans'
    BY <1>1 DEF DirsInv
  <2>1. n > 0 /\ (<<i, n>> \in orphans \/ n = job[i].dir)
    BY <1>0 DEF DirsInv
  <2> QED BY <1>1, <2>1
<1>9. ProbesInv'
  BY <1>1 DEF ProbesInv
<1> QED BY <1>5, <1>6, <1>7, <1>8, <1>9 DEF WorkerInv

\* Every step of the process and of its jobs keeps the invariant.
LEMMA WorkerKeeps ==
  ASSUME WorkerInv, [I!Next]_(I!workerVars)
  PROVE  WorkerInv'
<1>0. ProbesInv /\ WorkerType /\ (\A i \in Jobs : JobFine(i))
  BY DEF WorkerInv
<1>1. CASE UNCHANGED I!workerVars
  <2>1. WorkerType' /\ ProbesInv'
    BY <1>0, <1>1 DEF I!workerVars, WorkerType, ProbesInv
  <2>2. \A i \in Jobs : JobFine(i)'
    BY <1>0, <1>1 DEF I!workerVars, JobFine
  <2>3. GaugeInv' /\ DirsInv'
    BY <1>1 DEF I!workerVars, WorkerInv, GaugeInv, DirsInv, AtWork, I!Running, I!Concurrency
  <2> QED BY <2>1, <2>2, <2>3 DEF WorkerInv
<1>2. CASE I!Boot
  <2>1. CASE I!Connect
    BY <2>1, <1>0, ProcessStep DEF I!Connect, ProbesInv
  <2>2. CASE I!createRetrievalStores
    BY <2>2, <1>0, ProcessStep DEF I!createRetrievalStores, ProbesInv, I!None
  <2>3. CASE I!WarmUp
    BY <2>3, <1>0, ProcessStep DEF I!WarmUp, ProbesInv
  <2>4. CASE I!Consume
    BY <2>4, <1>0, ProcessStep DEF I!Consume, ProbesInv
  <2> QED BY <1>2, <2>1, <2>2, <2>3, <2>4 DEF I!Boot
<1>3. CASE I!Stop
  BY <1>3, <1>0, ProcessStep DEF I!Stop, I!Serving, ProbesInv
<1>4. CASE I!Exit
  BY <1>4, <1>0, ProcessStep DEF I!Exit, ProbesInv
<1>5. CASE I!Kill
  BY <1>5, KillKeeps
<1>6. CASE I!Restart
  BY <1>6, <1>0, ProcessStep DEF I!Restart, I!Up, ProbesInv
<1>7. ASSUME NEW j \in Jobs, I!Process(j) PROVE WorkerInv'
  BY <1>7, EnqueueKeeps, TakeKeeps, MakeTempKeeps, GitTimesOutKeeps, GitSucceedsKeeps, GitFailsKeeps,
     AnalysisKeeps, FinishKeeps DEF I!Process
<1> QED BY <1>1, <1>2, <1>3, <1>4, <1>5, <1>6, <1>7 DEF I!Next

\* The gauge counts the processors at work within the bound, the probes say
\* what is so, no job is held by a process that is gone, every directory is
\* accounted for, and what is analysed is the branch that was meant
\* (index.ts:356-359, publicRepoCloneService.ts:129-133), for any jobs,
\* remotes and concurrency, and however often the process is killed.
LEMMA WorkerAccountable == ServicesSpec => []I!WorkerIsAccountable
<1>1. ServicesInit => WorkerInv
  <2> SUFFICES ASSUME I!Init PROVE WorkerInv
    BY DEF ServicesInit
  <2>1. /\ I!Idle \in Places /\ I!Idle.at = "none" /\ I!Idle.dir = 0
        /\ I!NoChild \in Children /\ I!NoChild.state = "none"
    BY DEF I!Idle, Places, Steps, Branches, I!NoChild, Children
  <2>2. /\ queued \in [Jobs -> QueueStates] /\ job \in [Jobs -> Places] /\ git \in [Jobs -> Children]
        /\ \A i \in Jobs : /\ job[i].at = "none" /\ job[i].dir = 0 /\ git[i].state = "none"
                           /\ queued[i].state = "none"
    BY <2>1 DEF I!Init, QueueStates
  <2>3. WorkerType
    BY <2>2 DEF I!Init, WorkerType
  <2>4. \A i \in Jobs : JobFine(i)
    BY <2>2 DEF JobFine, WithGit
  <2>5. AtWork = {}
    BY <2>2 DEF AtWork, I!Running
  <2>6. GaugeInv
    BY <2>3, <2>5, FS_EmptySet, ConcurrencyBound DEF I!Init, GaugeInv
  <2>7. DirsInv /\ ProbesInv
    BY DEF I!Init, DirsInv, ProbesInv
  <2> QED BY <2>3, <2>4, <2>6, <2>7 DEF WorkerInv
<1>2. WorkerInv /\ [ServicesNext]_allVars => WorkerInv'
  <2>1. [ServicesNext]_allVars => [I!Next]_(I!workerVars)
    BY DEF ServicesNext, allVars, workerVars,
       I!workerVars
  <2> QED BY <2>1, WorkerKeeps
<1>3. WorkerInv => I!WorkerIsAccountable
  <2> SUFFICES ASSUME WorkerInv PROVE I!WorkerIsAccountable
    OBVIOUS
  <2>0. WorkerType /\ (\A i \in Jobs : JobFine(i)) /\ GaugeInv /\ DirsInv /\ ProbesInv
    BY DEF WorkerInv
  <2>1. I!GaugeIsExact
    BY <2>0, SameCount, ConcurrencyBound, WorkCounts
       DEF GaugeInv, AtWork, I!GaugeIsExact, I!MAX_CONCURRENCY
  <2>2. I!ProbesAreHonest
    BY <2>0 DEF ProbesInv, I!ProbesAreHonest, I!Listening, I!Ready, I!Health, I!Serving
  <2>3. I!NothingIsHeld
    <3> SUFFICES ASSUME ~I!Up, NEW j \in Jobs PROVE queued[j].state # "active" /\ git[j].state = "none"
      BY DEF I!NothingIsHeld
    <3>1. JobFine(j) /\ git[j] \in Children
      BY <2>0 DEF WorkerType
    <3> QED BY <3>1 DEF JobFine, I!Up, WithGit, Children
  <2>4. I!DiskIsAccounted
    <3>1. disk \ orphans \subseteq {<<j, job[j].dir>> : j \in Jobs}
      <4> SUFFICES ASSUME NEW d \in disk, d \notin orphans PROVE d \in {<<j, job[j].dir>> : j \in Jobs}
        OBVIOUS
      <4>1. PICK j \in Jobs, n \in Nat : d = <<j, n>>
        BY <2>0 DEF WorkerType
      <4> QED BY <2>0, <4>1 DEF DirsInv
    <3>2. \A j \in Jobs : job[j].dir > 0 => <<j, job[j].dir>> \in disk
      BY <2>0 DEF JobFine
    <3> QED BY <3>1, <3>2 DEF I!DiskIsAccounted
  <2>5. I!BranchIsMeant
    BY <2>0 DEF JobFine, I!BranchIsMeant
  <2> QED BY <2>1, <2>2, <2>3, <2>4, <2>5 DEF I!WorkerIsAccountable
<1> QED BY <1>1, <1>2, <1>3, PTL DEF ServicesSpec

----------------------------------------------------------------------------
(* The rate limit                                                           *)

Hits == [at : {"idle", "incr", "expire", "passed", "refused"}, t : 0..Horizon,
         late : BOOLEAN, resetAt : Nat, failed : BOOLEAN]
BucketOf(r) == R!Bucket(hit[r].t)

\* Of a bucket: those counted in time that have passed or are about to, and
\* those counted at all.  Of a time: those of the window that ends then.
LetBy(b) ==
  {r \in R!Requests : hit[r].at \in {"passed", "expire"} /\ ~hit[r].failed /\ ~hit[r].late /\ BucketOf(r) = b}
Reached(b) == {r \in R!Requests : hit[r].at \notin {"idle", "incr"} /\ BucketOf(r) = b}
Within(v) == {r \in R!Requests : hit[r].at # "idle" /\ hit[r].resetAt = v}
LetWithin(v) == {r \in R!Requests : hit[r].at = "passed" /\ hit[r].resetAt = v}

Cap == IF Allowed < 1 THEN 1 ELSE Allowed

RateType ==
  /\ store \in {"redis", "memory"}
  /\ now \in 0..Horizon
  /\ key \in [0..R!Bucket(Horizon) -> [count : Nat, expires : Nat]]
  /\ window \in [count : Nat, start : 0..Horizon]
  /\ hit \in [R!Requests -> Hits]

\* A request in Redis, and the key of a bucket.
HitFine(r) ==
  /\ hit[r].t <= now
  /\ hit[r].at \in {"idle", "incr", "expire"} => ~hit[r].failed
  /\ hit[r].at \in {"passed", "refused"} => hit[r].resetAt = R!WindowEnd(BucketOf(r))
  /\ hit[r].at = "refused" => Cardinality(Reached(BucketOf(r))) > Allowed
  /\ hit[r].at = "passed" /\ Allowed = 0 => hit[r].failed

KeyFine(b) ==
  /\ now <= R!WindowEnd(b) => Cardinality(LetBy(b)) <= key[b].count
  /\ Cardinality(LetBy(b)) <= Cap
  /\ key[b].count <= Cardinality(Reached(b))
  /\ key[b].expires > R!WindowEnd(b)
  /\ key[b].count > 0 /\ key[b].expires = R!Never =>
       \E r \in R!Requests : BucketOf(r) = b /\ (hit[r].at = "expire" \/ hit[r].failed)

RedisInv == (\A r \in R!Requests : HitFine(r)) /\ \A b \in DOMAIN key : KeyFine(b)

\* In memory the window counts what came within it, and all windows before
\* ended before it does.
MemoryHit(r) ==
  /\ hit[r].at \in {"idle", "passed", "refused"} /\ ~hit[r].late /\ ~hit[r].failed
  /\ hit[r].at # "idle" =>
       /\ hit[r].resetAt <= window.start + Window
       /\ hit[r].t < hit[r].resetAt /\ hit[r].resetAt <= hit[r].t + Window
  /\ hit[r].at = "refused" => Cardinality(Within(hit[r].resetAt)) > Allowed

MemoryInv ==
  /\ \A b \in DOMAIN key : key[b].count = 0
  /\ window.start <= now
  /\ window.count = Cardinality(Within(window.start + Window))
  /\ window.count = 0 => \A r \in R!Requests : hit[r].at = "idle"
  /\ \A r \in R!Requests : MemoryHit(r)
  /\ \A v \in Nat : Cardinality(LetWithin(v)) <= Allowed

RateInv ==
  /\ RateType
  /\ store = "redis" => RedisInv
  /\ store = "memory" => MemoryInv

\* What the rate limit is set to.
LEMMA RateConstants ==
  Arrivals \in Nat /\ Window \in Nat \ {0} /\ Allowed \in Nat /\ Horizon \in Nat
BY ServicesAssumption

\* The window of a time is the one it is in.
LEMMA Buckets ==
  ASSUME NEW t \in Nat
  PROVE  /\ R!Bucket(t) \in Nat /\ R!WindowEnd(R!Bucket(t)) \in Nat
         /\ t < R!WindowEnd(R!Bucket(t)) /\ R!WindowEnd(R!Bucket(t)) <= t + Window
<1>1. t \div Window \in Int /\ (t \div Window) * Window <= t /\ t < (t \div Window) * Window + Window
  BY RateConstants
<1>2. t \div Window \in Nat
  BY RateConstants
<1> DEFINE b == t \div Window
<1>3. b \in Nat /\ b * Window <= t /\ t < b * Window + Window
  BY <1>1, <1>2
<1> HIDE DEF b
<1>4. (b + 1) * Window = b * Window + Window /\ (b + 1) * Window \in Nat
  BY <1>3, RateConstants
<1>5. t < (b + 1) * Window /\ (b + 1) * Window <= t + Window
  BY <1>3, <1>4, RateConstants
<1> QED BY <1>3, <1>4, <1>5 DEF b, R!Bucket, R!WindowEnd

\* Windows end one after the other.
LEMMA BucketsApart ==
  ASSUME NEW a \in Nat, NEW b \in Nat
  PROVE  /\ R!WindowEnd(a) \in Nat
         /\ R!WindowEnd(a) = R!WindowEnd(b) => a = b
         /\ a <= b => R!WindowEnd(a) <= R!WindowEnd(b)
BY RateConstants DEF R!WindowEnd

\* A time before the horizon is in a window that has a key.
LEMMA BucketsGrow ==
  ASSUME NEW t \in 0..Horizon
  PROVE  R!Bucket(t) \in 0..R!Bucket(Horizon)
<1>1. t \in Nat /\ Horizon \in Nat /\ t <= Horizon
  BY RateConstants
<1>2. R!Bucket(t) \in Nat /\ R!Bucket(Horizon) \in Nat
  BY <1>1, Buckets
<1>3. R!Bucket(t) <= R!Bucket(Horizon)
  BY <1>1, RateConstants DEF R!Bucket
<1> QED BY <1>2, <1>3

\* Requests are finitely many.
LEMMA RequestsCount ==
  /\ IsFiniteSet(R!Requests)
  /\ \A S : S \subseteq R!Requests => IsFiniteSet(S) /\ Cardinality(S) \in Nat
  /\ \A S, T : S \subseteq T /\ T \subseteq R!Requests => Cardinality(S) <= Cardinality(T)
<1>1. IsFiniteSet(R!Requests)
  BY RateConstants, FS_Interval DEF R!Requests
<1>2. \A S : S \subseteq R!Requests => IsFiniteSet(S) /\ Cardinality(S) \in Nat
  BY <1>1, FS_Subset, FS_CardinalityType
<1>3. \A S, T : S \subseteq T /\ T \subseteq R!Requests => Cardinality(S) <= Cardinality(T)
  BY <1>2, FS_Subset
<1> QED BY <1>1, <1>2, <1>3

\* A request more.
LEMMA OneMore ==
  ASSUME NEW S \in SUBSET R!Requests, NEW r \in R!Requests, r \notin S
  PROVE  Cardinality(S \cup {r}) = Cardinality(S) + 1
BY RequestsCount, FS_AddElement

\* What a call of request r in its bucket need show of it.
LEMMA CallStep ==
  ASSUME RateType, RedisInv, NEW r \in R!Requests, hit[r].at \in {"incr", "expire"},
         now' = now, hit' \in [R!Requests -> Hits], hit'[r].t = hit[r].t,
         hit'[r].at \in {"expire", "passed", "refused"},
         \A q \in R!Requests : q # r => hit'[q] = hit[q],
         key' \in [0..R!Bucket(Horizon) -> [count : Nat, expires : Nat]],
         \A b \in DOMAIN key : b # BucketOf(r) => key'[b] = key[b],
         HitFine(r)', KeyFine(BucketOf(r))'
  PROVE  RedisInv'
<1>1. \A q \in R!Requests : BucketOf(q)' = BucketOf(q)
  BY DEF BucketOf
<1>2. \A b : Reached(b) \subseteq Reached(b)'
  BY <1>1 DEF Reached
<1>3. \A b : b # BucketOf(r) => LetBy(b)' = LetBy(b) /\ Reached(b)' = Reached(b)
  BY <1>1 DEF LetBy, Reached
<1>4. ASSUME NEW q \in R!Requests PROVE HitFine(q)'
  <2>1. CASE q = r
    BY <2>1
  <2>2. CASE q # r
    <3>1. HitFine(q) /\ hit'[q] = hit[q] /\ BucketOf(q)' = BucketOf(q)
      BY <2>2, <1>1 DEF RedisInv
    <3> PICK b : b = BucketOf(q)
      OBVIOUS
    <3>2. Cardinality(Reached(b)) <= Cardinality(Reached(b)')
      <4>1. Reached(b)' \subseteq R!Requests /\ Reached(b) \subseteq Reached(b)'
        BY <1>2 DEF Reached
      <4> QED BY <4>1, RequestsCount
    <3>3. Cardinality(Reached(b)) \in Nat /\ Cardinality(Reached(b)') \in Nat
      BY RequestsCount DEF Reached
    <3>4. Reached(BucketOf(q))' = Reached(b)'
      BY <3>1
    <3>5. hit[q].at = "refused" => Cardinality(Reached(b)') > Allowed
      BY <3>1, <3>2, <3>3, RateConstants DEF HitFine
    <3> QED BY <3>1, <3>5 DEF HitFine
  <2> QED BY <2>1, <2>2
<1>5. ASSUME NEW b \in DOMAIN key' PROVE KeyFine(b)'
  <2>0. b \in DOMAIN key /\ DOMAIN key' = DOMAIN key
    BY DEF RateType
  <2>1. CASE b = BucketOf(r)
    BY <2>1, <1>1
  <2>2. CASE b # BucketOf(r)
    <3>1. KeyFine(b) /\ key'[b] = key[b] /\ LetBy(b)' = LetBy(b) /\ Reached(b)' = Reached(b)
      BY <2>0, <2>2, <1>3 DEF RedisInv
    <3>2. ASSUME NEW q \in R!Requests, BucketOf(q) = b, hit[q].at = "expire" \/ hit[q].failed
          PROVE  BucketOf(q)' = b /\ (hit'[q].at = "expire" \/ hit'[q].failed)
      BY <3>2, <2>2, <1>1
    <3> QED BY <3>1, <3>2 DEF KeyFine
  <2> QED BY <2>1, <2>2
<1> QED BY <1>4, <1>5 DEF RedisInv

\* A request that is decided.
LEMMA DecideMoves ==
  ASSUME RateType, NEW r \in R!Requests, NEW count \in Nat, NEW b \in Nat, NEW f \in BOOLEAN,
         R!Decide(r, count, R!WindowEnd(b), f)
  PROVE  /\ hit' \in [R!Requests -> Hits] /\ hit'[r].t = hit[r].t
         /\ \A q \in R!Requests : q # r => hit'[q] = hit[q]
         /\ hit'[r].at = IF count > Allowed THEN "refused" ELSE "passed"
         /\ hit'[r].failed = f /\ hit'[r].resetAt = R!WindowEnd(b)
         /\ hit[r].at = "expire" => hit'[r].late = hit[r].late
         /\ hit[r].at # "expire" => hit'[r].late = (now > R!WindowEnd(b))
<1> DEFINE ended == now > R!WindowEnd(b)
           late == IF hit[r].at = "expire" THEN hit[r].late ELSE ended
           at == IF count > Allowed THEN "refused" ELSE "passed"
<1>1. R!WindowEnd(b) \in Nat
  BY BucketsApart
<1>2. hit \in [R!Requests -> Hits] /\ hit[r] \in Hits
  BY DEF RateType
<1>3. late \in BOOLEAN
  <2>1. ended \in BOOLEAN /\ hit[r].late \in BOOLEAN
    BY <1>2 DEF Hits
  <2> HIDE DEF ended
  <2> QED BY <2>1
<1>4. at \in {"refused", "passed"}
  OBVIOUS
<1>5. hit' = [hit EXCEPT ![r].at = at, ![r].late = late, ![r].resetAt = R!WindowEnd(b), ![r].failed = f]
  BY DEF R!Decide
<1>6. (hit[r].at = "expire" => late = hit[r].late) /\ (hit[r].at # "expire" => late = ended)
  <2> HIDE DEF ended
  <2> QED OBVIOUS
<1> HIDE DEF ended, late, at
<1>7. hit' \in [R!Requests -> Hits]
  BY <1>1, <1>2, <1>3, <1>4, <1>5 DEF Hits
<1>8. /\ hit'[r].t = hit[r].t /\ hit'[r].at = at /\ hit'[r].late = late
      /\ hit'[r].failed = f /\ hit'[r].resetAt = R!WindowEnd(b)
      /\ \A q \in R!Requests : q # r => hit'[q] = hit[q]
  BY <1>2, <1>5 DEF Hits
<1>9. /\ hit[r].at = "expire" => hit'[r].late = hit[r].late
      /\ hit[r].at # "expire" => hit'[r].late = ended
  BY <1>6, <1>8
<1> QED BY <1>7, <1>8, <1>9 DEF at, ended

\* A first call: of a window's first request, or of a later one, which is
\* decided, or which fails.
LEMMA IncrKeeps ==
  ASSUME RateType, RedisInv, NEW r \in R!Requests, R!Incr(r)
  PROVE  RateType' /\ RedisInv' /\ store' = store
<1> PICK b : b = BucketOf(r)
  OBVIOUS
<1> DEFINE count == key[b].count + 1
<1>1. /\ hit[r].at = "incr" /\ store' = store /\ now' = now /\ window' = window
      /\ key' = [key EXCEPT ![b].count = count]
      /\ IF count = 1 THEN hit' = [hit EXCEPT ![r].at = "expire", ![r].late = now > R!WindowEnd(b)]
         ELSE R!Decide(r, count, R!WindowEnd(b), FALSE)
  BY DEF R!Incr, BucketOf
<1>2. /\ hit[r] \in Hits /\ hit[r].t \in Nat /\ hit[r].t \in 0..Horizon /\ now \in Nat
  BY RateConstants DEF RateType, Hits
<1>3. b \in DOMAIN key /\ b \in Nat /\ R!WindowEnd(b) \in Nat
  BY <1>2, Buckets, BucketsGrow DEF RateType, BucketOf
<1>4. count \in Nat /\ count >= 1
  BY <1>3 DEF RateType
<1> HIDE DEF count
<1>5. /\ key' \in [0..R!Bucket(Horizon) -> [count : Nat, expires : Nat]]
      /\ key'[b].count = count /\ key'[b].expires = key[b].expires
      /\ \A c \in DOMAIN key : c # b => key'[c] = key[c]
  BY <1>1, <1>3, <1>4 DEF RateType
<1>6. /\ hit' \in [R!Requests -> Hits] /\ hit'[r].t = hit[r].t
      /\ \A q \in R!Requests : q # r => hit'[q] = hit[q]
      /\ hit'[r].late = (now > R!WindowEnd(b))
      /\ count = 1 => hit'[r].at = "expire" /\ hit'[r].failed = hit[r].failed
      /\ count # 1 => /\ hit'[r].at = IF count > Allowed THEN "refused" ELSE "passed"
                      /\ hit'[r].failed = FALSE /\ hit'[r].resetAt = R!WindowEnd(b)
  <2>1. CASE count = 1
    <3> DEFINE late == now > R!WindowEnd(b)
    <3>1. late \in BOOLEAN /\ hit' = [hit EXCEPT ![r].at = "expire", ![r].late = late]
      BY <1>1, <2>1
    <3> HIDE DEF late
    <3>2. hit \in [R!Requests -> Hits]
      BY DEF RateType
    <3>3. hit' \in [R!Requests -> Hits]
      BY <3>1, <3>2 DEF Hits
    <3>4. /\ hit'[r].t = hit[r].t /\ hit'[r].late = late
          /\ hit'[r].at = "expire" /\ hit'[r].failed = hit[r].failed
          /\ \A q \in R!Requests : q # r => hit'[q] = hit[q]
      BY <3>1, <3>2 DEF Hits
    <3> QED BY <2>1, <3>3, <3>4 DEF late
  <2>2. CASE count # 1
    <3>1. R!Decide(r, count, R!WindowEnd(b), FALSE) /\ hit[r].at # "expire"
      BY <1>1, <2>2
    <3> QED BY <3>1, <2>2, <1>3, <1>4, DecideMoves
  <2> QED BY <2>1, <2>2
<1>7. HitFine(r) /\ KeyFine(b)
  BY <1>3 DEF RedisInv
<1>8. hit'[r].failed = FALSE
  BY <1>1, <1>2, <1>6, <1>7 DEF HitFine, Hits
<1>9. \A q \in R!Requests : BucketOf(q)' = BucketOf(q)
  BY <1>6 DEF BucketOf
<1>10. Reached(b)' = Reached(b) \cup {r} /\ r \notin Reached(b) /\ r \notin LetBy(b)
  <2>1. hit'[r].at \notin {"idle", "incr"}
    BY <1>6
  <2> QED BY <1>1, <1>6, <1>9, <2>1 DEF Reached, LetBy
<1>11. Cardinality(Reached(b)') = Cardinality(Reached(b)) + 1 /\ Cardinality(Reached(b)) \in Nat
  <2>1. Reached(b) \in SUBSET R!Requests
    BY DEF Reached
  <2> QED BY <1>10, <2>1, OneMore, RequestsCount
<1>12. LetBy(b) \in SUBSET R!Requests /\ Cardinality(LetBy(b)) \in Nat /\ Cardinality(LetBy(b) \cup {r}) = Cardinality(LetBy(b)) + 1
  <2>1. LetBy(b) \in SUBSET R!Requests
    BY DEF LetBy
  <2> QED BY <2>1, <1>10, OneMore, RequestsCount
<1>13. \/ LetBy(b)' = LetBy(b)
       \/ LetBy(b)' = LetBy(b) \cup {r} /\ now <= R!WindowEnd(b) /\ (count = 1 \/ count <= Allowed)
  <2>1. CASE now > R!WindowEnd(b)
    BY <2>1, <1>1, <1>6, <1>9 DEF LetBy
  <2>2. CASE ~(now > R!WindowEnd(b)) /\ count # 1 /\ count > Allowed
    BY <2>2, <1>1, <1>6, <1>9 DEF LetBy
  <2>3. CASE ~(now > R!WindowEnd(b)) /\ (count = 1 \/ ~(count > Allowed))
    <3>1. hit'[r].at \in {"passed", "expire"} /\ ~hit'[r].late /\ ~hit'[r].failed
      BY <2>3, <1>6, <1>8
    <3>2. LetBy(b)' = LetBy(b) \cup {r}
      BY <3>1, <1>6, <1>9 DEF LetBy
    <3> QED BY <2>3, <3>2, <1>2, <1>3, <1>4, RateConstants
  <2> QED BY <2>1, <2>2, <2>3
<1>14. KeyFine(b)'
  <2>1. now' <= R!WindowEnd(b) => Cardinality(LetBy(b)') <= count
    <3> SUFFICES ASSUME now <= R!WindowEnd(b) PROVE Cardinality(LetBy(b)') <= count
      BY <1>1
    <3>1. Cardinality(LetBy(b)) <= key[b].count
      BY <1>7 DEF KeyFine
    <3>2. key[b].count \in Nat /\ count = key[b].count + 1
      BY <1>3 DEF count, RateType
    <3>3. Cardinality(LetBy(b)') = Cardinality(LetBy(b)) \/ Cardinality(LetBy(b)') = Cardinality(LetBy(b)) + 1
      BY <1>12, <1>13
    <3> QED BY <3>1, <3>2, <3>3, <1>12
  <2>2. Cardinality(LetBy(b)') <= Cap
    <3>1. CASE LetBy(b)' = LetBy(b)
      BY <3>1, <1>7 DEF KeyFine
    <3>2. CASE LetBy(b)' = LetBy(b) \cup {r} /\ now <= R!WindowEnd(b) /\ (count = 1 \/ count <= Allowed)
      <4>1. Cardinality(LetBy(b)') = Cardinality(LetBy(b)) + 1 /\ Cardinality(LetBy(b)) <= key[b].count
        BY <3>2, <1>7, <1>12 DEF KeyFine
      <4>2. Cardinality(LetBy(b)') <= count /\ key[b].count \in Nat
        BY <4>1, <1>3, <1>12 DEF count, RateType
      <4> QED BY <4>1, <4>2, <3>2, <1>4, <1>12, RateConstants DEF Cap
    <3> QED BY <3>1, <3>2, <1>13
  <2>3. count <= Cardinality(Reached(b)')
    BY <1>3, <1>7, <1>11 DEF KeyFine, count, RateType
  <2>4. key[b].expires = R!Never =>
          \E q \in R!Requests : BucketOf(q)' = b /\ (hit'[q].at = "expire" \/ hit'[q].failed)
    <3>1. CASE count = 1
      BY <3>1, <1>6, <1>9
    <3>2. CASE count # 1 /\ key[b].expires = R!Never
      <4>1. key[b].count > 0
        BY <3>2, <1>3 DEF count, RateType
      <4>2. PICK q \in R!Requests : BucketOf(q) = b /\ (hit[q].at = "expire" \/ hit[q].failed)
        BY <3>2, <4>1, <1>7 DEF KeyFine
      <4>3. q # r
        BY <4>2, <1>1, <1>7 DEF HitFine
      <4> QED BY <4>2, <4>3, <1>6, <1>9
    <3> QED BY <3>1, <3>2
  <2> QED BY <2>1, <2>2, <2>3, <2>4, <1>5, <1>7 DEF KeyFine
<1>15. HitFine(r)'
  <2>1. CASE count = 1
    BY <2>1, <1>1, <1>6, <1>7, <1>8 DEF HitFine
  <2>2. CASE count # 1
    <3>1. BucketOf(r)' = b
      BY <1>9
    <3>2. hit'[r].at = "refused" => Cardinality(Reached(b)') > Allowed
      BY <2>2, <1>3, <1>4, <1>6, <1>7, <1>11, RateConstants DEF KeyFine, count, RateType
    <3>3. ~(hit'[r].at = "passed" /\ Allowed = 0)
      BY <2>2, <1>4, <1>6
    <3>4. hit'[r].t <= now' /\ hit'[r].resetAt = R!WindowEnd(b) /\ hit'[r].at \in {"passed", "refused"}
      BY <2>2, <1>1, <1>6, <1>7 DEF HitFine
    <3>5. Reached(BucketOf(r))' = Reached(b)'
      BY <3>1
    <3> QED BY <1>8, <3>1, <3>2, <3>3, <3>4, <3>5 DEF HitFine
  <2> QED BY <2>1, <2>2
<1>16. RateType'
  BY <1>1, <1>5, <1>6 DEF RateType
<1>17. KeyFine(BucketOf(r))'
  <2>1. BucketOf(r)' = b
    BY <1>9
  <2> QED BY <1>14, <2>1
<1>18. hit'[r].at \in {"expire", "passed", "refused"}
  BY <1>6
<1>19. RedisInv'
  BY <1>1, <1>5, <1>6, <1>15, <1>17, <1>18, CallStep
<1> QED BY <1>1, <1>16, <1>19

\* A second call that succeeds, or either that fails.
LEMMA DecidedKeeps ==
  ASSUME RateType, RedisInv, NEW r \in R!Requests, hit[r].at \in {"incr", "expire"},
         NEW b \in Nat, b = BucketOf(r), NEW f \in BOOLEAN, R!Decide(r, 1, R!WindowEnd(b), f),
         UNCHANGED <<store, now, window>>, f \/ hit[r].at = "expire",
         NEW count \in Nat, NEW expires \in Nat,
         key' \in [0..R!Bucket(Horizon) -> [count : Nat, expires : Nat]],
         key'[b].count = count, key'[b].expires = expires,
         \A c \in DOMAIN key : c # b => key'[c] = key[c],
         count = key[b].count \/ (count = key[b].count + 1 /\ hit[r].at = "incr"),
         expires > R!WindowEnd(b),
         count > 0 /\ expires = R!Never => f
  PROVE  RateType' /\ RedisInv'
<1>1. /\ hit' \in [R!Requests -> Hits] /\ hit'[r].t = hit[r].t
      /\ \A q \in R!Requests : q # r => hit'[q] = hit[q]
      /\ hit'[r].at = IF Allowed = 0 THEN "refused" ELSE "passed"
      /\ hit'[r].failed = f /\ hit'[r].resetAt = R!WindowEnd(b)
      /\ hit[r].at = "expire" => hit'[r].late = hit[r].late
  BY DecideMoves, RateConstants
<1>2. hit[r].t \in Nat /\ hit[r].t \in 0..Horizon
  BY RateConstants DEF RateType, Hits
<1>3. b \in DOMAIN key /\ R!WindowEnd(b) \in Nat
  BY <1>2, Buckets, BucketsGrow DEF RateType, BucketOf
<1>4. /\ key' \in [0..R!Bucket(Horizon) -> [count : Nat, expires : Nat]]
      /\ key'[b].count = count /\ key'[b].expires = expires
      /\ \A c \in DOMAIN key : c # b => key'[c] = key[c]
  OBVIOUS
<1>5. HitFine(r) /\ KeyFine(b)
  BY <1>3 DEF RedisInv
<1>6. \A q \in R!Requests : BucketOf(q)' = BucketOf(q)
  BY <1>1 DEF BucketOf
<1>7. LetBy(b)' \subseteq LetBy(b)
  <2> SUFFICES ASSUME NEW q \in LetBy(b)' PROVE q \in LetBy(b)
    OBVIOUS
  <2>1. CASE q = r
    BY <2>1, <1>1, <1>5, <1>6 DEF LetBy, HitFine
  <2>2. CASE q # r
    BY <2>2, <1>1, <1>6 DEF LetBy
  <2> QED BY <2>1, <2>2
<1>8. Cardinality(LetBy(b)') <= Cardinality(LetBy(b)) /\ Cardinality(LetBy(b)') \in Nat /\ Cardinality(LetBy(b)) \in Nat
  <2>1. LetBy(b) \subseteq R!Requests /\ LetBy(b)' \subseteq R!Requests
    BY DEF LetBy
  <2> QED BY <2>1, <1>7, RequestsCount
<1>9. Reached(b)' = Reached(b) \cup {r}
  <2>1. hit'[r].at \notin {"idle", "incr"}
    BY <1>1
  <2> QED BY <1>1, <1>6, <2>1 DEF Reached
<1>10. count <= Cardinality(Reached(b)') /\ Cardinality(Reached(b)') >= 1
  <2>1. Reached(b) \in SUBSET R!Requests /\ Reached(b)' \in SUBSET R!Requests
    BY DEF Reached
  <2>2. Cardinality(Reached(b)) \in Nat /\ Cardinality(Reached(b)') \in Nat
    BY <2>1, RequestsCount
  <2>3. Cardinality(Reached(b)) <= Cardinality(Reached(b)')
    BY <2>1, <1>9, RequestsCount
  <2>4. hit[r].at = "incr" => Cardinality(Reached(b)') = Cardinality(Reached(b)) + 1
    <3>1. hit[r].at = "incr" => r \notin Reached(b)
      BY DEF Reached
    <3> QED BY <3>1, <2>1, <1>9, OneMore
  <2>5. Cardinality(Reached(b)') # 0
    BY <2>1, <1>9, RequestsCount, FS_EmptySet
  <2>6. key[b].count <= Cardinality(Reached(b)) /\ key[b].count \in Nat
    BY <1>3, <1>5 DEF KeyFine, RateType
  <2> QED BY <2>2, <2>3, <2>4, <2>5, <2>6
<1>11. KeyFine(b)'
  <2>1. now <= R!WindowEnd(b) => Cardinality(LetBy(b)') <= count
    <3>1. now <= R!WindowEnd(b) => Cardinality(LetBy(b)) <= key[b].count
      BY <1>5 DEF KeyFine
    <3>2. key[b].count \in Nat /\ key[b].count <= count
      BY <1>3 DEF RateType
    <3> QED BY <3>1, <3>2, <1>8
  <2>2. Cardinality(LetBy(b)') <= Cap
    BY <1>5, <1>8, RateConstants DEF KeyFine, Cap
  <2>3. count > 0 /\ expires = R!Never => BucketOf(r)' = b /\ hit'[r].failed
    BY <1>1, <1>6
  <2> QED BY <2>1, <2>2, <2>3, <1>4, <1>10 DEF KeyFine
<1>12. HitFine(r)'
  <2>1. BucketOf(r)' = b
    BY <1>6
  <2>2. Reached(BucketOf(r))' = Reached(b)'
    BY <2>1
  <2>3. hit'[r].at = "refused" => Cardinality(Reached(b)') > Allowed
    BY <1>1, <1>10, RateConstants, RequestsCount DEF Reached
  <2>4. hit'[r].t <= now' /\ hit'[r].at \in {"passed", "refused"} /\ ~(hit'[r].at = "passed" /\ Allowed = 0)
    BY <1>1, <1>5 DEF HitFine
  <2> QED BY <2>1, <2>2, <2>3, <2>4, <1>1 DEF HitFine
<1>13. KeyFine(BucketOf(r))'
  <2>1. BucketOf(r)' = b
    BY <1>6
  <2> QED BY <1>11, <2>1
<1>14. RedisInv'
  <2>1. hit'[r].at \in {"expire", "passed", "refused"}
    BY <1>1
  <2> QED BY <1>1, <1>4, <1>12, <1>13, <2>1, CallStep
<1>15. RateType'
  BY <1>1, <1>4 DEF RateType
<1> QED BY <1>14, <1>15

\* The time to live is set, past the window's end, and the first is decided.
LEMMA ExpireKeeps ==
  ASSUME RateType, RedisInv, NEW r \in R!Requests, R!Expire(r)
  PROVE  RateType' /\ RedisInv' /\ store' = store
<1>1. PICK b : b = BucketOf(r)
  OBVIOUS
<1>2. /\ hit[r].at = "expire" /\ UNCHANGED <<store, now, window>>
      /\ key' = [key EXCEPT ![b].expires = IF key[b].count = 0 THEN R!Never ELSE now + Window + 1]
      /\ R!Decide(r, 1, R!WindowEnd(b), FALSE)
  BY <1>1 DEF R!Expire, BucketOf
<1>3. hit[r].t \in Nat /\ hit[r].t \in 0..Horizon /\ now \in 0..Horizon /\ hit[r].t <= now
  BY RateConstants DEF RateType, Hits, RedisInv, HitFine
<1>4. b \in DOMAIN key /\ b \in Nat /\ R!WindowEnd(b) \in Nat /\ R!WindowEnd(b) <= hit[r].t + Window
  BY <1>1, <1>3, Buckets, BucketsGrow DEF RateType, BucketOf
<1> DEFINE e == IF key[b].count = 0 THEN R!Never ELSE now + Window + 1
           n == key[b].count
<1>6. n \in Nat /\ e \in Nat /\ e > R!WindowEnd(b)
  BY <1>3, <1>4, RateConstants DEF RateType, R!Never
<1>5. /\ key' \in [0..R!Bucket(Horizon) -> [count : Nat, expires : Nat]]
      /\ key'[b].count = n /\ key'[b].expires = e
      /\ \A c \in DOMAIN key : c # b => key'[c] = key[c]
  <2>1. key' = [key EXCEPT ![b].expires = e]
    BY <1>2
  <2> HIDE DEF e
  <2> QED BY <2>1, <1>4, <1>6 DEF RateType
<1>7. ~(n > 0 /\ e = R!Never)
  BY <1>3, <1>6, RateConstants DEF R!Never
<1>8. n = key[b].count
  OBVIOUS
<1> HIDE DEF e, n
<1>9. RateType' /\ RedisInv'
  <2>1. PICK f \in BOOLEAN : f = FALSE
    OBVIOUS
  <2>2. R!Decide(r, 1, R!WindowEnd(b), f)
    BY <1>2, <2>1
  <2>3. n > 0 /\ e = R!Never => f
    BY <1>7
  <2>4. f \/ hit[r].at = "expire"
    BY <1>2
  <2>5. hit[r].at \in {"incr", "expire"} /\ UNCHANGED <<store, now, window>>
    BY <1>2
  <2>6. n = key[b].count \/ (n = key[b].count + 1 /\ hit[r].at = "incr")
    BY <1>8
  <2> QED BY <1>1, <1>4, <1>5, <1>6, <2>2, <2>3, <2>4, <2>5, <2>6, DecidedKeeps
<1> QED BY <1>2, <1>9

\* A call that fails lets its request through, counted or not.
LEMMA RedisFailsKeeps ==
  ASSUME RateType, RedisInv, NEW r \in R!Requests, R!RedisFails(r)
  PROVE  RateType' /\ RedisInv' /\ store' = store
<1>1. PICK b : b = BucketOf(r)
  OBVIOUS
<1>2. /\ hit[r].at \in {"incr", "expire"} /\ UNCHANGED <<store, now, window>>
      /\ \/ key' = key
         \/ hit[r].at = "incr" /\ key' = [key EXCEPT ![b].count = key[b].count + 1]
      /\ R!Decide(r, 1, R!WindowEnd(b), TRUE)
  BY <1>1 DEF R!RedisFails, BucketOf
<1>3. hit[r].t \in Nat /\ hit[r].t \in 0..Horizon
  BY RateConstants DEF RateType, Hits
<1>4. b \in DOMAIN key /\ b \in Nat /\ KeyFine(b)
  BY <1>1, <1>3, Buckets, BucketsGrow DEF RateType, BucketOf, RedisInv
<1>5. key[b].expires \in Nat /\ key[b].count \in Nat /\ key[b].expires > R!WindowEnd(b)
  BY <1>4 DEF RateType, KeyFine
<1>6. CASE key' = key
  <2>1. key' \in [0..R!Bucket(Horizon) -> [count : Nat, expires : Nat]]
    BY <1>6 DEF RateType
  <2> QED BY <2>1, <1>1, <1>2, <1>4, <1>5, <1>6, DecidedKeeps
<1>7. CASE hit[r].at = "incr" /\ key' = [key EXCEPT ![b].count = key[b].count + 1]
  <2>1. /\ key' \in [0..R!Bucket(Horizon) -> [count : Nat, expires : Nat]]
        /\ key'[b].count = key[b].count + 1 /\ key'[b].expires = key[b].expires
        /\ \A c \in DOMAIN key : c # b => key'[c] = key[c]
    <3> DEFINE m == key[b].count + 1
    <3>1. m \in Nat /\ key' = [key EXCEPT ![b].count = m]
      BY <1>5, <1>7
    <3>2. key \in [0..R!Bucket(Horizon) -> [count : Nat, expires : Nat]] /\ b \in 0..R!Bucket(Horizon)
      BY <1>4 DEF RateType
    <3> HIDE DEF m
    <3>3. key' \in [0..R!Bucket(Horizon) -> [count : Nat, expires : Nat]]
      BY <3>1, <3>2
    <3>4. /\ key'[b].count = m /\ key'[b].expires = key[b].expires
          /\ \A c \in DOMAIN key : c # b => key'[c] = key[c]
      BY <3>1, <3>2
    <3>5. m = key[b].count + 1
      BY DEF m
    <3> QED BY <3>3, <3>4, <3>5
  <2>2. PICK n \in Nat : n = key[b].count + 1
    BY <1>5
  <2>3. PICK e \in Nat : e = key[b].expires
    BY <1>5
  <2>4. PICK f \in BOOLEAN : f = TRUE
    OBVIOUS
  <2>5. R!Decide(r, 1, R!WindowEnd(b), f)
    BY <1>2, <2>4
  <2>6. key'[b].count = n /\ key'[b].expires = e /\ e > R!WindowEnd(b)
    BY <1>5, <2>1, <2>2, <2>3
  <2>7. (f \/ hit[r].at = "expire") /\ (n > 0 /\ e = R!Never => f)
    BY <2>4
  <2>8. n = key[b].count \/ (n = key[b].count + 1 /\ hit[r].at = "incr")
    BY <1>7, <2>2
  <2>9. RateType' /\ RedisInv'
    BY <2>1, <1>1, <1>2, <1>4, <2>5, <2>6, <2>7, <2>8, DecidedKeeps
  <2> QED BY <2>9, <1>2
<1> QED BY <1>2, <1>6, <1>7

\* A request comes, and is not counted yet.
LEMMA ArriveKeeps ==
  ASSUME RateType, RedisInv, NEW r \in R!Requests, R!Arrive(r)
  PROVE  RateType' /\ RedisInv' /\ store' = store
<1>1. /\ hit[r].at = "idle" /\ hit' = [hit EXCEPT ![r].at = "incr", ![r].t = now]
      /\ UNCHANGED <<store, now, key, window>>
  BY DEF R!Arrive, R!Comes
<1>2. /\ hit' \in [R!Requests -> Hits] /\ hit'[r].at = "incr" /\ hit'[r].t = now
      /\ hit'[r].failed = hit[r].failed
      /\ \A q \in R!Requests : q # r => hit'[q] = hit[q]
  BY <1>1 DEF RateType, Hits
<1>3. HitFine(r) /\ ~hit[r].failed /\ now \in Nat
  BY <1>1, RateConstants DEF RedisInv, HitFine, RateType
<1>4. \A q \in R!Requests : q # r => BucketOf(q)' = BucketOf(q)
  BY <1>2 DEF BucketOf
<1>5. \A b : LetBy(b)' = LetBy(b) /\ Reached(b)' = Reached(b)
  BY <1>1, <1>2, <1>4 DEF LetBy, Reached
<1>6. ASSUME NEW q \in R!Requests PROVE HitFine(q)'
  <2>1. CASE q = r
    BY <2>1, <1>1, <1>2, <1>3 DEF HitFine
  <2>2. CASE q # r
    <3>1. PICK b : b = BucketOf(q)
      OBVIOUS
    <3>2. HitFine(q) /\ hit'[q] = hit[q] /\ BucketOf(q)' = b /\ Reached(b)' = Reached(b)
      BY <2>2, <3>1, <1>2, <1>4, <1>5 DEF RedisInv
    <3>3. Reached(BucketOf(q))' = Reached(b)'
      BY <3>2
    <3> QED BY <3>1, <3>2, <3>3, <1>1 DEF HitFine
  <2> QED BY <2>1, <2>2
<1>7. ASSUME NEW b \in DOMAIN key PROVE KeyFine(b)'
  <2>1. KeyFine(b) /\ LetBy(b)' = LetBy(b) /\ Reached(b)' = Reached(b)
    BY <1>5 DEF RedisInv
  <2>2. ASSUME NEW q \in R!Requests, BucketOf(q) = b, hit[q].at = "expire" \/ hit[q].failed
        PROVE  BucketOf(q)' = b /\ (hit'[q].at = "expire" \/ hit'[q].failed)
    BY <2>2, <1>1, <1>2, <1>3, <1>4
  <2> QED BY <2>1, <2>2, <1>1 DEF KeyFine
<1> QED BY <1>1, <1>2, <1>6, <1>7 DEF RedisInv, RateType

\* A key goes only when its window is over.
LEMMA ElapseKeeps ==
  ASSUME RateInv, R!Elapse
  PROVE  RateInv'
<1>1. /\ now < Horizon /\ now' = now + 1 /\ UNCHANGED <<store, window, hit>>
      /\ key' = [b \in DOMAIN key |-> IF key[b].expires <= now' THEN R!NoKey ELSE key[b]]
  BY DEF R!Elapse
<1>2. RateType
  BY DEF RateInv
<1>3. now \in Nat /\ now' \in 0..Horizon /\ R!NoKey \in [count : Nat, expires : Nat]
  BY <1>1, <1>2, RateConstants DEF RateType, R!NoKey, R!Never
<1>4. key' \in [0..R!Bucket(Horizon) -> [count : Nat, expires : Nat]] /\ DOMAIN key' = DOMAIN key
  BY <1>1, <1>2, <1>3 DEF RateType
<1>5. RateType'
  BY <1>1, <1>2, <1>3, <1>4 DEF RateType
<1>6. \A q : BucketOf(q)' = BucketOf(q)
  BY <1>1 DEF BucketOf
<1>7. \A b : LetBy(b)' = LetBy(b) /\ Reached(b)' = Reached(b) /\ Within(b)' = Within(b) /\ LetWithin(b)' = LetWithin(b)
  BY <1>1, <1>6 DEF LetBy, Reached, Within, LetWithin
<1>8. CASE store = "redis"
  <2>1. RedisInv
    BY <1>8 DEF RateInv
  <2>2. ASSUME NEW q \in R!Requests PROVE HitFine(q)'
    <3>1. PICK b : b = BucketOf(q)
      OBVIOUS
    <3>2. HitFine(q) /\ BucketOf(q)' = b /\ Reached(b)' = Reached(b)
      BY <2>1, <3>1, <1>6, <1>7 DEF RedisInv
    <3>3. Reached(BucketOf(q))' = Reached(b)'
      BY <3>2
    <3>4. hit[q].t \in Nat
      BY <1>2, RateConstants DEF RateType, Hits
    <3>5. hit'[q].t <= now'
      BY <3>2, <3>4, <1>1, <1>3 DEF HitFine
    <3> QED BY <3>1, <3>2, <3>3, <3>5, <1>1 DEF HitFine
  <2>3. ASSUME NEW b \in DOMAIN key' PROVE KeyFine(b)'
    <3>1. KeyFine(b) /\ LetBy(b)' = LetBy(b) /\ Reached(b)' = Reached(b) /\ b \in DOMAIN key
      BY <2>1, <1>4, <1>7 DEF RedisInv
    <3>2. key[b].count \in Nat /\ key[b].expires \in Nat /\ b \in 0..R!Bucket(Horizon)
      BY <3>1, <1>2 DEF RateType
    <3>3. R!WindowEnd(b) \in Nat /\ R!WindowEnd(b) <= Horizon + Window
      <4>1. b \in Nat /\ R!Bucket(Horizon) \in Nat /\ b <= R!Bucket(Horizon)
        BY <3>2, RateConstants, Buckets
      <4>2. R!WindowEnd(R!Bucket(Horizon)) <= Horizon + Window
        BY RateConstants, Buckets
      <4>3. R!WindowEnd(b) <= R!WindowEnd(R!Bucket(Horizon)) /\ R!WindowEnd(R!Bucket(Horizon)) \in Nat
        BY <4>1, BucketsApart
      <4>4. R!WindowEnd(b) \in Nat
        BY <4>1, BucketsApart
      <4> QED BY <4>2, <4>3, <4>4, RateConstants
    <3>4. Cardinality(Reached(b)) \in Nat
      BY RequestsCount DEF Reached
    <3>5. CASE key[b].expires <= now'
      <4>1. key'[b] = R!NoKey /\ R!NoKey.count = 0 /\ R!NoKey.expires = Horizon + Window + 2
        BY <3>1, <3>5, <1>1 DEF R!NoKey, R!Never
      <4>2. ~(now' <= R!WindowEnd(b))
        BY <3>1, <3>2, <3>3, <3>5, <1>3 DEF KeyFine
      <4>3. Horizon + Window + 2 > R!WindowEnd(b)
        BY <3>3, RateConstants
      <4> QED BY <3>1, <3>4, <4>1, <4>2, <4>3 DEF KeyFine
    <3>6. CASE ~(key[b].expires <= now')
      <4>1. key'[b] = key[b]
        BY <3>1, <3>6, <1>1
      <4>2. now' <= R!WindowEnd(b) => now <= R!WindowEnd(b)
        BY <3>3, <1>1, <1>3
      <4> QED BY <3>1, <4>1, <4>2, <1>1, <1>6 DEF KeyFine
    <3> QED BY <3>5, <3>6
  <2> QED BY <1>1, <1>5, <1>8, <2>2, <2>3 DEF RateInv, RedisInv
<1>9. CASE store = "memory"
  <2>1. MemoryInv
    BY <1>9 DEF RateInv
  <2>2. \A b \in DOMAIN key' : key'[b].count = 0
    BY <2>1, <1>1, <1>4 DEF MemoryInv, R!NoKey
  <2>3. window'.start <= now'
    BY <2>1, <1>1, <1>2, <1>3 DEF MemoryInv, RateType
  <2>4. ASSUME NEW q \in R!Requests PROVE MemoryHit(q)'
    <3>1. MemoryHit(q)
      BY <2>1 DEF MemoryInv
    <3>2. PICK v : v = hit[q].resetAt
      OBVIOUS
    <3>3. Within(hit[q].resetAt)' = Within(v) /\ Within(hit[q].resetAt) = Within(v)
      BY <3>2, <1>1, <1>7
    <3> QED BY <3>1, <3>3, <1>1 DEF MemoryHit
  <2>5. Within(window.start + Window)' = Within(window.start + Window)
    BY <1>1, <1>7 DEF Within
  <2>6. MemoryInv'
    BY <2>1, <2>2, <2>3, <2>4, <2>5, <1>1, <1>7 DEF MemoryInv
  <2> QED BY <1>1, <1>5, <1>9, <2>6 DEF RateInv
<1> QED BY <1>2, <1>8, <1>9 DEF RateType

\* In memory a request is counted and decided in one step.
LEMMA HitMemoryKeeps ==
  ASSUME RateType, MemoryInv, NEW r \in R!Requests, R!HitMemory(r)
  PROVE  RateType' /\ MemoryInv' /\ store' = store
<1>1. /\ hit[r].at = "idle" /\ UNCHANGED <<store, now, key>>
      /\ window' = IF window.count = 0 \/ now - window.start >= Window
                   THEN [count |-> 1, start |-> now]
                   ELSE [window EXCEPT !.count = @ + 1]
      /\ hit' = [hit EXCEPT ![r].t = now, ![r].resetAt = window'.start + Window,
                            ![r].at = IF window'.count > Allowed THEN "refused" ELSE "passed"]
  BY DEF R!HitMemory, R!Comes
<1>2. /\ window \in [count : Nat, start : 0..Horizon] /\ now \in 0..Horizon
      /\ hit \in [R!Requests -> Hits] /\ window.start \in Nat /\ window.count \in Nat /\ now \in Nat
      /\ Window \in Nat \ {0} /\ Allowed \in Nat
  BY RateConstants DEF RateType
<1>3. \E n \in Nat, s \in 0..Horizon : window' = [count |-> n, start |-> s]
  <2>1. CASE window.count = 0 \/ now - window.start >= Window
    BY <2>1, <1>1, <1>2
  <2>2. CASE ~(window.count = 0 \/ now - window.start >= Window)
    <3>1. window' = [window EXCEPT !.count = @ + 1]
      BY <2>2, <1>1
    <3>2. window' = [count |-> window.count + 1, start |-> window.start]
      BY <3>1, <1>2
    <3>3. window.count + 1 \in Nat /\ window.start \in 0..Horizon
      BY <1>2
    <3> QED BY <3>2, <3>3
  <2> QED BY <2>1, <2>2
<1>4. PICK n \in Nat, s \in 0..Horizon : window' = [count |-> n, start |-> s]
  BY <1>3
<1>5. PICK end \in Nat : end = s + Window
  BY <1>2, <1>4, RateConstants
<1>6. PICK at \in {"refused", "passed"} : at = IF n > Allowed THEN "refused" ELSE "passed"
  BY <1>2
<1>7. hit' = [hit EXCEPT ![r].t = now, ![r].resetAt = end, ![r].at = at]
  <2>1. window'.start + Window = end
    BY <1>4, <1>5
  <2>2. (IF window'.count > Allowed THEN "refused" ELSE "passed") = at
    BY <1>4, <1>6
  <2>3. hit' = [hit EXCEPT ![r].t = now, ![r].resetAt = window'.start + Window,
                           ![r].at = IF window'.count > Allowed THEN "refused" ELSE "passed"]
    BY <1>1
  <2> QED BY <2>1, <2>2, <2>3
<1>8. /\ hit' \in [R!Requests -> Hits]
      /\ hit'[r].t = now /\ hit'[r].resetAt = end /\ hit'[r].at = at
      /\ hit'[r].late = hit[r].late /\ hit'[r].failed = hit[r].failed
      /\ \A q \in R!Requests : q # r => hit'[q] = hit[q]
  BY <1>2, <1>7 DEF Hits
<1>9. /\ \A v : v # end => Within(v)' = Within(v) /\ LetWithin(v)' = LetWithin(v)
      /\ Within(end)' = Within(end) \cup {r} /\ r \notin Within(end)
      /\ LetWithin(end)' \subseteq Within(end)'
      /\ at = "refused" => LetWithin(end)' = LetWithin(end)
  BY <1>1, <1>6, <1>8 DEF Within, LetWithin
<1>10. /\ \A v : Within(v) \in SUBSET R!Requests /\ LetWithin(v) \in SUBSET R!Requests
       /\ \A v : Cardinality(Within(v)) \in Nat /\ Cardinality(LetWithin(v)) \in Nat
       /\ Cardinality(Within(end)') = Cardinality(Within(end)) + 1
       /\ Cardinality(LetWithin(end)') \in Nat
       /\ Cardinality(LetWithin(end)') <= Cardinality(Within(end)')
  <2>1. \A v : Within(v) \in SUBSET R!Requests /\ LetWithin(v) \in SUBSET R!Requests
    BY DEF Within, LetWithin
  <2>2. Within(end)' \in SUBSET R!Requests /\ LetWithin(end)' \in SUBSET R!Requests
    BY DEF Within, LetWithin
  <2>3. Cardinality(Within(end)') = Cardinality(Within(end)) + 1
    BY <1>9, <2>1, OneMore
  <2>4. \A v : Cardinality(Within(v)) \in Nat /\ Cardinality(LetWithin(v)) \in Nat
    BY <2>1, RequestsCount
  <2>5. Cardinality(LetWithin(end)') \in Nat /\ Cardinality(LetWithin(end)') <= Cardinality(Within(end)')
    BY <1>9, <2>2, RequestsCount
  <2> QED BY <2>1, <2>2, <2>3, <2>4, <2>5
\* Whatever window it is, it counts what came within it and ends last.
<1>11. /\ n = Cardinality(Within(end)') /\ n # 0
       /\ s <= now /\ now < end /\ end <= now + Window
       /\ \A q \in R!Requests : hit[q].at # "idle" => hit[q].resetAt <= end
  <2>1. CASE window.count = 0 \/ now - window.start >= Window
    <3>1. n = 1 /\ s = now
      BY <2>1, <1>1, <1>4
    <3>2. \A q \in R!Requests : hit[q].at # "idle" => hit[q].resetAt < end
      <4> SUFFICES ASSUME NEW q \in R!Requests, hit[q].at # "idle" PROVE hit[q].resetAt < end
        OBVIOUS
      <4>1. window.count # 0 /\ hit[q].resetAt <= window.start + Window
        BY DEF MemoryInv, MemoryHit
      <4>2. hit[q].resetAt \in Nat
        BY <1>2 DEF Hits
      <4> QED BY <2>1, <3>1, <4>1, <4>2, <1>2, <1>5
    <3>3. \A q \in R!Requests : hit[q].resetAt \in Nat
      BY <1>2 DEF Hits
    <3>4. Within(end) = {}
      BY <3>2, <3>3, <1>5 DEF Within
    <3>5. Cardinality(Within(end)') = 1
      BY <3>4, <1>10, FS_EmptySet
    <3>6. \A q \in R!Requests : hit[q].at # "idle" => hit[q].resetAt <= end
      BY <3>2, <3>3, <1>5
    <3> QED BY <3>1, <3>5, <3>6, <1>2, <1>5
  <2>2. CASE ~(window.count = 0 \/ now - window.start >= Window)
    <3>1. n = window.count + 1 /\ s = window.start
      BY <2>2, <1>1, <1>2, <1>4
    <3>2. window.count = Cardinality(Within(window.start + Window)) /\ window.start <= now
      BY DEF MemoryInv
    <3>3. end = window.start + Window
      BY <3>1, <1>5
    <3>4. \A q \in R!Requests : hit[q].at # "idle" => hit[q].resetAt <= end
      BY <3>3 DEF MemoryInv, MemoryHit
    <3>5. now < end /\ end <= now + Window /\ s <= now
      BY <2>2, <3>1, <3>2, <3>3, <1>2
    <3>6. n = Cardinality(Within(end)') /\ n # 0
      BY <3>1, <3>2, <3>3, <1>2, <1>10
    <3> QED BY <3>4, <3>5, <3>6
  <2> QED BY <2>1, <2>2
<1>12. window'.count = n /\ window'.start = s /\ window'.start + Window = end
  BY <1>4, <1>5
<1>13. RateType'
  BY <1>1, <1>2, <1>4, <1>8 DEF RateType
<1>14. \A b \in DOMAIN key' : key'[b].count = 0
  BY <1>1 DEF MemoryInv
<1>15. Within(window.start + Window)' = Within(end)'
  BY <1>12
<1>16. ASSUME NEW q \in R!Requests PROVE MemoryHit(q)'
  <2>1. CASE q = r
    <3>1. ~hit'[r].late /\ ~hit'[r].failed
      BY <1>8 DEF MemoryInv, MemoryHit
    <3>2. Within(hit[r].resetAt)' = Within(end)'
      BY <1>8
    <3>3. hit'[r].at = "refused" => Cardinality(Within(end)') > Allowed
      BY <1>2, <1>6, <1>8, <1>11
    <3>4. /\ hit'[r].at \in {"idle", "passed", "refused"}
          /\ hit'[r].resetAt <= window'.start + Window
          /\ hit'[r].t < hit'[r].resetAt /\ hit'[r].resetAt <= hit'[r].t + Window
      BY <1>5, <1>6, <1>8, <1>11, <1>12
    <3> QED BY <2>1, <3>1, <3>2, <3>3, <3>4 DEF MemoryHit
  <2>2. CASE q # r
    <3>1. MemoryHit(q) /\ hit'[q] = hit[q]
      BY <2>2, <1>8 DEF MemoryInv
    <3>2. PICK v : v = hit[q].resetAt
      OBVIOUS
    <3>3. Cardinality(Within(v)) > Allowed => Cardinality(Within(v)') > Allowed
      <4>1. CASE v = end
        BY <4>1, <1>2, <1>10
      <4>2. CASE v # end
        BY <4>2, <1>9
      <4> QED BY <4>1, <4>2
    <3>4. Within(hit[q].resetAt)' = Within(v)'
      BY <3>1, <3>2
    <3>5. hit'[q].at = "refused" => Cardinality(Within(hit[q].resetAt)') > Allowed
      BY <3>1, <3>2, <3>3, <3>4 DEF MemoryHit
    <3>6. hit'[q].at # "idle" => hit'[q].resetAt <= window'.start + Window
      BY <3>1, <1>11, <1>12
    <3> QED BY <3>1, <3>5, <3>6 DEF MemoryHit
  <2> QED BY <2>1, <2>2
<1>17. ASSUME NEW v \in Nat PROVE Cardinality(LetWithin(v)') <= Allowed
  <2>1. Cardinality(LetWithin(v)) <= Allowed
    BY DEF MemoryInv
  <2>2. CASE v # end \/ at = "refused"
    BY <2>1, <2>2, <1>9
  <2>3. CASE v = end /\ at = "passed"
    <3>1. n <= Allowed
      BY <2>3, <1>2, <1>6
    <3> QED BY <2>3, <3>1, <1>2, <1>10, <1>11
  <2> QED BY <2>2, <2>3
<1>18. MemoryInv'
  <2>1. window'.start <= now'
    BY <1>1, <1>11, <1>12
  <2>2. window'.count = Cardinality(Within(window.start + Window)')
    BY <1>11, <1>12, <1>15
  <2>3. window'.count # 0
    BY <1>11, <1>12
  <2> QED BY <1>14, <1>16, <1>17, <2>1, <2>2, <2>3 DEF MemoryInv
<1> QED BY <1>1, <1>13, <1>18

\* Every step of the rate limit, of either store, keeps its counts.
LEMMA RateKeeps ==
  ASSUME RateInv, [R!Next]_(R!rateVars)
  PROVE  RateInv'
<1>0. RateType /\ (store = "redis" => RedisInv) /\ (store = "memory" => MemoryInv)
  BY DEF RateInv
<1>1. CASE UNCHANGED R!rateVars
  BY <1>1, <1>0 DEF R!rateVars, RateInv, RateType, RedisInv, HitFine, KeyFine, MemoryInv, MemoryHit,
                    LetBy, Reached, Within, LetWithin, BucketOf
<1>2. CASE R!Elapse
  BY <1>2, ElapseKeeps
<1>3. ASSUME NEW r \in R!Requests, R!Arrive(r) PROVE RateInv'
  <2>1. store = "redis"
    BY <1>3 DEF R!Arrive
  <2> QED BY <1>0, <1>3, <2>1, ArriveKeeps DEF RateInv
\* In memory no request is at a call.
<1>4. ASSUME NEW r \in R!Requests, hit[r].at \in {"incr", "expire"} PROVE store = "redis" /\ RedisInv
  <2>1. store # "memory"
    BY <1>0, <1>4 DEF MemoryInv, MemoryHit
  <2> QED BY <1>0, <2>1 DEF RateType
<1>5. ASSUME NEW r \in R!Requests, R!Incr(r) PROVE RateInv'
  <2>1. hit[r].at = "incr"
    BY <1>5 DEF R!Incr
  <2>2. store = "redis" /\ RedisInv
    BY <2>1, <1>4
  <2> QED BY <1>0, <1>5, <2>2, IncrKeeps DEF RateInv
<1>6. ASSUME NEW r \in R!Requests, R!Expire(r) PROVE RateInv'
  <2>1. hit[r].at = "expire"
    BY <1>6 DEF R!Expire
  <2>2. store = "redis" /\ RedisInv
    BY <2>1, <1>4
  <2> QED BY <1>0, <1>6, <2>2, ExpireKeeps DEF RateInv
<1>7. ASSUME NEW r \in R!Requests, R!RedisFails(r) PROVE RateInv'
  <2>1. hit[r].at \in {"incr", "expire"}
    BY <1>7 DEF R!RedisFails
  <2>2. store = "redis" /\ RedisInv
    BY <2>1, <1>4
  <2> QED BY <1>0, <1>7, <2>2, RedisFailsKeeps DEF RateInv
<1>8. ASSUME NEW r \in R!Requests, R!HitMemory(r) PROVE RateInv'
  <2>1. store = "memory"
    BY <1>8 DEF R!HitMemory
  <2> QED BY <1>0, <1>8, <2>1, HitMemoryKeeps DEF RateInv
<1> QED BY <1>1, <1>2, <1>3, <1>5, <1>6, <1>7, <1>8 DEF R!Next

\* No window lets more through than it allows but for a failure or a delay, a
\* refusal has its cause, and a key without a time to live has its
\* (rateLimit.ts:31-63), in Redis and in memory, for any window, limit and
\* number of requests, however their two calls fall or fail.
LEMMA RateLimited == ServicesSpec => []R!RateIsLimited
<1>1. ServicesInit => RateInv
  <2> SUFFICES ASSUME R!Init PROVE RateInv
    BY DEF ServicesInit
  <2>1. /\ now = 0 /\ store \in {"redis", "memory"}
        /\ key = [b \in 0..R!Bucket(Horizon) |-> R!NoKey] /\ window = [count |-> 0, start |-> 0]
        /\ hit = [r \in R!Requests |-> [at |-> "idle", t |-> 0, late |-> FALSE, resetAt |-> 0, failed |-> FALSE]]
    BY DEF R!Init
  <2>2. R!NoKey \in [count : Nat, expires : Nat] /\ R!NoKey.count = 0 /\ R!NoKey.expires = Horizon + Window + 2
    BY RateConstants DEF R!NoKey, R!Never
  <2>3. \A r \in R!Requests : /\ hit[r].at = "idle" /\ hit[r].t = 0 /\ hit[r].late = FALSE
                              /\ hit[r].resetAt = 0 /\ hit[r].failed = FALSE
    BY <2>1
  <2>4. RateType
    <3>1. hit \in [R!Requests -> Hits]
      BY <2>1, RateConstants DEF Hits
    <3>2. key \in [0..R!Bucket(Horizon) -> [count : Nat, expires : Nat]]
      BY <2>1, <2>2
    <3>3. now \in 0..Horizon /\ window \in [count : Nat, start : 0..Horizon]
      BY <2>1, RateConstants
    <3> QED BY <2>1, <3>1, <3>2, <3>3 DEF RateType
  <2>5. Cardinality({}) = 0
    BY FS_EmptySet
  <2>6. \A b : LetBy(b) = {} /\ Reached(b) = {} /\ Within(b) = {} /\ LetWithin(b) = {}
    BY <2>3 DEF LetBy, Reached, Within, LetWithin
  <2>7. RedisInv
    <3>1. \A r \in R!Requests : HitFine(r)
      BY <2>1, <2>3 DEF HitFine
    <3>2. ASSUME NEW b \in DOMAIN key PROVE KeyFine(b)
      <4>1. key[b] = R!NoKey /\ b \in 0..R!Bucket(Horizon)
        BY <2>1, <3>2
      <4>2. b \in Nat /\ R!Bucket(Horizon) \in Nat /\ b <= R!Bucket(Horizon)
        BY <4>1, RateConstants, Buckets
      <4>3. R!WindowEnd(b) \in Nat /\ R!WindowEnd(b) <= R!WindowEnd(R!Bucket(Horizon))
        BY <4>2, BucketsApart
      <4>4. R!WindowEnd(R!Bucket(Horizon)) <= Horizon + Window /\ R!WindowEnd(R!Bucket(Horizon)) \in Nat
        BY RateConstants, Buckets
      <4>5. Horizon + Window + 2 > R!WindowEnd(b)
        BY <4>3, <4>4, RateConstants
      <4> QED BY <2>2, <2>5, <2>6, <4>1, <4>5, RateConstants DEF KeyFine, Cap
    <3> QED BY <3>1, <3>2 DEF RedisInv
  <2>8. MemoryInv
    <3>1. \A r \in R!Requests : MemoryHit(r)
      BY <2>3 DEF MemoryHit
    <3>2. \A b \in DOMAIN key : key[b].count = 0
      BY <2>1, <2>2
    <3>3. \A v \in Nat : Cardinality(LetWithin(v)) <= Allowed
      BY <2>5, <2>6, RateConstants
    <3>4. window.start = 0 /\ window.count = 0
      BY <2>1
    <3>5. window.count = Cardinality(Within(window.start + Window))
      BY <2>5, <2>6, <3>4
    <3> QED BY <2>1, <2>3, <3>1, <3>2, <3>3, <3>4, <3>5 DEF MemoryInv
  <2> QED BY <2>4, <2>7, <2>8 DEF RateInv
<1>2. RateInv /\ [ServicesNext]_allVars => RateInv'
  <2>1. [ServicesNext]_allVars => [R!Next]_(R!rateVars)
    BY DEF ServicesNext, allVars, rateVars,
       R!rateVars
  <2> QED BY <2>1, RateKeeps
<1>3. RateInv => R!RateIsLimited
  <2> SUFFICES ASSUME RateInv PROVE R!RateIsLimited
    OBVIOUS
  <2>0. RateType /\ (store = "redis" => RedisInv) /\ (store = "memory" => MemoryInv)
    BY DEF RateInv
  <2>1. \A r \in R!Requests : hit[r] \in Hits /\ hit[r].t \in Nat /\ hit[r].resetAt \in Nat
    BY <2>0, RateConstants DEF RateType, Hits
  <2>2. CASE store = "redis"
    <3>0. RedisInv
      BY <2>0, <2>2
    <3>1. R!WindowsHold
      <4> SUFFICES ASSUME NEW v \in {hit[r].resetAt : r \in R!Requests}
                   PROVE  Cardinality({r \in R!Requests : /\ hit[r].at = "passed" /\ ~hit[r].failed
                                                          /\ hit[r].resetAt = v /\ ~hit[r].late}) <= Allowed
        BY SameCount DEF R!WindowsHold
      <4> DEFINE P0 == {r \in R!Requests : /\ hit[r].at = "passed" /\ ~hit[r].failed
                                           /\ hit[r].resetAt = v /\ ~hit[r].late}
      <4>1. CASE P0 = {}
        <5>1. Cardinality({}) = 0 /\ 0 <= Allowed
          BY FS_EmptySet, RateConstants
        <5> HIDE DEF P0
        <5>2. Cardinality(P0) <= Allowed
          BY <4>1, <5>1
        <5> QED BY <5>2 DEF P0
      <4>2. CASE P0 # {}
        <5>1. PICK r \in R!Requests : hit[r].at = "passed" /\ ~hit[r].failed /\ hit[r].resetAt = v
          BY <4>2
        <5>2. PICK b \in Nat : b = BucketOf(r)
          BY <2>1, Buckets DEF BucketOf
        <5>3. v = R!WindowEnd(b) /\ Allowed # 0
          BY <3>0, <5>1, <5>2 DEF RedisInv, HitFine
        <5>4. P0 \subseteq LetBy(b)
          <6> SUFFICES ASSUME NEW q \in P0 PROVE q \in LetBy(b)
            OBVIOUS
          <6>1. hit[q].at = "passed" /\ hit[q].resetAt = R!WindowEnd(BucketOf(q)) /\ BucketOf(q) \in Nat
            BY <3>0, <2>1, Buckets DEF RedisInv, HitFine, BucketOf
          <6>2. BucketOf(q) = b
            BY <6>1, <5>3, BucketsApart
          <6> QED BY <6>1, <6>2 DEF LetBy
        <5>5. b \in DOMAIN key
          <6>1. hit[r].t \in 0..Horizon
            BY <2>1 DEF Hits
          <6> QED BY <2>0, <5>2, <6>1, BucketsGrow DEF RateType, BucketOf
        <5>6. Cardinality(LetBy(b)) <= Allowed
          BY <3>0, <5>3, <5>5, RateConstants DEF RedisInv, KeyFine, Cap
        <5> HIDE DEF P0
        <5>7. LetBy(b) \subseteq R!Requests
          BY DEF LetBy
        <5>8. Cardinality(P0) <= Cardinality(LetBy(b)) /\ Cardinality(P0) \in Nat /\ Cardinality(LetBy(b)) \in Nat
          <6>1. P0 \subseteq R!Requests
            BY <5>4, <5>7
          <6> QED BY <5>4, <5>7, <6>1, RequestsCount
        <5>9. Cardinality(P0) <= Allowed
          BY <5>6, <5>8, RateConstants
        <5> QED BY <5>9 DEF P0
      <4> QED BY <4>1, <4>2
    <3>2. R!RefusedForCause
      <4> SUFFICES ASSUME NEW r \in R!Requests, hit[r].at = "refused"
                   PROVE  /\ hit[r].t < hit[r].resetAt /\ hit[r].resetAt <= hit[r].t + Window
                          /\ Cardinality({q \in R!Requests : hit[q].at # "idle" /\ hit[q].t < hit[r].resetAt
                                                 /\ hit[q].t + Window >= hit[r].resetAt}) > Allowed
        BY SameCount DEF R!RefusedForCause
      <4>1. PICK b \in Nat : b = BucketOf(r)
        BY <2>1, Buckets DEF BucketOf
      <4>2. hit[r].resetAt = R!WindowEnd(b) /\ Cardinality(Reached(b)) > Allowed
        BY <3>0, <4>1 DEF RedisInv, HitFine
      <4> DEFINE Q == {q \in R!Requests : hit[q].at # "idle" /\ hit[q].t < hit[r].resetAt
                                          /\ hit[q].t + Window >= hit[r].resetAt}
      <4>3. Reached(b) \subseteq Q
        <5> SUFFICES ASSUME NEW q \in Reached(b) PROVE q \in Q
          OBVIOUS
        <5>1. q \in R!Requests /\ hit[q].at # "idle" /\ BucketOf(q) = b
          BY DEF Reached
        <5>2. hit[q].t < R!WindowEnd(b) /\ R!WindowEnd(b) <= hit[q].t + Window /\ hit[q].t \in Nat
          BY <5>1, <2>1, Buckets DEF BucketOf
        <5>3. R!WindowEnd(b) \in Nat
          BY BucketsApart
        <5> QED BY <5>1, <5>2, <5>3, <4>2, RateConstants
      <4>4. Q \subseteq R!Requests
        OBVIOUS
      <4> HIDE DEF Q
      <4>5. Cardinality(Reached(b)) <= Cardinality(Q) /\ Cardinality(Q) \in Nat /\ Cardinality(Reached(b)) \in Nat
        <5>1. Reached(b) \subseteq R!Requests
          BY DEF Reached
        <5> QED BY <5>1, <4>3, <4>4, RequestsCount
      <4>6. Cardinality(Q) > Allowed
        BY <4>2, <4>5, RateConstants
      <4>7. hit[r].t < hit[r].resetAt /\ hit[r].resetAt <= hit[r].t + Window
        BY <4>1, <4>2, <2>1, Buckets DEF BucketOf
      <4> QED BY <4>6, <4>7 DEF Q
    <3>3. R!KeysExpire
      BY <3>0 DEF RedisInv, KeyFine, R!KeysExpire, BucketOf
    <3> QED BY <3>1, <3>2, <3>3 DEF R!RateIsLimited
  <2>3. CASE store = "memory"
    <3>0. MemoryInv
      BY <2>0, <2>3
    <3>1. R!WindowsHold
      <4> SUFFICES ASSUME NEW v \in {hit[r].resetAt : r \in R!Requests}
                   PROVE  Cardinality({r \in R!Requests : /\ hit[r].at = "passed" /\ ~hit[r].failed
                                                          /\ hit[r].resetAt = v /\ ~hit[r].late}) <= Allowed
        BY SameCount DEF R!WindowsHold
      <4>1. v \in Nat
        BY <2>1
      <4>2. {r \in R!Requests : /\ hit[r].at = "passed" /\ ~hit[r].failed
                                /\ hit[r].resetAt = v /\ ~hit[r].late} = LetWithin(v)
        BY <3>0 DEF MemoryInv, MemoryHit, LetWithin
      <4> QED BY <3>0, <4>1, <4>2 DEF MemoryInv
    <3>2. R!RefusedForCause
      <4> SUFFICES ASSUME NEW r \in R!Requests, hit[r].at = "refused"
                   PROVE  /\ hit[r].t < hit[r].resetAt /\ hit[r].resetAt <= hit[r].t + Window
                          /\ Cardinality({q \in R!Requests : hit[q].at # "idle" /\ hit[q].t < hit[r].resetAt
                                                 /\ hit[q].t + Window >= hit[r].resetAt}) > Allowed
        BY SameCount DEF R!RefusedForCause
      <4>1. MemoryHit(r)
        BY <3>0 DEF MemoryInv
      <4> DEFINE Q == {q \in R!Requests : hit[q].at # "idle" /\ hit[q].t < hit[r].resetAt
                                          /\ hit[q].t + Window >= hit[r].resetAt}
                 S == Within(hit[r].resetAt)
      <4>2. Cardinality(S) > Allowed
        BY <4>1 DEF MemoryHit
      <4>3. S \subseteq Q
        <5> SUFFICES ASSUME NEW q \in S PROVE q \in Q
          OBVIOUS
        <5>1. q \in R!Requests /\ hit[q].at # "idle" /\ hit[q].resetAt = hit[r].resetAt
          BY DEF Within
        <5>2. hit[q].t < hit[q].resetAt /\ hit[q].resetAt <= hit[q].t + Window
          BY <5>1, <3>0 DEF MemoryInv, MemoryHit
        <5> QED BY <5>1, <5>2, <2>1, RateConstants
      <4>4. Q \subseteq R!Requests
        OBVIOUS
      <4> HIDE DEF Q, S
      <4>5. Cardinality(S) <= Cardinality(Q) /\ Cardinality(Q) \in Nat /\ Cardinality(S) \in Nat
        BY <4>3, <4>4, RequestsCount
      <4>6. Cardinality(Q) > Allowed
        BY <4>2, <4>5, RateConstants
      <4>7. hit[r].t < hit[r].resetAt /\ hit[r].resetAt <= hit[r].t + Window
        BY <4>1 DEF MemoryHit
      <4> QED BY <4>6, <4>7 DEF Q
    <3>3. R!KeysExpire
      BY <3>0 DEF MemoryInv, R!KeysExpire
    <3> QED BY <3>1, <3>2, <3>3 DEF R!RateIsLimited
  <2> QED BY <2>0, <2>2, <2>3 DEF RateType
<1> QED BY <1>1, <1>2, <1>3, PTL DEF ServicesSpec

----------------------------------------------------------------------------

\* The small parts keep their bounds: wake, rate limit, warm-up, parse pool and
\* worker, each whichever part of the program runs.
THEOREM BoundsHold == ServicesSpec => []BoundsAreKept
<1>1. K!WakesOnce /\ R!RateIsLimited /\ W!WarmUpIsHonest /\ P!ParsingIsBounded /\ I!WorkerIsAccountable
        => BoundsAreKept
  BY DEF BoundsAreKept
<1> QED BY <1>1, WakeBounded, RateLimited, WarmUpHonest, ParsingBounded, WorkerAccountable, PTL
=============================================================================
