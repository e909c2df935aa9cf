--------------------------- MODULE PipelineProofs ---------------------------
(***************************************************************************)
(* What Pipeline promises for every stage array, read declaration and      *)
(* schedule.                                                               *)
(***************************************************************************)
EXTENDS Pipeline, SequencesExt, FunctionTheorems, FiniteSetTheorems, TLAPS

USE DEF Stage

\* run() and speculations() keep the types of what they touch.
LEMMA RunType ==
  ASSUME NEW S \in SUBSET Stage, NEW prior \in Prior, Run(S, prior),
         task \in [Stage -> TaskState],
         starts \in [Stage -> Nat], view \in [Stage -> Prior]
  PROVE  /\ task' \in [Stage -> TaskState]
         /\ starts' \in [Stage -> Nat]
         /\ view' \in [Stage -> Prior]
  BY DEF Run, TaskState

LEMMA SpeculateType ==
  ASSUME NEW S \in SUBSET Stage, NEW prior \in Prior, Speculate(S, prior),
         speculated \subseteq Stage, guess \in [Stage -> Prior]
  PROVE  /\ speculated' \subseteq Stage
         /\ guess' \in [Stage -> Prior]
  BY DEF Speculate

LEMMA LaunchableStages ==
  ASSUME NEW folded, NEW skip
  PROVE  Launchable(folded, skip) \subseteq Stage
  BY DEF Launchable

LEMMA SpeculableStages ==
  ASSUME NEW folded, NEW skip, NEW taken
  PROVE  Speculable(folded, skip, taken) \subseteq Stage
  BY StagesAssumption DEF Speculable

\* The typing of what moving on changes.
MovedOn ==
  /\ task' \in [Stage -> TaskState]
  /\ starts' \in [Stage -> Nat]
  /\ view' \in [Stage -> Prior]
  /\ speculated' \subseteq Stage
  /\ guess' \in [Stage -> Prior]
  /\ launched' \subseteq Stage
  /\ i' \in 1..(N + 1)
  /\ pc' = "loop"

\* Moving on after a stage: what is launched and speculated is well typed.
LEMMA AdvanceType ==
  ASSUME TypeOK, i \in Stage,
         NEW folded, NEW skip, NEW prior \in Prior,
         Advance(folded, skip, prior)
  PROVE  MovedOn
<1> DEFINE ready == Launchable(folded, skip)
<1> DEFINE hints == Speculable(folded, skip, launched \cup ready)
<1>1. ready \subseteq Stage /\ hints \subseteq Stage
  BY LaunchableStages, SpeculableStages
<1>2. Run(ready, prior) /\ Speculate(hints, prior)
  BY DEF Advance
<1>3. launched' = launched \cup ready /\ i' = i + 1 /\ pc' = "loop"
  BY DEF Advance
<1> HIDE DEF ready, hints
<1>4. /\ task' \in [Stage -> TaskState]
      /\ starts' \in [Stage -> Nat]
      /\ view' \in [Stage -> Prior]
  BY <1>1, <1>2, RunType DEF TypeOK
<1>5. speculated' \subseteq Stage /\ guess' \in [Stage -> Prior]
  BY <1>1, <1>2, SpeculateType DEF TypeOK
<1>6. launched' \subseteq Stage
  BY <1>1, <1>3 DEF TypeOK
<1>7. i' \in 1..(N + 1)
  BY <1>3, StagesAssumption
<1> QED BY <1>3, <1>4, <1>5, <1>6, <1>7 DEF MovedOn

LEMMA RecordType ==
  ASSUME NEW s \in Stage, NEW st \in {"completed", "skipped", "failed"},
         records \in Seq(StageRecord)
  PROVE  Record(s, st) \in Seq(StageRecord)
  BY DEF Record, StageRecord

LEMMA SeededType ==
  ASSUME NEW doc \in CachedDoc, slices \in Prior
  PROVE  Seeded(doc) \in Prior
  BY DEF Seeded, Origin, Prior

LEMMA ReusableType ==
  ASSUME NEW doc \in CachedDoc
  PROVE  Reusable(doc) \subseteq Stage
  BY DEF Reusable, CachedDoc

LEMMA BlankType == Blank \in Prior
  BY DEF Blank, Origin, Prior

\* Every variable keeps its type, whatever the stages, the cache and the caller do.
THEOREM TypeCorrect == Spec => []TypeOK
<1>1. Init => TypeOK
  <2> SUFFICES ASSUME Init PROVE TypeOK
    OBVIOUS
  <2>1. records \in Seq(StageRecord) /\ i \in 1..(N + 1)
    BY StagesAssumption DEF Init
  <2>2. task \in [Stage -> TaskState] /\ starts \in [Stage -> Nat]
    BY DEF Init, TaskState
  <2>3. view \in [Stage -> Prior] /\ guess \in [Stage -> Prior] /\ slices \in Prior
    BY BlankType DEF Init
  <2> QED BY <2>1, <2>2, <2>3 DEF Init, TypeOK
<1>2. TypeOK /\ [Next]_vars => TypeOK'
  <2> SUFFICES ASSUME TypeOK, [Next]_vars PROVE TypeOK'
    OBVIOUS
  <2> USE StagesAssumption
  <2>1. CASE Begin
    BY <2>1 DEF Begin, TypeOK, flags, runs, specs, shas
  <2>2. CASE PreLookupMiss
    BY <2>2 DEF PreLookupMiss, TypeOK, flags, runs, specs, shas
  <2>3. CASE PreLookupThrows
    BY <2>3 DEF PreLookupThrows, Return, TypeOK, flags, runs, specs, shas
  <2>4. CASE Reuse
    <3>1. Record(i, "completed") \in Seq(StageRecord)
      BY <2>4, RecordType DEF Reuse, TypeOK
    <3>2. i + 1 \in 1..(N + 1) /\ settled \cup {i} \subseteq Stage
      BY <2>4 DEF Reuse, TypeOK
    <3>3. (pc \in {"await", "postLookup"} => i \in Stage)'
      BY <2>4 DEF Reuse
    <3>4. flags' = flags /\ runs' = runs /\ specs' = specs /\ shas' = shas
      BY <2>4 DEF Reuse
    <3>5. pc' \in {"start", "preLookup", "loop", "await", "postLookup", "commit", "done"}
      BY <2>4 DEF Reuse
    <3> QED BY <2>4, <3>1, <3>2, <3>3, <3>4, <3>5 DEF Reuse, TypeOK, flags, runs, specs, shas
  <2>5. CASE Skip
    <3>1. Record(i, "skipped") \in Seq(StageRecord)
      BY <2>5, RecordType DEF Skip, TypeOK
    <3>2. i + 1 \in 1..(N + 1)
      BY <2>5 DEF Skip, TypeOK
    <3>3. aborted' \in BOOLEAN
      BY <2>5 DEF Skip
    <3> QED BY <2>5, <3>1, <3>2, <3>3 DEF Skip, TypeOK, runs, specs, shas
  <2>6. CASE Enter
    <3> DEFINE ready == Launchable(settled, covered)
    <3> DEFINE taken == launched \cup ready
    <3> DEFINE hints == Speculable(settled, covered, taken)
    <3>1. i \in Stage /\ ready \subseteq Stage /\ hints \subseteq Stage
      BY <2>6, LaunchableStages, SpeculableStages DEF Enter, TypeOK
    <3>2. Run(ready \cup ({i} \ taken), slices) /\ Speculate(hints, slices)
      BY <2>6 DEF Enter
    <3>3. /\ launched' = taken \ {i} /\ pc' = "await"
          /\ UNCHANGED <<i, flags, covered, settled, slices, records,
                         cacheChecked, shas, staging, status>>
      BY <2>6 DEF Enter
    <3> HIDE DEF ready, hints
    <3>4. /\ task' \in [Stage -> TaskState]
          /\ starts' \in [Stage -> Nat]
          /\ view' \in [Stage -> Prior]
      <4>1. ready \cup ({i} \ taken) \subseteq Stage
        BY <3>1
      <4> QED BY <4>1, <3>2, RunType DEF TypeOK
    <3>5. speculated' \subseteq Stage /\ guess' \in [Stage -> Prior]
      BY <3>1, <3>2, SpeculateType DEF TypeOK
    <3>6. launched' \subseteq Stage
      BY <3>1, <3>3 DEF TypeOK
    <3>7. (pc \in {"await", "postLookup"} => i \in Stage)'
      BY <3>1, <3>3
    <3> QED BY <3>3, <3>4, <3>5, <3>6, <3>7 DEF TypeOK, flags, shas
  <2>7. CASE StageCompleted
    <3>1. i \in Stage
      BY <2>7 DEF StageCompleted, TypeOK, Record
    <3>2. slices' \in Prior
      BY <2>7 DEF StageCompleted, TypeOK, Origin, Prior
    <3>3. records' \in Seq(StageRecord)
      BY <2>7, <3>1, RecordType DEF StageCompleted, TypeOK
    <3>4. settled' \subseteq Stage
      BY <2>7, <3>1 DEF StageCompleted, TypeOK
    <3>5. UNCHANGED <<flags, covered, shas, staging, status>>
      BY <2>7 DEF StageCompleted
    <3>6. CASE ~cacheChecked /\ Lookup /\ resolved
      <4>1. cacheChecked' = TRUE /\ pc' = "postLookup" /\ UNCHANGED <<i, launched, runs, specs>>
        BY <2>7, <3>6 DEF StageCompleted
      <4> QED BY <3>1, <3>2, <3>3, <3>4, <3>5, <4>1 DEF TypeOK, flags, shas, runs, specs
    <3>7. CASE ~(~cacheChecked /\ Lookup /\ resolved)
      <4>1. Advance(settled', covered, slices') /\ UNCHANGED cacheChecked
        BY <2>7, <3>7 DEF StageCompleted
      <4>2. MovedOn
        BY <4>1, <3>1, <3>2, AdvanceType
      <4> QED BY <4>1, <4>2, <3>2, <3>3, <3>4, <3>5 DEF MovedOn, TypeOK, flags, shas
    <3> QED BY <3>6, <3>7
  <2>8. ASSUME i \in Stage, Caught PROVE TypeOK'
    <3>1. Record(i, "failed") \in Seq(StageRecord)
      BY <2>8, RecordType DEF TypeOK
    <3>2. i + 1 \in 1..(N + 1)
      BY <2>8
    <3> QED BY <2>8, <3>1, <3>2 DEF Caught, TypeOK, runs, specs, shas
  <2>9. CASE StageFailed
    <3>1. i \in Stage
      BY <2>9 DEF StageFailed, TypeOK
    <3> QED BY <2>8, <2>9, <3>1 DEF StageFailed
  <2>10. CASE PostLookupMiss
    <3>1. i \in Stage /\ Advance(settled, covered, slices)
      BY <2>10 DEF PostLookupMiss, TypeOK
    <3>2. UNCHANGED <<flags, covered, settled, slices, records, cacheChecked,
                      shas, staging, status>>
      BY <2>10 DEF PostLookupMiss
    <3>3. MovedOn
      BY <3>1, AdvanceType DEF TypeOK
    <3> QED BY <3>2, <3>3 DEF MovedOn, TypeOK, flags, shas
  <2>11. CASE PostLookupThrows
    <3>1. i \in Stage
      BY <2>11 DEF PostLookupThrows, TypeOK
    <3> QED BY <2>8, <2>11, <3>1 DEF PostLookupThrows
  <2>12. ASSUME NEW doc \in CachedDoc, PreLookupHit(doc) PROVE TypeOK'
    BY <2>12 DEF PreLookupHit, Return, TypeOK, flags, runs, specs, shas
  <2>13. ASSUME NEW doc \in CachedDoc, PreLookupRetry(doc) PROVE TypeOK'
    <3>1. slices' \in Prior /\ covered' \subseteq Stage
      BY <2>13, SeededType, ReusableType DEF PreLookupRetry, TypeOK
    <3> QED BY <2>13, <3>1 DEF PreLookupRetry, TypeOK, flags, runs, specs
  <2>14. ASSUME NEW doc \in CachedDoc, PostLookupHit(doc) PROVE TypeOK'
    BY <2>14 DEF PostLookupHit, Return, TypeOK, flags, runs, specs, shas
  <2>15. ASSUME NEW doc \in CachedDoc, PostLookupRetry(doc) PROVE TypeOK'
    <3>1. i \in Stage /\ Advance(settled, covered', slices')
      BY <2>15 DEF PostLookupRetry, TypeOK
    <3>2. slices' \in Prior /\ covered' \subseteq Stage
      BY <2>15, SeededType, ReusableType DEF PostLookupRetry, TypeOK
    <3>3. UNCHANGED <<flags, settled, records, cacheChecked, shas, staging, status>>
      BY <2>15 DEF PostLookupRetry
    <3>4. MovedOn
      BY <3>1, <3>2, AdvanceType
    <3> QED BY <3>2, <3>3, <3>4 DEF MovedOn, TypeOK, flags, shas
  <2>16. CASE Finish
    <3>1. slices' \in Prior
      BY <2>16, SlicesAssumption DEF Finish, Reconcile, TypeOK, Prior, Origin
    <3> QED BY <2>16, <3>1 DEF Finish, RunStatus, TypeOK, flags, runs, specs, shas
  <2>17. CASE Commit
    BY <2>17 DEF Commit, TypeOK, flags, runs, specs, shas
  <2>18. ASSUME NEW s \in Stage, NEW outcome \in {"ok", "error"}, StageEnds(s, outcome)
         PROVE  TypeOK'
    <3>1. task' \in [Stage -> TaskState]
      BY <2>18 DEF StageEnds, TypeOK, TaskState
    <3>2. resolved' \in BOOLEAN
      <4>1. CASE s # Ingest
        BY <2>18, <4>1 DEF StageEnds, TypeOK
      <4>2. CASE s = Ingest
        BY <2>18, <4>2 DEF StageEnds, TypeOK
      <4> QED BY <4>1, <4>2
    <3>3. UNCHANGED <<pc, i, flags, covered, settled, launched, starts, view,
                      slices, records, cacheChecked, layered, requested, specs, staging, status>>
      BY <2>18 DEF StageEnds
    <3> QED BY <3>1, <3>2, <3>3 DEF TypeOK, flags, specs
  <2>19. CASE Abort
    BY <2>19 DEF Abort, TypeOK, runs, specs, shas
  <2>20. CASE UNCHANGED vars
    BY <2>20 DEF vars, TypeOK
  <2> QED
    BY <2>1, <2>2, <2>3, <2>4, <2>5, <2>6, <2>7, <2>9, <2>10, <2>11, <2>12, <2>13,
       <2>14, <2>15, <2>16, <2>17, <2>18, <2>19, <2>20 DEF Next, Orchestrate
<1> QED BY <1>1, <1>2, PTL DEF Spec

----------------------------------------------------------------------------
\* Nothing is launched or speculated for before Ingest is folded in, and
\* Ingest itself is never launched.
LEMMA AdvanceControl ==
  ASSUME i \in Stage, NEW folded, NEW skip, NEW prior, Advance(folded, skip, prior)
  PROVE  /\ i' = i + 1 /\ pc' = "loop"
         /\ Ingest # 0 /\ Ingest \notin folded => launched' = launched /\ speculated' = speculated
         /\ Ingest # 0 => task'[Ingest] = task[Ingest]
<1> DEFINE ready == Launchable(folded, skip)
<1> DEFINE hints == Speculable(folded, skip, launched \cup ready)
<1>1. /\ launched' = launched \cup ready /\ i' = i + 1 /\ pc' = "loop"
      /\ Run(ready, prior) /\ Speculate(hints, prior)
  BY DEF Advance
<1>2. Ingest \notin ready
  BY DEF Launchable
<1>3. Ingest # 0 /\ Ingest \notin folded => ready = {} /\ hints = {}
  BY DEF Launchable, Speculable, ReadyToLaunch
<1> HIDE DEF ready, hints
<1>4. Ingest # 0 => task'[Ingest] = task[Ingest]
  BY <1>1, <1>2, StagesAssumption DEF Run
<1> QED BY <1>1, <1>3, <1>4 DEF Speculate

\* Ingest, when there is one, is the first stage.
LEMMA IngestFirst == Ingest \in {0, 1}
  BY StagesAssumption, OrderAssumption

LEMMA ControlStep == TypeOK /\ ControlInv /\ [Next]_vars => ControlInv'
<1> SUFFICES ASSUME TypeOK, ControlInv, [Next]_vars PROVE ControlInv'
  OBVIOUS
<1> USE StagesAssumption, IngestFirst
<1>1. CASE Begin
  BY <1>1 DEF Begin, TypeOK, ControlInv, flags, runs, specs, shas
<1>2. CASE PreLookupMiss
  BY <1>2 DEF PreLookupMiss, TypeOK, ControlInv, flags, runs, specs, shas
<1>3. CASE PreLookupThrows
  BY <1>3 DEF PreLookupThrows, Return, TypeOK, ControlInv, flags, runs, specs, shas
<1>4. CASE Reuse
  BY <1>4 DEF Reuse, TypeOK, ControlInv, flags, runs, specs, shas
<1>5. CASE Skip
  BY <1>5 DEF Skip, TypeOK, ControlInv, runs, specs, shas
<1>6. CASE Enter
  <2> DEFINE ready == Launchable(settled, covered)
  <2> DEFINE taken == launched \cup ready
  <2> DEFINE hints == Speculable(settled, covered, taken)
  <2>1. /\ Run(ready \cup ({i} \ taken), slices) /\ Speculate(hints, slices)
        /\ launched' = taken \ {i} /\ pc' = "await"
        /\ UNCHANGED <<i, flags, covered, settled, slices, records,
                       cacheChecked, shas, staging, status>>
    BY <1>6 DEF Enter
  <2>2. /\ pc = "loop" /\ i \notin covered /\ ~detFailed
    BY <1>6 DEF Enter
  <2>3. Ingest # 0 /\ settled = {} => ready = {} /\ hints = {}
    BY DEF Launchable, Speculable, ReadyToLaunch
  <2>4. Ingest \notin ready
    BY DEF Launchable
  <2> HIDE DEF ready, hints
  <2>5. Ingest # 0 /\ task'[Ingest] = "running" => i = Ingest
    <3>1. Ingest # 0 /\ Ingest # i => task'[Ingest] = task[Ingest]
      BY <2>1, <2>4 DEF Run
    <3> QED BY <3>1, <2>2 DEF ControlInv
  <2>6. Ingest # 0 /\ settled' = {} => launched' = {} /\ speculated' = {}
    BY <2>1, <2>3 DEF ControlInv, Speculate
  <2> QED BY <2>1, <2>2, <2>5, <2>6 DEF ControlInv, flags, shas
<1>7. CASE StageCompleted
  <2>1. /\ pc = "await" /\ i \in Stage /\ i \notin covered /\ ~detFailed /\ i \notin settled
        /\ task[i] = "ok" /\ settled' = settled \cup {i}
        /\ UNCHANGED <<flags, covered, shas, staging, status>>
    BY <1>7 DEF StageCompleted, TypeOK, ControlInv
  <2>2. CASE ~cacheChecked /\ Lookup /\ resolved
    <3>1. /\ cacheChecked' = TRUE /\ pc' = "postLookup"
          /\ UNCHANGED <<i, launched, runs, specs>>
      BY <1>7, <2>2 DEF StageCompleted
    <3>2. i = Ingest
      BY <2>1, <2>2 DEF ControlInv
    <3>3. settled = {}
      BY <2>1, <3>2 DEF ControlInv
    <3>4. launched = {} /\ speculated = {} /\ covered = {}
      BY <2>1, <2>2, <3>2, <3>3 DEF ControlInv
    <3> QED BY <2>1, <3>1, <3>2, <3>3, <3>4 DEF ControlInv, flags, shas, runs, specs
  <2>3. CASE ~(~cacheChecked /\ Lookup /\ resolved)
    <3>1. Advance(settled', covered, slices') /\ UNCHANGED cacheChecked
      BY <1>7, <2>3 DEF StageCompleted
    <3>2. i' = i + 1 /\ pc' = "loop" /\ (Ingest # 0 => task'[Ingest] = task[Ingest])
      BY <3>1, <2>1, AdvanceControl
    <3>3. settled' # {} /\ settled' \subseteq 1..i
      BY <2>1 DEF ControlInv
    <3>4. Ingest # 0 => task'[Ingest] # "running"
      BY <2>1, <3>2 DEF ControlInv
    <3> QED BY <2>1, <2>3, <3>1, <3>2, <3>3, <3>4 DEF ControlInv, flags, shas, TypeOK
  <2> QED BY <2>2, <2>3
<1>8. ASSUME i \in Stage, Caught, pc = "await" => task[i] # "running" PROVE ControlInv'
  BY <1>8 DEF Caught, TypeOK, ControlInv, runs, specs, shas, Det
<1>9. CASE StageFailed
  BY <1>8, <1>9 DEF StageFailed, TypeOK
<1>10. CASE PostLookupMiss
  <2>1. pc = "postLookup" /\ i \in Stage /\ Advance(settled, covered, slices)
        /\ UNCHANGED <<flags, covered, settled, slices, records, cacheChecked,
                       shas, staging, status>>
    BY <1>10 DEF PostLookupMiss, TypeOK
  <2>2. i' = i + 1 /\ pc' = "loop" /\ (Ingest # 0 => task'[Ingest] = task[Ingest])
    BY <2>1, AdvanceControl
  <2> QED BY <2>1, <2>2 DEF ControlInv, TypeOK, flags, shas
<1>11. CASE PostLookupThrows
  BY <1>8, <1>11 DEF PostLookupThrows, TypeOK
<1>12. ASSUME NEW doc \in CachedDoc, PreLookupHit(doc) PROVE ControlInv'
  BY <1>12 DEF PreLookupHit, Return, TypeOK, ControlInv, flags, runs, specs, shas
<1>13. ASSUME NEW doc \in CachedDoc, PreLookupRetry(doc) PROVE ControlInv'
  BY <1>13 DEF PreLookupRetry, TypeOK, ControlInv, flags, runs, specs
<1>14. ASSUME NEW doc \in CachedDoc, PostLookupHit(doc) PROVE ControlInv'
  BY <1>14 DEF PostLookupHit, Return, TypeOK, ControlInv, flags, runs, specs, shas
<1>15. ASSUME NEW doc \in CachedDoc, PostLookupRetry(doc) PROVE ControlInv'
  <2>1. pc = "postLookup" /\ i \in Stage /\ Advance(settled, covered', slices')
        /\ UNCHANGED <<flags, settled, records, cacheChecked, shas, staging, status>>
    BY <1>15 DEF PostLookupRetry, TypeOK
  <2>2. i' = i + 1 /\ pc' = "loop" /\ (Ingest # 0 => task'[Ingest] = task[Ingest])
    BY <2>1, AdvanceControl
  <2> QED BY <2>1, <2>2 DEF ControlInv, TypeOK, flags, shas
<1>16. CASE Finish
  BY <1>16 DEF Finish, TypeOK, ControlInv, flags, runs, specs, shas
<1>17. CASE Commit
  BY <1>17 DEF Commit, TypeOK, ControlInv, flags, runs, specs, shas
<1>18. ASSUME NEW s \in Stage, NEW outcome \in {"ok", "error"}, StageEnds(s, outcome)
       PROVE  ControlInv'
  <2>1. /\ Yielded /\ task[s] = "running"
        /\ task' = [task EXCEPT ![s] = outcome]
        /\ s # Ingest => resolved' = resolved
        /\ UNCHANGED <<pc, i, flags, covered, settled, launched, cacheChecked, specs>>
    BY <1>18 DEF StageEnds
  <2>2. resolved' => resolved \/ (pc = "await" /\ i = Ingest)
    <3>1. CASE s # Ingest
      BY <2>1, <3>1
    <3>2. CASE s = Ingest
      <4>1. Ingest # 0 /\ task[Ingest] = "running"
        BY <2>1, <3>2
      <4> QED BY <4>1 DEF ControlInv
    <3> QED BY <3>1, <3>2
  <2>3. pc \in {"start", "preLookup"} => ~resolved'
    BY <2>1, <2>2 DEF ControlInv
  <2>4. Ingest # 0 /\ task'[Ingest] = "running" => task[Ingest] = "running"
    BY <2>1 DEF TypeOK
  <2> QED BY <2>1, <2>2, <2>3, <2>4 DEF ControlInv, flags, specs
<1>19. CASE Abort
  BY <1>19 DEF Abort, TypeOK, ControlInv, runs, specs, shas
<1>20. CASE UNCHANGED vars
  BY <1>20 DEF vars, ControlInv
<1> QED
  BY <1>1, <1>2, <1>3, <1>4, <1>5, <1>6, <1>7, <1>9, <1>10, <1>11, <1>12, <1>13,
     <1>14, <1>15, <1>16, <1>17, <1>18, <1>19, <1>20 DEF Next, Orchestrate

----------------------------------------------------------------------------
(* No slice is corrected while a stage may still read it.                   *)

LEMMA NothingCorrected ==
  ASSUME TypeOK, OnlyTheEndCorrects, pc \notin {"commit", "done"}
  PROVE  Folded = slices /\ \A k \in Slice : slices[k] # "reconciled"
<1>1. slices = [k \in Slice |-> slices[k]] /\ \A k \in Slice : slices[k] # "reconciled"
  BY DEF TypeOK, Prior, OnlyTheEndCorrects
<1> QED BY <1>1 DEF Folded

\* The correction is the run's own: it leaves what the stages made.
LEMMA ReconcileKeeps ==
  ASSUME TypeOK, OnlyTheEndCorrects, pc \notin {"commit", "done"}, Reconcile
  PROVE  /\ Folded' = Folded
         /\ \A k \in Slice : slices'[k] = "none" <=> slices[k] = "none"
         /\ \A k \in Slice : slices'[k] = "reconciled" => k = Corrected /\ slices'[Evidence] # "none"
<1>1. Corrected \in Slice /\ Evidence \in Slice /\ slices \in [Slice -> Origin]
  BY SlicesAssumption DEF TypeOK, Prior
<1>2. \A k \in Slice : slices[k] # "reconciled"
  BY NothingCorrected
<1>3. CASE slices' = slices
  BY <1>2, <1>3 DEF Folded
<1>4. CASE /\ slices[Evidence] # "none" /\ slices[Corrected] = "fresh"
           /\ slices' = [slices EXCEPT ![Corrected] = "reconciled"]
  <2>1. \A k \in Slice : slices'[k] = IF k = Corrected THEN "reconciled" ELSE slices[k]
    BY <1>1, <1>4
  <2>2. \A k \in Slice : (IF slices'[k] = "reconciled" THEN "fresh" ELSE slices'[k])
                        = (IF slices[k] = "reconciled" THEN "fresh" ELSE slices[k])
    BY <1>2, <1>4, <2>1
  <2>3. Folded' = Folded
    BY <2>2 DEF Folded
  <2> QED BY <1>1, <1>2, <1>4, <2>1, <2>3
<1> QED BY <1>3, <1>4 DEF Reconcile

LEMMA CorrectedStep ==
  TypeOK /\ TypeOK' /\ OnlyTheEndCorrects /\ [Next]_vars => OnlyTheEndCorrects'
<1> SUFFICES ASSUME TypeOK, TypeOK', OnlyTheEndCorrects, [Next]_vars PROVE OnlyTheEndCorrects'
  OBVIOUS
<1>1. ASSUME slices' = slices, pc \in {"commit", "done"} => pc' \in {"commit", "done"}
      PROVE  OnlyTheEndCorrects'
  BY <1>1 DEF OnlyTheEndCorrects
<1>2. ASSUME pc \notin {"commit", "done"},
             \A k \in Slice : slices'[k] \in {"fresh", "cached", slices[k]}
      PROVE  OnlyTheEndCorrects'
  <2>1. \A k \in Slice : slices'[k] # "reconciled"
    BY <1>2, NothingCorrected
  <2> QED BY <2>1 DEF OnlyTheEndCorrects
<1>3. CASE Begin \/ PreLookupMiss \/ PreLookupThrows \/ Reuse \/ Skip
  BY <1>1, <1>3 DEF Begin, PreLookupMiss, PreLookupThrows, Reuse, Skip, Return
<1>4. CASE Enter \/ StageFailed \/ PostLookupMiss \/ PostLookupThrows
  BY <1>1, <1>4 DEF Enter, StageFailed, PostLookupMiss, PostLookupThrows, Caught
<1>5. CASE Commit \/ Abort \/ UNCHANGED vars
  BY <1>1, <1>5 DEF Commit, Abort, vars
<1>6. ASSUME NEW s \in Stage, NEW outcome \in {"ok", "error"}, StageEnds(s, outcome)
      PROVE  OnlyTheEndCorrects'
  BY <1>1, <1>6 DEF StageEnds
<1>7. ASSUME NEW doc \in CachedDoc, PreLookupHit(doc) \/ PostLookupHit(doc) PROVE OnlyTheEndCorrects'
  BY <1>1, <1>7 DEF PreLookupHit, PostLookupHit, Return
<1>8. ASSUME NEW doc \in CachedDoc, PreLookupRetry(doc) \/ PostLookupRetry(doc) PROVE OnlyTheEndCorrects'
  <2>1. pc \notin {"commit", "done"} /\ slices' = Seeded(doc)
    BY <1>8 DEF PreLookupRetry, PostLookupRetry
  <2> QED BY <1>2, <2>1 DEF Seeded
<1>9. CASE StageCompleted
  <2>1. pc \notin {"commit", "done"}
    BY <1>9 DEF StageCompleted
  <2>2. PICK made \in SUBSET Owns[i] :
          slices' = [k \in Slice |-> IF k \in made THEN "fresh" ELSE slices[k]]
    BY <1>9 DEF StageCompleted
  <2> QED BY <1>2, <2>1, <2>2
<1>10. CASE Finish
  <2>1. pc = "loop" /\ Reconcile /\ pc' \in {"commit", "done"}
    BY <1>10 DEF Finish
  <2> QED BY <2>1, ReconcileKeeps DEF OnlyTheEndCorrects
<1> QED
  BY <1>3, <1>4, <1>5, <1>6, <1>7, <1>8, <1>9, <1>10 DEF Next, Orchestrate

----------------------------------------------------------------------------
\* The loop folds in the stage it awaited.
Consumed ==
  /\ slices \in Prior
  /\ i \in Stage /\ i' \in {i, i + 1}
  /\ i \notin settled /\ settled' = settled \cup {i}
  /\ \E made \in SUBSET Owns[i] :
       slices' = [k \in Slice |-> IF k \in made THEN "fresh" ELSE slices[k]]

\* What is frozen stays frozen when the loop consumes a stage.
LEMMA FrozenConsume ==
  ASSUME NEW s \in Stage, NEW prior, Frozen(s, prior), Consumed, Folded = slices
  PROVE  \A t \in Stage : \A k \in Reads[s] \cap Owns[t] :
           (t \in settled' \/ t < i') /\ prior[k] = slices'[k]
<1> SUFFICES ASSUME NEW t \in Stage, NEW k \in Reads[s] \cap Owns[t]
             PROVE  (t \in settled' \/ t < i') /\ prior[k] = slices'[k]
  OBVIOUS
<1>1. (t \in settled \/ t < i) /\ prior[k] = slices[k]
  BY DEF Frozen
<1>2. k \in Slice
  BY SlicesAssumption
<1>3. t # i
  BY <1>1, StagesAssumption DEF Consumed
<1>4. PICK made \in SUBSET Owns[i] :
        slices' = [x \in Slice |-> IF x \in made THEN "fresh" ELSE slices[x]]
  BY DEF Consumed
<1>5. k \notin made
  BY <1>3, <1>4, OwnersAssumption DEF Consumed
<1>6. slices'[k] = slices[k]
  BY <1>2, <1>4, <1>5
<1>7. t \in settled' \/ t < i'
  BY <1>1, StagesAssumption DEF Consumed
<1> QED BY <1>1, <1>6, <1>7

\* A stage whose declared reads are folded in, other than by itself, is handed
\* frozen inputs.
LEMMA ReadyFrozen ==
  ASSUME NEW s \in Stage, NEW folded, ReadyToLaunch(s, folded), folded \subseteq settled'
  PROVE  \A t \in Stage : \A k \in Reads[s] \cap Owns[t] : t \in settled'
<1> SUFFICES ASSUME NEW t \in Stage, NEW k \in Reads[s] \cap Owns[t] PROVE t \in settled'
  OBVIOUS
<1>1. t < s
  BY OrderAssumption
<1>2. t # s
  BY <1>1, StagesAssumption
<1> QED BY <1>2 DEF ReadyToLaunch

\* A step that folds nothing in and starts nothing keeps inputs frozen.
LEMMA FrozenKeep ==
  ASSUME FrozenInv, TypeOK, OnlyTheEndCorrects', slices' = slices \/ Folded' = Folded,
         settled \subseteq settled',
         i' \in {i, i + 1}, view' = view, guess' = guess, speculated' = speculated,
         Pending' \cup Computed' \subseteq Pending \cup Computed
  PROVE  FrozenInv'
<1>0. Folded' = Folded
  BY DEF Folded
<1>1. ASSUME NEW s \in Pending' \cup Computed' PROVE Frozen(s, view[s])'
  <2>1. Frozen(s, view[s])
    BY <1>1 DEF FrozenInv
  <2> QED BY <1>0, <2>1 DEF Frozen, TypeOK
<1>2. ASSUME NEW s \in speculated' PROVE Frozen(s, guess[s])'
  <2>1. Frozen(s, guess[s])
    BY <1>2 DEF FrozenInv
  <2> QED BY <1>0, <2>1 DEF Frozen, TypeOK
<1> QED BY <1>1, <1>2 DEF FrozenInv

\* The loop moves on: what was handed out stays frozen and what is launched or
\* speculated for gets the slices as they now are.
LEMMA AdvanceFrozen ==
  ASSUME TypeOK, i \in Stage, NEW skip, Advance(settled', skip, slices'),
         covered' \subseteq skip, settled' \subseteq Stage,
         OnlyTheEndCorrects', Folded' = slices',
         NEW Old, Old = launched \cup (settled' \ covered'),
         \A s \in Old : \A t \in Stage : \A k \in Reads[s] \cap Owns[t] :
           (t \in settled' \/ t < i') /\ view[s][k] = slices'[k],
         \A s \in speculated : \A t \in Stage : \A k \in Reads[s] \cap Owns[t] :
           (t \in settled' \/ t < i') /\ guess[s][k] = slices'[k]
  PROVE  FrozenInv'
<1> DEFINE ready == Launchable(settled', skip)
<1> DEFINE hints == Speculable(settled', skip, launched \cup ready)
<1>1. /\ launched' = launched \cup ready /\ i' = i + 1 /\ pc' = "loop"
      /\ Run(ready, slices') /\ Speculate(hints, slices')
  BY DEF Advance
<1>2. ready \subseteq Stage /\ hints \subseteq Stage
  BY LaunchableStages, SpeculableStages
<1>3. \A s \in ready : s \notin launched /\ s \notin settled' /\ ReadyToLaunch(s, settled')
  BY DEF Launchable
<1>4. \A s \in hints : s \notin speculated /\ ReadyToLaunch(s, settled')
  BY DEF Speculable
<1> HIDE DEF ready, hints
<1>5. ASSUME NEW s \in Pending' \cup Computed' PROVE Frozen(s, view[s])'
  <2>1. s \in Old \cup ready
    BY <1>1, <1>5 DEF Pending, Computed
  <2>2. CASE s \in ready
    <3>1. view'[s] = slices'
      BY <1>1, <1>2, <2>2 DEF Run
    <3>2. \A t \in Stage : \A k \in Reads[s] \cap Owns[t] : t \in settled'
      BY <1>2, <1>3, <2>2, ReadyFrozen
    <3> QED BY <3>1, <3>2 DEF Frozen
  <2>3. CASE s \notin ready
    <3>1. s \in Old /\ s \in Stage
      BY <2>1, <2>3 DEF TypeOK
    <3>2. view'[s] = view[s]
      BY <1>1, <2>3, <3>1 DEF Run
    <3> QED BY <3>1, <3>2 DEF Frozen
  <2> QED BY <2>2, <2>3
<1>6. ASSUME NEW s \in speculated' PROVE Frozen(s, guess[s])'
  <2>1. s \in speculated \cup hints
    BY <1>1, <1>6 DEF Speculate
  <2>2. CASE s \in hints
    <3>1. guess'[s] = slices'
      BY <1>1, <1>2, <2>2 DEF Speculate
    <3>2. \A t \in Stage : \A k \in Reads[s] \cap Owns[t] : t \in settled'
      BY <1>2, <1>4, <2>2, ReadyFrozen
    <3> QED BY <3>1, <3>2 DEF Frozen
  <2>3. CASE s \notin hints
    <3>1. s \in speculated /\ s \in Stage
      BY <2>1, <2>3 DEF TypeOK
    <3>2. guess'[s] = guess[s]
      BY <1>1, <2>3, <3>1 DEF Speculate
    <3> QED BY <3>1, <3>2 DEF Frozen
  <2> QED BY <2>2, <2>3
<1> QED BY <1>5, <1>6 DEF FrozenInv

LEMMA FrozenStep ==
  TypeOK /\ TypeOK' /\ ControlInv /\ FrozenInv /\ [Next]_vars => FrozenInv'
<1> SUFFICES ASSUME TypeOK, TypeOK', ControlInv, FrozenInv, [Next]_vars PROVE FrozenInv'
  OBVIOUS
<1>20. OnlyTheEndCorrects /\ OnlyTheEndCorrects'
  BY CorrectedStep DEF FrozenInv
<1>21. pc \notin {"commit", "done"} => Folded = slices
  BY <1>20, NothingCorrected
<1>22. pc' \notin {"commit", "done"} => Folded' = slices'
  <2> SUFFICES ASSUME pc' \notin {"commit", "done"} PROVE Folded' = slices'
    OBVIOUS
  <2>1. slices' = [k \in Slice |-> slices'[k]] /\ \A k \in Slice : slices'[k] # "reconciled"
    BY <1>20 DEF TypeOK, Prior, OnlyTheEndCorrects
  <2> QED BY <2>1 DEF Folded
<1>1. CASE Begin
  BY <1>20, <1>1, FrozenKeep DEF Begin, Pending, Computed, TypeOK, ControlInv, flags, runs, specs, shas
<1>2. CASE PreLookupMiss
  BY <1>20, <1>2, FrozenKeep DEF PreLookupMiss, Pending, Computed, TypeOK, ControlInv, flags, runs, specs, shas
<1>3. CASE PreLookupThrows
  BY <1>20, <1>3, FrozenKeep DEF PreLookupThrows, Pending, Computed, TypeOK, ControlInv, flags, runs, specs, shas, Return
<1>4. CASE Reuse
  BY <1>20, <1>4, FrozenKeep DEF Reuse, Pending, Computed, TypeOK, ControlInv, flags, runs, specs, shas
<1>5. CASE Skip
  BY <1>20, <1>5, FrozenKeep DEF Skip, Pending, Computed, TypeOK, ControlInv, flags, runs, specs, shas
<1>6. CASE Enter
  <2> DEFINE ready == Launchable(settled, covered)
  <2> DEFINE taken == launched \cup ready
  <2> DEFINE own == {i} \ taken
  <2> DEFINE hints == Speculable(settled, covered, taken)
  <2>1. /\ Run(ready \cup own, slices) /\ Speculate(hints, slices)
        /\ launched' = taken \ {i} /\ pc' = "await" /\ pc = "loop"
        /\ UNCHANGED <<i, covered, settled, slices>>
    BY <1>6 DEF Enter
  <2>2. /\ ready \subseteq Stage /\ hints \subseteq Stage /\ i \in Stage /\ i \notin settled
    BY <1>6, LaunchableStages, SpeculableStages DEF Enter, ControlInv, TypeOK
  <2>3. \A s \in ready : s \notin launched /\ s \notin settled /\ ReadyToLaunch(s, settled')
    BY <2>1 DEF Launchable
  <2>4. \A s \in hints : s \notin speculated /\ ReadyToLaunch(s, settled')
    BY <2>1 DEF Speculable
  <2> HIDE DEF ready, hints
  <2>7. Folded' = slices' /\ Folded = slices
    BY <1>21, <1>22, <2>1
  <2>5. ASSUME NEW s \in Pending' \cup Computed' PROVE Frozen(s, view[s])'
    <3>1. s \in Pending \cup Computed \cup ready \cup own
      BY <2>1, <2>5 DEF Pending, Computed
    <3>2. CASE s \in ready
      <4>1. view'[s] = slices'
        BY <2>1, <2>2, <3>2 DEF Run
      <4>2. \A t \in Stage : \A k \in Reads[s] \cap Owns[t] : t \in settled'
        BY <2>1, <2>2, <2>3, <3>2, ReadyFrozen
      <4> QED BY <2>7, <4>1, <4>2 DEF Frozen
    <3>3. CASE s \in own
      <4>1. view'[s] = slices' /\ s = i'
        BY <2>1, <2>2, <3>3 DEF Run
      <4>2. \A t \in Stage : \A k \in Reads[s] \cap Owns[t] : t < i'
        BY <2>2, <4>1, <3>3, OrderAssumption
      <4> QED BY <2>7, <4>1, <4>2 DEF Frozen
    <3>4. CASE s \notin ready \cup own
      <4>1. s \in Pending \cup Computed /\ s \in Stage
        BY <2>1, <3>1, <3>4 DEF TypeOK, Pending, Computed
      <4>2. view'[s] = view[s]
        BY <2>1, <3>4, <4>1 DEF Run
      <4>3. Frozen(s, view[s])
        BY <4>1 DEF FrozenInv
      <4> QED BY <2>1, <2>7, <4>2, <4>3 DEF Frozen
    <3> QED BY <3>2, <3>3, <3>4
  <2>6. ASSUME NEW s \in speculated' PROVE Frozen(s, guess[s])'
    <3>1. CASE s \in hints
      <4>1. guess'[s] = slices'
        BY <2>1, <2>2, <3>1 DEF Speculate
      <4>2. \A t \in Stage : \A k \in Reads[s] \cap Owns[t] : t \in settled'
        BY <2>1, <2>2, <2>4, <3>1, ReadyFrozen
      <4> QED BY <2>7, <4>1, <4>2 DEF Frozen
    <3>2. CASE s \notin hints
      <4>1. s \in speculated /\ s \in Stage
        BY <2>1, <2>6, <3>2 DEF Speculate, TypeOK
      <4>2. guess'[s] = guess[s] /\ Frozen(s, guess[s])
        BY <2>1, <3>2, <4>1 DEF Speculate, FrozenInv
      <4> QED BY <2>1, <2>7, <4>2 DEF Frozen
    <3> QED BY <3>1, <3>2
  <2> QED BY <1>20, <2>5, <2>6 DEF FrozenInv
<1>7. CASE StageCompleted
  <2>1. /\ pc = "await" /\ i \in Stage /\ i \notin covered /\ i \notin settled
        /\ settled' = settled \cup {i} /\ covered' = covered
    BY <1>7 DEF StageCompleted, TypeOK, ControlInv
  <2>2. PICK made \in SUBSET Owns[i] :
          slices' = [k \in Slice |-> IF k \in made THEN "fresh" ELSE slices[k]]
    BY <1>7 DEF StageCompleted
  <2>3. i' \in {i, i + 1}
    BY <1>7, <2>1, AdvanceControl DEF StageCompleted
  <2>11. Consumed
    BY <2>1, <2>2, <2>3 DEF Consumed, TypeOK
  <2>4. \A s \in launched \cup Computed \cup {i} : Frozen(s, view[s]) /\ s \in Stage
    BY <2>1 DEF FrozenInv, Pending, Computed, TypeOK
  <2>5. \A s \in speculated : Frozen(s, guess[s]) /\ s \in Stage
    BY DEF FrozenInv, TypeOK
  <2>6. \A s \in launched \cup Computed \cup {i} : \A t \in Stage : \A k \in Reads[s] \cap Owns[t] :
          (t \in settled' \/ t < i') /\ view[s][k] = slices'[k]
    <3> SUFFICES ASSUME NEW s \in launched \cup Computed \cup {i}
                 PROVE  \A t \in Stage : \A k \in Reads[s] \cap Owns[t] :
                          (t \in settled' \/ t < i') /\ view[s][k] = slices'[k]
      OBVIOUS
    <3>1. s \in Stage /\ Frozen(s, view[s])
      BY <2>4
    <3> QED BY <1>21, <2>1, <2>11, <3>1, FrozenConsume
  <2>7. \A s \in speculated : \A t \in Stage : \A k \in Reads[s] \cap Owns[t] :
          (t \in settled' \/ t < i') /\ guess[s][k] = slices'[k]
    <3> SUFFICES ASSUME NEW s \in speculated
                 PROVE  \A t \in Stage : \A k \in Reads[s] \cap Owns[t] :
                          (t \in settled' \/ t < i') /\ guess[s][k] = slices'[k]
      OBVIOUS
    <3>1. s \in Stage /\ Frozen(s, guess[s])
      BY <2>5
    <3> QED BY <1>21, <2>1, <2>11, <3>1, FrozenConsume
  <2>8. settled' \ covered' = Computed \cup {i}
    BY <2>1 DEF Computed
  <2>9. CASE ~cacheChecked /\ Lookup /\ resolved
    <3>1. /\ pc' = "postLookup" /\ UNCHANGED <<i, launched, runs, specs>>
      BY <1>7, <2>9 DEF StageCompleted
    <3>2. Pending' \cup Computed' = launched \cup Computed \cup {i}
      BY <2>8, <3>1 DEF Pending, Computed
    <3> QED BY <1>20, <1>22, <2>6, <2>7, <3>1, <3>2 DEF FrozenInv, Frozen, runs, specs
  <2>10. CASE ~(~cacheChecked /\ Lookup /\ resolved)
    <3>1. Advance(settled', covered, slices')
      BY <1>7, <2>10 DEF StageCompleted
    <3>2. settled' \subseteq Stage
      BY DEF TypeOK
    <3>3. Folded' = slices'
      BY <1>22, <3>1 DEF Advance
    <3> QED BY <1>20, <2>1, <2>6, <2>7, <2>8, <3>1, <3>2, <3>3, AdvanceFrozen
  <2> QED BY <2>9, <2>10
<1>8. CASE StageFailed
  BY <1>20, <1>8, FrozenKeep DEF StageFailed, Caught, Pending, Computed, TypeOK, ControlInv, flags, runs, specs, shas
<1>9. CASE PostLookupThrows
  BY <1>20, <1>9, FrozenKeep DEF PostLookupThrows, Caught, Pending, Computed, TypeOK, ControlInv, flags, runs, specs, shas
<1>10. CASE PostLookupMiss
  <2>1. /\ pc = "postLookup" /\ i \in Stage /\ Advance(settled, covered, slices)
        /\ UNCHANGED <<covered, settled, slices>>
    BY <1>10 DEF PostLookupMiss, TypeOK
  <2>2. i' = i + 1
    BY <2>1, AdvanceControl
  <2>3. \A s \in launched \cup (settled' \ covered') : \A t \in Stage : \A k \in Reads[s] \cap Owns[t] :
          (t \in settled' \/ t < i') /\ view[s][k] = slices'[k]
    BY <1>21, <2>1, <2>2 DEF FrozenInv, Frozen, Pending, Computed
  <2>4. \A s \in speculated : \A t \in Stage : \A k \in Reads[s] \cap Owns[t] :
          (t \in settled' \/ t < i') /\ guess[s][k] = slices'[k]
    BY <1>21, <2>1, <2>2 DEF FrozenInv, Frozen
  <2>5. Advance(settled', covered, slices') /\ settled' \subseteq Stage /\ covered' \subseteq covered
    BY <2>1 DEF TypeOK
  <2> QED BY <2>1, <2>3, <2>4, <2>5, <1>20, <1>22, AdvanceFrozen DEF Advance
<1>11. ASSUME NEW doc \in CachedDoc, PreLookupHit(doc) PROVE FrozenInv'
  BY <1>20, <1>11, FrozenKeep DEF PreLookupHit, Return, Pending, Computed, TypeOK, flags, runs, specs, shas
<1>12. ASSUME NEW doc \in CachedDoc, PreLookupRetry(doc) PROVE FrozenInv'
  <2>1. launched' = {} /\ settled' = {} /\ speculated' = {} /\ pc' = "loop"
    BY <1>12 DEF PreLookupRetry, ControlInv, specs
  <2> QED BY <1>20, <2>1 DEF FrozenInv, Pending, Computed
<1>13. ASSUME NEW doc \in CachedDoc, PostLookupHit(doc) PROVE FrozenInv'
  BY <1>20, <1>13, FrozenKeep DEF PostLookupHit, Return, Pending, Computed, TypeOK, flags, runs, specs, shas
<1>14. ASSUME NEW doc \in CachedDoc, PostLookupRetry(doc) PROVE FrozenInv'
  <2>1. /\ pc = "postLookup" /\ i \in Stage /\ Advance(settled', covered', slices')
        /\ settled' = settled /\ settled' \subseteq Stage
    BY <1>14 DEF PostLookupRetry, TypeOK
  <2>2. i = Ingest /\ settled = {Ingest} /\ launched = {} /\ speculated = {}
    BY <2>1 DEF ControlInv
  <2>3. \A t \in Stage : Reads[Ingest] \cap Owns[t] = {}
    <3> SUFFICES ASSUME NEW t \in Stage, Reads[Ingest] \cap Owns[t] # {} PROVE FALSE
      OBVIOUS
    <3>1. t < Ingest /\ Ingest <= t
      BY <2>1, <2>2, OrderAssumption
    <3> QED BY <3>1, StagesAssumption
  <2>4. \A s \in launched \cup (settled' \ covered') : \A t \in Stage : \A k \in Reads[s] \cap Owns[t] :
          (t \in settled' \/ t < i') /\ view[s][k] = slices'[k]
    BY <2>1, <2>2, <2>3
  <2>5. \A s \in speculated : \A t \in Stage : \A k \in Reads[s] \cap Owns[t] :
          (t \in settled' \/ t < i') /\ guess[s][k] = slices'[k]
    BY <2>2
  <2> QED BY <2>1, <2>4, <2>5, <1>20, <1>22, AdvanceFrozen DEF Advance
<1>15. CASE Finish
  <2>1. Folded' = Folded
    BY <1>20, <1>15, ReconcileKeeps DEF Finish
  <2> QED BY <1>20, <1>15, <2>1, FrozenKeep DEF Finish, Pending, Computed, TypeOK, flags, runs, specs, shas
<1>16. CASE Commit
  BY <1>20, <1>16, FrozenKeep DEF Commit, Pending, Computed, TypeOK, flags, runs, specs, shas
<1>17. ASSUME NEW s \in Stage, NEW outcome \in {"ok", "error"}, StageEnds(s, outcome)
       PROVE  FrozenInv'
  BY <1>20, <1>17, FrozenKeep DEF StageEnds, Pending, Computed, TypeOK, flags, specs
<1>18. CASE Abort
  BY <1>20, <1>18, FrozenKeep DEF Abort, Pending, Computed, TypeOK, runs, specs, shas
<1>19. CASE UNCHANGED vars
  BY <1>20, <1>19, FrozenKeep DEF vars, Pending, Computed, TypeOK
<1> QED
  BY <1>1, <1>2, <1>3, <1>4, <1>5, <1>6, <1>7, <1>8, <1>9, <1>10, <1>11, <1>12, <1>13,
     <1>14, <1>15, <1>16, <1>17, <1>18, <1>19 DEF Next, Orchestrate

\* The control and input invariants hold together on every run.
THEOREM ScheduleInvariant == Spec => []ScheduleInv
<1>1. Init => ControlInv /\ FrozenInv
  BY StagesAssumption DEF Init, Blank, ControlInv, FrozenInv, OnlyTheEndCorrects, Pending, Computed
<1>2. TypeOK /\ TypeOK' /\ ControlInv /\ FrozenInv /\ [Next]_vars => ControlInv' /\ FrozenInv'
  BY ControlStep, FrozenStep
<1>3. ControlInv /\ FrozenInv <=> ScheduleInv
  BY DEF ScheduleInv
<1> QED BY <1>1, <1>2, <1>3, TypeCorrect, PTL DEF Spec

\* Whatever the stages, their reads, the schedule, the cache and the failures:
\* every declared read of a folded stage, and of a speculation, had the value
\* its producer left, so launching early cannot change what a stage computes, and
\* the run rewrites none of them before its last stage, and only the orientation.
THEOREM SchedulingIsDeterministic == Spec => []InputsAreFinal
<1>1. ScheduleInv /\ TypeOK => InputsAreFinal
  BY SlicesAssumption DEF ScheduleInv, FrozenInv, Frozen, InputsAreFinal, Produced, Computed, TypeOK
<1> QED BY <1>1, ScheduleInvariant, TypeCorrect, PTL

LEMMA AdvanceStopped ==
  ASSUME signal \/ detFailed, starts \in [Stage -> Nat],
         NEW folded, NEW skip, NEW prior, Advance(folded, skip, prior)
  PROVE  starts' = starts
<1>1. Launchable(folded, skip) = {}
  BY DEF Launchable
<1>2. Run({}, prior)
  BY <1>1 DEF Advance
<1> QED BY <1>2 DEF Run

\* Once the caller aborted or a required stage failed, no run() is called any
\* more, by the loop or by readiness.
THEOREM StopIsFinal == Spec => NothingStartsAfterStop
<1>1. TypeOK /\ [Next]_vars => [signal \/ detFailed => starts' = starts]_vars
  <2> SUFFICES ASSUME TypeOK, Next, signal \/ detFailed PROVE starts' = starts
    BY DEF vars
  <2>1. starts \in [Stage -> Nat]
    BY DEF TypeOK
  <2>2. CASE StageCompleted
    BY <2>1, <2>2, AdvanceStopped DEF StageCompleted, runs
  <2>3. CASE PostLookupMiss
    BY <2>1, <2>3, AdvanceStopped DEF PostLookupMiss
  <2>4. ASSUME NEW doc \in CachedDoc, PostLookupRetry(doc) PROVE starts' = starts
    BY <2>1, <2>4, AdvanceStopped DEF PostLookupRetry
  <2>5. CASE Enter
    BY <2>5 DEF Enter
  <2>6. CASE Begin \/ PreLookupMiss \/ PreLookupThrows \/ Reuse \/ Skip
    BY <2>6 DEF Begin, PreLookupMiss, PreLookupThrows, Reuse, Skip, runs
  <2>7. CASE StageFailed \/ PostLookupThrows \/ Finish \/ Commit \/ Abort
    BY <2>7 DEF StageFailed, PostLookupThrows, Caught, Finish, Commit, Abort, runs
  <2>8. ASSUME NEW doc \in CachedDoc,
               PreLookupHit(doc) \/ PreLookupRetry(doc) \/ PostLookupHit(doc)
        PROVE  starts' = starts
    BY <2>8 DEF PreLookupHit, PreLookupRetry, PostLookupHit, runs
  <2>9. ASSUME NEW s \in Stage, NEW outcome \in {"ok", "error"}, StageEnds(s, outcome)
        PROVE  starts' = starts
    BY <2>9 DEF StageEnds
  <2> QED BY <2>2, <2>3, <2>4, <2>5, <2>6, <2>7, <2>8, <2>9 DEF Next, Orchestrate
<1> QED BY <1>1, TypeCorrect, PTL DEF Spec, NothingStartsAfterStop
----------------------------------------------------------------------------
(* The records, the flags and the status.                                   *)

LEMMA RecordedStages ==
  ASSUME NEW x PROVE Recorded(x) \subseteq Stage
  BY DEF Recorded

LEMMA RecordedSame ==
  ASSUME records' = records, NEW x PROVE Recorded(x)' = Recorded(x)
  BY DEF Recorded

\* One more record adds its stage to those of its status.
LEMMA RecordedMore ==
  ASSUME records \in Seq(StageRecord), NEW s \in Stage,
         NEW st \in {"completed", "skipped", "failed"},
         records' = Record(s, st), NEW x
  PROVE  Recorded(x)' = IF x = st THEN Recorded(x) \cup {s} ELSE Recorded(x)
<1> DEFINE new == [stage |-> s, status |-> st]
<1>1. /\ records' = Append(records, new) /\ new \in StageRecord
      /\ Len(records) \in Nat
  BY DEF Record, StageRecord
<1>2. /\ DOMAIN records' = DOMAIN records \cup {Len(records) + 1}
      /\ DOMAIN records = 1..Len(records)
      /\ \A n \in DOMAIN records : records'[n] = records[n]
      /\ records'[Len(records) + 1] = new
  BY <1>1
<1>3. \A t \in Stage : (\E n \in DOMAIN records' : records'[n] = [stage |-> t, status |-> x])
        <=> \/ \E n \in DOMAIN records : records[n] = [stage |-> t, status |-> x]
            \/ new = [stage |-> t, status |-> x]
  BY <1>2
<1>4. \A t \in Stage : new = [stage |-> t, status |-> x] <=> t = s /\ x = st
  OBVIOUS
<1> HIDE DEF new
<1> QED BY <1>3, <1>4 DEF Recorded

\* What leaves records, flags and position alone only has to keep pc and
\* status in step with them.
LEMMA RecordsKeep ==
  ASSUME RecordsInv,
         UNCHANGED <<i, covered, settled, aborted, detFailed, aiFailed, records>>,
         pc' \in {"await", "postLookup"} => ~aborted /\ ~detFailed,
         pc' \notin {"commit", "done"} => status' = "none",
         status' \in {"completed", "partial", "failed", "aborted"} =>
           i = N + 1 /\ status' = RunStatus
  PROVE  RecordsInv'
<1>1. /\ Recorded("completed")' = Recorded("completed")
      /\ Recorded("skipped")' = Recorded("skipped")
      /\ Recorded("failed")' = Recorded("failed")
  BY RecordedSame
<1>2. RunStatus' = RunStatus
  BY DEF RunStatus
<1> QED BY <1>1, <1>2 DEF RecordsInv

\* A stage is behind the loop and has its record; nothing else is touched.
LEMMA RecordsPass ==
  ASSUME TypeOK, RecordsInv, i \in Stage,
         settled' = settled \/ settled' = settled \cup {i},
         i \in settled' \/ i \in Recorded("skipped")' \/ i \in Recorded("failed")',
         i' = i + 1,
         1..(i - 1) \subseteq settled \cup Recorded("skipped")' \cup Recorded("failed")',
         Recorded("skipped")' \cup Recorded("failed")' \subseteq 1..i
  PROVE  /\ Recorded("skipped")' \cup Recorded("failed")' \subseteq 1..(i' - 1)
         /\ 1..(i' - 1) \subseteq settled' \cup Recorded("skipped")' \cup Recorded("failed")'
<1>1. i \in Nat /\ i >= 1 /\ i' - 1 = i
  BY StagesAssumption
<1>2. 1..i = 1..(i - 1) \cup {i}
  BY <1>1
<1> QED BY <1>1, <1>2

LEMMA FirstStage ==
  ASSUME RecordsInv, i = 1
  PROVE  Recorded("skipped") = {} /\ Recorded("failed") = {}
<1>1. 1..(i - 1) = {}
  OBVIOUS
<1> QED BY <1>1 DEF RecordsInv

LEMMA RecordsStep ==
  TypeOK /\ ControlInv /\ RecordsInv /\ [Next]_vars => RecordsInv'
<1> SUFFICES ASSUME TypeOK, ControlInv, RecordsInv, [Next]_vars PROVE RecordsInv'
  OBVIOUS
<1>0. /\ records \in Seq(StageRecord) /\ i \in Nat /\ i >= 1
      /\ Det \cup AI = Stage /\ Det \cap AI = {}
  <2>1. records \in Seq(StageRecord) /\ i \in Nat /\ i >= 1
    BY StagesAssumption DEF TypeOK
  <2>2. Det \cup AI = Stage /\ Det \cap AI = {}
    BY StagesAssumption DEF Det
  <2> QED BY <2>1, <2>2
<1>1. CASE Begin \/ PreLookupMiss \/ PreLookupThrows
  BY <1>1, RecordsKeep DEF Begin, PreLookupMiss, PreLookupThrows, Return, flags, RecordsInv
<1>2. ASSUME NEW doc \in CachedDoc, PreLookupHit(doc) \/ PostLookupHit(doc) PROVE RecordsInv'
  BY <1>2, RecordsKeep DEF PreLookupHit, PostLookupHit, Return, flags, RecordsInv
<1>3. CASE Enter
  BY <1>3, RecordsKeep DEF Enter, flags, RecordsInv
<1>4. CASE Finish
  BY <1>4, RecordsKeep DEF Finish, flags, RecordsInv
<1>5. CASE Commit
  BY <1>5, RecordsKeep DEF Commit, flags, RecordsInv
<1>6. ASSUME NEW s \in Stage, NEW outcome \in {"ok", "error"}, StageEnds(s, outcome)
      PROVE  RecordsInv'
  BY <1>6, RecordsKeep DEF StageEnds, flags, RecordsInv
<1>7. CASE Abort
  BY <1>7, RecordsKeep DEF Abort, RecordsInv
<1>8. CASE UNCHANGED vars
  BY <1>8, RecordsKeep DEF vars, RecordsInv
<1>9. ASSUME NEW doc \in CachedDoc, PreLookupRetry(doc) PROVE RecordsInv'
  <2>1. /\ i = 1 /\ i' = i /\ settled' = settled /\ records' = records /\ pc' = "loop"
        /\ status = "none" /\ status' = "none"
        /\ UNCHANGED <<aborted, detFailed, aiFailed>>
    BY <1>9 DEF PreLookupRetry, ControlInv, RecordsInv, flags
  <2>2. /\ Recorded("completed")' = Recorded("completed")
        /\ Recorded("skipped")' = Recorded("skipped")
        /\ Recorded("failed")' = Recorded("failed")
    BY <2>1, RecordedSame
  <2>3. Recorded("failed") = {}
    BY <2>1, FirstStage
  <2> QED BY <2>1, <2>2, <2>3 DEF RecordsInv
<1>10. CASE PostLookupMiss \/ \E doc \in CachedDoc : PostLookupRetry(doc)
  <2>1. /\ pc = "postLookup" /\ i \in Stage /\ i' = i + 1 /\ pc' = "loop"
        /\ UNCHANGED <<settled, records, aborted, detFailed, aiFailed, status>>
    BY <1>10 DEF PostLookupMiss, PostLookupRetry, Advance, flags, TypeOK
  <2>2. i = Ingest /\ settled = {Ingest} /\ i = 1
    <3>1. i = Ingest /\ settled = {Ingest} /\ 1 \in Stage
      BY <2>1, StagesAssumption DEF ControlInv
    <3>2. Ingest <= 1
      BY <3>1, OrderAssumption
    <3> QED BY <1>0, <3>1, <3>2
  <2>3. /\ Recorded("completed")' = Recorded("completed")
        /\ Recorded("skipped")' = Recorded("skipped")
        /\ Recorded("failed")' = Recorded("failed")
    BY <2>1, RecordedSame
  <2>4. Recorded("failed") = {} /\ Recorded("skipped") = {}
    BY <2>2, FirstStage
  <2>5. 1..(i' - 1) = {i}
    BY <2>1, <2>2
  <2>6. status = "none"
    BY <2>1 DEF RecordsInv
  <2> QED BY <2>1, <2>2, <2>3, <2>4, <2>5, <2>6 DEF RecordsInv
<1>11. CASE Reuse
  <2>1. /\ i \in Stage /\ i \in covered /\ i \notin settled /\ i' = i + 1 /\ settled' = settled \cup {i}
        /\ records' = Record(i, "completed") /\ pc' = "loop" /\ status = "none" /\ status' = "none"
        /\ UNCHANGED <<covered, aborted, detFailed, aiFailed>>
    BY <1>11, StagesAssumption DEF Reuse, flags, TypeOK, ControlInv, RecordsInv
  <2>2. /\ Recorded("completed")' = Recorded("completed") \cup {i}
        /\ Recorded("skipped")' = Recorded("skipped")
        /\ Recorded("failed")' = Recorded("failed")
    BY <1>0, <2>1, RecordedMore
  <2>3. i \notin Recorded("failed")
    BY <2>1 DEF RecordsInv
  <2>4. /\ Recorded("skipped")' \cup Recorded("failed")' \subseteq 1..(i' - 1)
        /\ 1..(i' - 1) \subseteq settled' \cup Recorded("skipped")' \cup Recorded("failed")'
    <3>1. 1..(i - 1) \subseteq 1..i
      BY <1>0
    <3> QED BY <2>1, <2>2, <3>1, RecordsPass DEF RecordsInv
  <2> QED BY <2>1, <2>2, <2>3, <2>4 DEF RecordsInv
<1>12. CASE Skip
  <2>1. /\ i \in Stage /\ i' = i + 1 /\ settled' = settled
        /\ records' = Record(i, "skipped") /\ pc' = "loop" /\ status = "none" /\ status' = "none"
        /\ UNCHANGED <<covered, detFailed, aiFailed>>
    BY <1>12, StagesAssumption DEF Skip, flags, TypeOK, RecordsInv
  <2>6. /\ aborted' => aborted \/ signal
        /\ aborted' \/ detFailed
    BY <1>12 DEF Skip, TypeOK
  <2>2. /\ Recorded("completed")' = Recorded("completed")
        /\ Recorded("skipped")' = Recorded("skipped") \cup {i}
        /\ Recorded("failed")' = Recorded("failed")
    BY <1>0, <2>1, RecordedMore
  <2>3. /\ Recorded("skipped")' \cup Recorded("failed")' \subseteq 1..(i' - 1)
        /\ 1..(i' - 1) \subseteq settled' \cup Recorded("skipped")' \cup Recorded("failed")'
    <3>1. 1..(i - 1) \subseteq 1..i /\ i \in 1..i
      BY <1>0
    <3> QED BY <2>1, <2>2, <3>1, RecordsPass DEF RecordsInv
  <2> QED BY <2>1, <2>2, <2>3, <2>6 DEF RecordsInv
<1>13. CASE StageCompleted
  <2>1. /\ i \in Stage /\ i \notin settled /\ settled' = settled \cup {i} /\ pc = "await"
        /\ records' = Record(i, "completed") /\ status = "none" /\ status' = "none"
        /\ UNCHANGED <<covered, aborted, detFailed, aiFailed>>
        /\ ~aborted /\ ~detFailed
    BY <1>13 DEF StageCompleted, flags, TypeOK, ControlInv, RecordsInv
  <2>2. /\ Recorded("completed")' = Recorded("completed") \cup {i}
        /\ Recorded("skipped")' = Recorded("skipped")
        /\ Recorded("failed")' = Recorded("failed")
    BY <1>0, <2>1, RecordedMore
  <2>3. i \notin Recorded("failed")
    <3>1. i \notin 1..(i - 1)
      BY <1>0
    <3> QED BY <3>1 DEF RecordsInv
  <2>4. i' = i \/ (i' = i + 1 /\ pc' = "loop")
    BY <1>13 DEF StageCompleted, Advance
  <2>5. /\ Recorded("skipped")' \cup Recorded("failed")' \subseteq 1..(i' - 1)
        /\ 1..(i' - 1) \subseteq settled' \cup Recorded("skipped")' \cup Recorded("failed")'
    <3>1. 1..(i - 1) \subseteq 1..i
      BY <1>0
    <3>2. CASE i' = i
      BY <2>1, <2>2, <3>2 DEF RecordsInv
    <3>3. CASE i' = i + 1
      BY <2>1, <2>2, <3>1, <3>3, RecordsPass DEF RecordsInv
    <3> QED BY <2>4, <3>2, <3>3
  <2> QED BY <2>1, <2>2, <2>3, <2>5 DEF RecordsInv
<1>14. CASE StageFailed \/ PostLookupThrows
  <2>1. /\ i \in Stage /\ settled' = settled /\ i' = i + 1 /\ pc' = "loop"
        /\ records' = Record(i, "failed") /\ status = "none" /\ status' = "none"
        /\ UNCHANGED <<covered, aborted>>
        /\ i \notin covered
    BY <1>14 DEF StageFailed, PostLookupThrows, Caught, TypeOK, ControlInv, RecordsInv
  <2>5. /\ detFailed' <=> detFailed \/ i \in Det
        /\ aiFailed' <=> aiFailed \/ i \in AI
    BY <1>14 DEF StageFailed, PostLookupThrows, Caught, TypeOK
  <2>2. /\ Recorded("completed")' = Recorded("completed")
        /\ Recorded("skipped")' = Recorded("skipped")
        /\ Recorded("failed")' = Recorded("failed") \cup {i}
    BY <1>0, <2>1, RecordedMore
  <2>3. i \in settled => i \in Det
    BY <1>14, StagesAssumption DEF StageFailed, PostLookupThrows, ControlInv, Det
  <2>4. /\ Recorded("skipped")' \cup Recorded("failed")' \subseteq 1..(i' - 1)
        /\ 1..(i' - 1) \subseteq settled' \cup Recorded("skipped")' \cup Recorded("failed")'
    <3>1. 1..(i - 1) \subseteq 1..i /\ i \in 1..i
      BY <1>0
    <3> QED BY <2>1, <2>2, <3>1, RecordsPass DEF RecordsInv
  <2> QED BY <1>0, <2>1, <2>2, <2>3, <2>4, <2>5 DEF RecordsInv
<1> QED
  BY <1>1, <1>2, <1>3, <1>4, <1>5, <1>6, <1>7, <1>8, <1>9, <1>10, <1>11, <1>12, <1>13,
     <1>14 DEF Next, Orchestrate

----------------------------------------------------------------------------
(* What a run leaves in the slices.                                         *)

\* No stage owns it, so it is absent.
Unowned(prior) == \A k \in Slice : ~Produced(k) => prior[k] = "none"

\* The slices' part of OriginsInv.
SlicesInv ==
  /\ \A s \in settled \cup covered : \A k \in Owns[s] \ Optional : slices[k] # "none"
  /\ \A k \in Slice : (\A s \in settled \cup covered : k \notin Owns[s]) => slices[k] = "none"

LEMMA SlicesUnowned ==
  ASSUME TypeOK, SlicesInv PROVE Unowned(slices)
  BY DEF TypeOK, SlicesInv, Unowned, Produced

\* A stage is shown slices of which the unowned ones are absent.
LEMMA ViewsUnowned ==
  ASSUME NEW S \in SUBSET Stage, NEW prior, Run(S, prior), Unowned(prior),
         \A s \in Stage : Unowned(view[s])
  PROVE  \A s \in Stage : Unowned(view'[s])
<1> SUFFICES ASSUME NEW s \in Stage PROVE Unowned(view'[s])
  OBVIOUS
<1>1. view'[s] = prior \/ view'[s] = view[s]
  BY DEF Run
<1> QED BY <1>1

LEMMA OriginsParts == OriginsInv <=> SlicesInv /\ \A s \in Stage : Unowned(view[s])
  BY DEF OriginsInv, SlicesInv, Unowned

\* Seeding fills exactly what the cached analysis covers.
LEMMA SeededSlices ==
  ASSUME TypeOK, SlicesInv, covered = {}, NEW doc \in CachedDoc,
         covered' = Reusable(doc), slices' = Seeded(doc), settled' = settled
  PROVE  SlicesInv'
<1>1. \A s \in Stage : Owns[s] \subseteq Slice
  BY SlicesAssumption
<1>2. covered' \subseteq Stage /\ settled \subseteq Stage
  BY ReusableType DEF TypeOK
<1>3. \A k \in Slice : slices'[k] = IF \E s \in covered' : k \in Owns[s] THEN "cached" ELSE slices[k]
  BY DEF Seeded
<1>4. ASSUME NEW s \in settled' \cup covered', NEW k \in Owns[s] \ Optional
      PROVE  slices'[k] # "none"
  BY <1>1, <1>2, <1>3, <1>4 DEF SlicesInv
<1>5. ASSUME NEW k \in Slice, \A s \in settled' \cup covered' : k \notin Owns[s]
      PROVE  slices'[k] = "none"
  BY <1>3, <1>5 DEF SlicesInv
<1> QED BY <1>4, <1>5 DEF SlicesInv

LEMMA OriginsStep ==
  TypeOK /\ TypeOK' /\ ScheduleInv /\ OriginsInv /\ [Next]_vars => OriginsInv'
<1> SUFFICES ASSUME TypeOK, TypeOK', ControlInv, OnlyTheEndCorrects, OriginsInv, [Next]_vars PROVE OriginsInv'
  BY DEF ScheduleInv, FrozenInv
<1>0. SlicesInv /\ \A s \in Stage : Unowned(view[s])
  BY OriginsParts
<1>1. ASSUME UNCHANGED <<slices, view>>, settled' \cup covered' = settled \cup covered
      PROVE  OriginsInv'
  BY <1>1 DEF OriginsInv, Produced
<1>2. ASSUME SlicesInv', NEW S \in SUBSET Stage, Run(S, slices') PROVE OriginsInv'
  <2>1. Unowned(slices')
    BY <1>2 DEF TypeOK, SlicesInv, Unowned, Produced
  <2>2. \A s \in Stage : Unowned(view'[s])
    BY <1>0, <1>2, <2>1, ViewsUnowned
  <2> QED BY <1>2, <2>2 DEF OriginsInv, SlicesInv, Unowned, Produced
<1>3. ASSUME UNCHANGED <<slices, settled, covered>> PROVE SlicesInv'
  BY <1>0, <1>3 DEF SlicesInv
<1>4. CASE Begin \/ PreLookupMiss \/ PreLookupThrows \/ Skip \/ Abort
  BY <1>1, <1>4 DEF Begin, PreLookupMiss, PreLookupThrows, Skip, Abort, runs
<1>5. CASE StageFailed \/ PostLookupThrows \/ Commit
  BY <1>1, <1>5 DEF StageFailed, PostLookupThrows, Caught, Commit, runs
<1>6. ASSUME NEW doc \in CachedDoc, PreLookupHit(doc) \/ PostLookupHit(doc) PROVE OriginsInv'
  BY <1>1, <1>6 DEF PreLookupHit, PostLookupHit, runs
<1>7. ASSUME NEW s \in Stage, NEW outcome \in {"ok", "error"}, StageEnds(s, outcome)
      PROVE  OriginsInv'
  BY <1>1, <1>7 DEF StageEnds
<1>8. CASE UNCHANGED vars
  BY <1>1, <1>8 DEF vars
<1>9. CASE Reuse
  BY <1>1, <1>9 DEF Reuse, runs
<1>10. CASE Enter
  <2> DEFINE ready == Launchable(settled, covered)
  <2> DEFINE taken == launched \cup ready
  <2>1. Run(ready \cup ({i} \ taken), slices) /\ UNCHANGED <<slices, settled, covered>>
    BY <1>10 DEF Enter
  <2>2. ready \cup ({i} \ taken) \subseteq Stage
    BY <1>10, LaunchableStages DEF Enter, TypeOK
  <2> HIDE DEF ready
  <2> QED BY <1>2, <1>3, <2>1, <2>2
<1>11. CASE PostLookupMiss
  <2>1. Run(Launchable(settled, covered), slices) /\ UNCHANGED <<slices, settled, covered>>
    BY <1>11 DEF PostLookupMiss, Advance
  <2> QED BY <1>2, <1>3, <2>1, LaunchableStages
<1>12. ASSUME NEW doc \in CachedDoc, PreLookupRetry(doc) PROVE OriginsInv'
  <2>1. /\ covered = {} /\ covered' = Reusable(doc) /\ slices' = Seeded(doc)
        /\ settled' = settled /\ view' = view
    BY <1>12 DEF PreLookupRetry, ControlInv, runs
  <2>2. SlicesInv'
    BY <1>0, <2>1, SeededSlices
  <2> QED BY <1>0, <2>1, <2>2 DEF OriginsInv, SlicesInv, Unowned, Produced
<1>13. ASSUME NEW doc \in CachedDoc, PostLookupRetry(doc) PROVE OriginsInv'
  <2>1. /\ covered = {} /\ covered' = Reusable(doc) /\ slices' = Seeded(doc)
        /\ settled' = settled /\ Run(Launchable(settled, covered'), slices')
    BY <1>13 DEF PostLookupRetry, ControlInv, Advance
  <2>2. SlicesInv'
    BY <1>0, <2>1, SeededSlices
  <2> QED BY <1>2, <2>1, <2>2, LaunchableStages
<1>14. CASE StageCompleted
  <2>1. i \in Stage /\ settled' = settled \cup {i} /\ covered' = covered /\ settled \cup covered \subseteq Stage
    BY <1>14 DEF StageCompleted, TypeOK
  <2>2. PICK made \in SUBSET Owns[i] :
          /\ Owns[i] \ Optional \subseteq made
          /\ slices' = [k \in Slice |-> IF k \in made THEN "fresh" ELSE slices[k]]
    BY <1>14 DEF StageCompleted
  <2>3. SlicesInv'
    <3>1. \A s \in Stage : Owns[s] \subseteq Slice
      BY SlicesAssumption
    <3>2. ASSUME NEW s \in settled' \cup covered', NEW k \in Owns[s] \ Optional
          PROVE  slices'[k] # "none"
      BY <1>0, <2>1, <2>2, <3>1, <3>2 DEF SlicesInv
    <3>3. ASSUME NEW k \in Slice, \A s \in settled' \cup covered' : k \notin Owns[s]
          PROVE  slices'[k] = "none"
      BY <1>0, <2>1, <2>2, <3>3 DEF SlicesInv
    <3> QED BY <3>2, <3>3 DEF SlicesInv
  <2>4. CASE view' = view
    BY <1>0, <2>3, <2>4 DEF OriginsInv, SlicesInv, Unowned, Produced
  <2>5. CASE Advance(settled', covered, slices')
    <3>1. Run(Launchable(settled', covered), slices')
      BY <2>5 DEF Advance
    <3> QED BY <1>2, <2>3, <3>1, LaunchableStages
  <2> QED BY <1>14, <2>4, <2>5 DEF StageCompleted, runs
<1>15. CASE Finish
  <2>1. pc = "loop" /\ Reconcile /\ UNCHANGED <<settled, covered, view>>
    BY <1>15 DEF Finish, runs
  <2>2. \A k \in Slice : slices'[k] = "none" <=> slices[k] = "none"
    BY <2>1, ReconcileKeeps
  <2>3. \A s \in settled \cup covered : s \in Stage /\ Owns[s] \subseteq Slice
    BY SlicesAssumption DEF TypeOK
  <2> QED BY <2>1, <2>2, <2>3 DEF OriginsInv, Produced
<1> QED
  BY <1>15, <1>4, <1>5, <1>6, <1>7, <1>8, <1>9, <1>10, <1>11, <1>12, <1>13, <1>14
     DEF Next, Orchestrate

\* Records, flags and slices hold together on every run.
THEOREM HonestInvariant == Spec => []HonestInv
<1>1. Init => RecordsInv /\ OriginsInv
  <2> SUFFICES ASSUME Init PROVE RecordsInv /\ OriginsInv
    OBVIOUS
  <2>1. \A x : Recorded(x) = {}
    BY DEF Init, Recorded
  <2>2. 1..(i - 1) = {}
    BY DEF Init
  <2>3. RecordsInv
    BY <2>1, <2>2 DEF Init, RecordsInv
  <2>4. OriginsInv
    BY DEF Init, OriginsInv, Blank
  <2> QED BY <2>3, <2>4
<1>2. /\ TypeOK /\ TypeOK' /\ ScheduleInv /\ RecordsInv /\ OriginsInv /\ [Next]_vars
      => RecordsInv' /\ OriginsInv'
  BY RecordsStep, OriginsStep DEF ScheduleInv
<1>3. ScheduleInv => ControlInv
  BY DEF ScheduleInv
<1>4. HonestInv <=> RecordsInv /\ OriginsInv
  BY DEF HonestInv
<1> QED BY <1>1, <1>2, <1>3, <1>4, TypeCorrect, ScheduleInvariant, PTL DEF Spec

\* The status a run returns says what its records say, and what it vouches for
\* in producedBy is there: no matter which stages fail, in which order they
\* end, what the cache contributed and when the caller aborted.
THEOREM RunEndsHonestly == Spec => []RunsAreHonest
<1>1. ASSUME TypeOK, HonestInv PROVE StatusIsHonest
  <2>1. i = N + 1 => 1..(i - 1) = Stage
    BY StagesAssumption
  <2>2. Det \cup AI = Stage
    BY StagesAssumption DEF Det
  <2> QED BY <1>1, <2>1, <2>2 DEF HonestInv, RecordsInv, StatusIsHonest, RunStatus, Recorded
<1>2. ASSUME TypeOK, HonestInv PROVE ProducedByIsHonest
  <2> SUFFICES ASSUME status \in {"completed", "partial"} PROVE ProducedByIsHonest
    BY DEF ProducedByIsHonest
  <2>1. RecordsInv /\ OriginsInv
    BY <1>2 DEF HonestInv
  <2>2. ~detFailed
    BY <2>1 DEF RecordsInv, RunStatus
  <2>3. Recorded("failed") \cap (settled \cup covered) = {} /\ Recorded("completed") = settled
    BY <2>1, <2>2 DEF RecordsInv
  <2>4. settled \cup covered \subseteq Stage /\ Recorded("failed") \subseteq Stage
    BY <1>2, RecordedStages DEF TypeOK
  <2>5. ASSUME NEW s \in Recorded("failed"), NEW k \in Owns[s] PROVE slices[k] = "none"
    <3>1. k \in Slice /\ s \in Stage
      BY <2>4, <2>5, SlicesAssumption
    <3>2. \A t \in settled \cup covered : k \notin Owns[t]
      BY <2>3, <2>4, <2>5, <3>1, OwnersAssumption
    <3> QED BY <2>1, <3>1, <3>2 DEF OriginsInv
  <2>6. \A s \in Recorded("completed") : \A k \in Owns[s] \ Optional : slices[k] # "none"
    BY <2>1, <2>3 DEF OriginsInv
  <2> QED BY <2>5, <2>6 DEF ProducedByIsHonest
<1>3. TypeOK /\ HonestInv => RunsAreHonest
  BY <1>1, <1>2 DEF RunsAreHonest
<1> QED BY <1>3, TypeCorrect, HonestInvariant, PTL

----------------------------------------------------------------------------
(* The concurrent orchestrator implements the sequential contract.          *)

LEMMA ContractRecords ==
  /\ \A x : Contract!Recorded(x) = Recorded(x)
  /\ Contract!Stage = Stage /\ Contract!Det = Det
  BY DEF Contract!Recorded, Recorded, Contract!Stage, Contract!Det, Det

\* What the consumed runs were shown stays what it was.
LEMMA SeenSame ==
  ASSUME Computed' = Computed, \A s \in Computed : view'[s] = view[s]
  PROVE  Seen' = Seen
  BY DEF Seen

\* A run launched now is no consumed run, so what those were shown stays.
LEMMA SeenAtLaunch ==
  ASSUME TypeOK, NEW S \in SUBSET Stage, NEW prior, Run(S, prior),
         Computed' = Computed, S \cap settled = {}
  PROVE  Seen' = Seen
<1>1. \A s \in Computed : view'[s] = view[s]
  BY DEF Run, Computed, TypeOK
<1> QED BY <1>1, SeenSame

LEMMA LaunchableOpen ==
  ASSUME NEW folded, NEW skip
  PROVE  Launchable(folded, skip) \cap folded = {}
  BY DEF Launchable

\* Once the loop has moved on, it is about to deal with the stage it is at.
LEMMA NextMovesOn ==
  ASSUME TypeOK, ControlInv, i' = i + 1, settled' = settled \/ settled' = settled \cup {i}
  PROVE  NextStage' = i + 1
<1>0. i \in Nat /\ i >= 1 /\ settled \subseteq 1..i
  BY StagesAssumption DEF ControlInv, TypeOK
<1>1. i \in Nat /\ settled' \subseteq 1..i
  <2>1. i \in 1..i
    BY <1>0
  <2> QED BY <1>0, <2>1
<1>2. i + 1 \notin 1..i
  BY <1>1
<1> QED BY <1>1, <1>2 DEF NextStage

\* Where the loop waits for no late answer of the cache, it is at i.
LEMMA NextIsI ==
  ASSUME ControlInv, pc \notin {"postLookup", "done"} PROVE NextStage = i
  BY DEF ControlInv, NextStage

LEMMA ContractStutters ==
  ASSUME NextStage' = NextStage, Seen' = Seen,
         UNCHANGED <<covered, slices, records, status>>
  PROVE  UNCHANGED Contract!vars
  BY DEF Contract!vars

\* What the consumed run of i was shown is what it would be shown now.
LEMMA ShownIsCurrent ==
  ASSUME TypeOK, FrozenInv, OriginsInv, pc = "await"
  PROVE  \A k \in Reads[i] : view[i][k] = slices[k]
<1>1. i \in Stage /\ i \in Pending
  BY DEF TypeOK, Pending
<1> SUFFICES ASSUME NEW k \in Reads[i] PROVE view[i][k] = slices[k]
  OBVIOUS
<1>2. k \in Slice
  BY <1>1, SlicesAssumption
<1>3. CASE Produced(k)
  <2>1. Folded = slices
    BY NothingCorrected DEF FrozenInv
  <2> QED BY <1>1, <1>3, <2>1 DEF FrozenInv, Frozen, Produced
<1>4. CASE ~Produced(k)
  <2>1. settled \cup covered \subseteq Stage
    BY DEF TypeOK
  <2>2. \A s \in settled \cup covered : k \notin Owns[s]
    BY <1>4, <2>1 DEF Produced
  <2> QED BY <1>1, <1>2, <1>4, <2>2 DEF OriginsInv
<1> QED BY <1>3, <1>4

\* The loop is not stopped where it waits for a stage or for the cache.
LEMMA NotStopped ==
  ASSUME RecordsInv, pc \in {"await", "postLookup"}
  PROVE  /\ Recorded("skipped") = {} /\ Recorded("failed") \cap Det = {}
         /\ ~Contract!Stopped
<1>1. Recorded("skipped") = {} /\ Recorded("failed") \cap Det = {}
  BY DEF RecordsInv
<1> QED BY <1>1, ContractRecords DEF Contract!Stopped

\* A cached analysis is taken over.
LEMMA AdoptStep ==
  ASSUME TypeOK, covered = {}, status = "none", NextStage \in {1, Ingest + 1},
         NEW doc \in CachedDoc, CacheAction(doc) = "ai-retry",
         covered' = Reusable(doc), slices' = Seeded(doc), Seen' = Seen,
         NextStage' = NextStage, UNCHANGED <<records, status>>
  PROVE  Contract!Next
<1>1. Det \subseteq doc.have /\ ~(AI \subseteq Reusable(doc))
  BY DEF CacheAction
<1>2. /\ Reusable(doc) \subseteq Stage /\ Det \subseteq Reusable(doc)
      /\ Reusable(doc) # Stage
  BY <1>1, ReusableType, StagesAssumption DEF Reusable, CachedDoc, Det
<1>3. slices' = [k \in Slice |-> IF \E s \in covered' : k \in Owns[s]
                                 THEN "cached" ELSE slices[k]]
  BY DEF Seeded
<1>4. Contract!Adopt
  BY <1>2, <1>3, ContractRecords DEF Contract!Adopt, Contract!Open
<1> QED BY <1>4 DEF Contract!Next

\* Every step of the orchestrator is a step of the contract, or none.
LEMMA ContractStep ==
  ASSUME TypeOK, TypeOK', ControlInv, FrozenInv, RecordsInv, OriginsInv, [Next]_vars
  PROVE  [Contract!Next]_(Contract!vars)
<1>0. i \in Nat /\ i >= 1 /\ settled \subseteq Stage /\ covered \subseteq Stage
  BY StagesAssumption DEF TypeOK
<1>1. CASE Begin \/ PreLookupMiss \/ Abort
  <2>1. UNCHANGED <<i, settled, covered, view, slices, records, status>>
    BY <1>1 DEF Begin, PreLookupMiss, Abort, runs
  <2>2. NextStage' = NextStage /\ Seen' = Seen
    BY <2>1, SeenSame DEF NextStage, Computed
  <2> QED BY <2>1, <2>2, ContractStutters
<1>2. CASE Commit \/ UNCHANGED vars
  <2>1. UNCHANGED <<i, settled, covered, view, slices, records, status>>
    BY <1>2 DEF Commit, vars, runs
  <2>2. NextStage' = NextStage /\ Seen' = Seen
    BY <2>1, SeenSame DEF NextStage, Computed
  <2> QED BY <2>1, <2>2, ContractStutters
<1>3. ASSUME NEW s \in Stage, NEW outcome \in {"ok", "error"}, StageEnds(s, outcome)
      PROVE  UNCHANGED Contract!vars
  <2>1. UNCHANGED <<i, settled, covered, view, slices, records, status>>
    BY <1>3 DEF StageEnds
  <2>2. NextStage' = NextStage /\ Seen' = Seen
    BY <2>1, SeenSame DEF NextStage, Computed
  <2> QED BY <2>1, <2>2, ContractStutters
<1>4. CASE Enter
  <2> DEFINE ready == Launchable(settled, covered)
  <2> DEFINE S == ready \cup ({i} \ (launched \cup ready))
  <2>1. /\ Run(S, slices) /\ pc = "loop" /\ i \in Stage
        /\ UNCHANGED <<i, settled, covered, slices, records, status>>
    BY <1>4, <1>0, StagesAssumption DEF Enter
  <2>2. S \subseteq Stage /\ S \cap settled = {}
    BY <2>1, LaunchableStages, LaunchableOpen DEF ControlInv
  <2> HIDE DEF S
  <2>3. NextStage' = NextStage /\ Seen' = Seen
    BY <2>1, <2>2, SeenAtLaunch DEF NextStage, Computed
  <2> QED BY <2>1, <2>3, ContractStutters
<1>5. CASE PostLookupMiss
  <2>1. /\ Run(Launchable(settled, covered), slices) /\ i \in settled /\ i' = i + 1
        /\ UNCHANGED <<settled, covered, slices, records, status>>
    BY <1>5 DEF PostLookupMiss, Advance, ControlInv
  <2>2. NextStage = i + 1 /\ NextStage' = i + 1
    BY <2>1, NextMovesOn DEF NextStage
  <2>3. Seen' = Seen
    BY <2>1, LaunchableStages, LaunchableOpen, SeenAtLaunch DEF Computed
  <2> QED BY <2>1, <2>2, <2>3, ContractStutters
<1>6. CASE \/ PreLookupThrows
           \/ \E doc \in CachedDoc : PreLookupHit(doc) \/ PostLookupHit(doc)
  <2>1. /\ UNCHANGED <<i, settled, covered, view, slices, records>>
        /\ status' \in {"cacheHit", "rejected"} /\ status = "none"
    BY <1>6 DEF PreLookupThrows, PreLookupHit, PostLookupHit, Return, runs, RecordsInv
  <2>2. NextStage' = NextStage /\ Seen' = Seen
    BY <2>1, SeenSame DEF NextStage, Computed
  <2>3. NextStage \in {1, Ingest + 1}
    BY <1>6 DEF PreLookupThrows, PreLookupHit, PostLookupHit, ControlInv, NextStage
  <2>4. Contract!Answer
    BY <2>1, <2>2, <2>3 DEF Contract!Answer, Contract!Open
  <2> QED BY <2>4 DEF Contract!Next
<1>7. ASSUME NEW doc \in CachedDoc, PreLookupRetry(doc) PROVE Contract!Next
  <2>1. /\ covered = {} /\ settled = {} /\ i = 1 /\ status = "none" /\ CacheAction(doc) = "ai-retry"
        /\ covered' = Reusable(doc) /\ slices' = Seeded(doc)
        /\ UNCHANGED <<i, settled, view, records, status>>
    BY <1>7 DEF PreLookupRetry, ControlInv, RecordsInv, runs
  <2>2. NextStage' = NextStage /\ NextStage = 1 /\ Seen' = Seen
    BY <2>1, SeenSame DEF NextStage, Computed
  <2> QED BY <2>1, <2>2, AdoptStep
<1>8. ASSUME NEW doc \in CachedDoc, PostLookupRetry(doc) PROVE Contract!Next
  <2>1. /\ covered = {} /\ settled = {Ingest} /\ i = Ingest /\ i \in Stage /\ i' = i + 1
        /\ status = "none" /\ CacheAction(doc) = "ai-retry"
        /\ covered' = Reusable(doc) /\ slices' = Seeded(doc)
        /\ Run(Launchable(settled, covered'), slices')
        /\ UNCHANGED <<settled, records, status>>
    BY <1>8 DEF PostLookupRetry, ControlInv, RecordsInv, Advance, TypeOK
  <2>2. NextStage' = i + 1 /\ NextStage = i + 1
    BY <2>1, NextMovesOn DEF NextStage
  <2>3. Seen' = Seen
    <3>1. Reads[Ingest] = {}
      BY <1>0, <2>1, IngestAssumption
    <3>2. \A s \in Stage \ {Ingest} : s \notin Computed /\ s \notin Computed'
      BY <2>1 DEF Computed
    <3>3. Seen = [s \in Stage |-> [k \in Reads[s] |-> "unread"]]
      BY <3>1, <3>2 DEF Seen
    <3>4. Seen' = [s \in Stage |-> [k \in Reads[s] |-> "unread"]]
      BY <3>1, <3>2 DEF Seen
    <3> QED BY <3>3, <3>4
  <2> QED BY <2>1, <2>2, <2>3, AdoptStep
<1>9. CASE Reuse
  <2>1. /\ pc = "loop" /\ i \in Stage /\ i \in covered /\ i' = i + 1 /\ settled' = settled \cup {i}
        /\ records' = Record(i, "completed") /\ status = "none"
        /\ UNCHANGED <<covered, view, slices, status>>
    BY <1>0, <1>9, StagesAssumption DEF Reuse, runs, RecordsInv
  <2>2. NextStage = i /\ NextStage' = i + 1
    BY <2>1, NextIsI, NextMovesOn
  <2>3. Seen' = Seen
    BY <2>1, SeenSame DEF Computed
  <2>4. Contract!Reuse
    BY <2>1, <2>2, <2>3 DEF Contract!Reuse, Contract!Open, Contract!Record, Record
  <2> QED BY <2>2, <2>4 DEF Contract!Next
<1>10. CASE Skip
  <2>1. /\ pc = "loop" /\ i \in Stage /\ i \notin covered /\ i' = i + 1 /\ settled' = settled
        /\ records' = Record(i, "skipped") /\ status = "none"
        /\ UNCHANGED <<covered, view, slices, status>>
    BY <1>0, <1>10, StagesAssumption DEF Skip, runs, RecordsInv
  <2>2. NextStage = i /\ NextStage' = i + 1
    BY <2>1, NextIsI, NextMovesOn
  <2>3. Seen' = Seen
    BY <2>1, SeenSame DEF Computed
  <2>4. Contract!Skip
    BY <2>1, <2>2, <2>3, ContractRecords DEF Contract!Skip, Contract!Open, Contract!Record, Record
  <2> QED BY <2>2, <2>4 DEF Contract!Next
<1>11. CASE StageFailed
  <2>1. /\ pc = "await" /\ i \in Stage /\ i \notin covered /\ i' = i + 1 /\ settled' = settled
        /\ records' = Record(i, "failed") /\ status = "none"
        /\ UNCHANGED <<covered, view, slices, status>>
    BY <1>11 DEF StageFailed, Caught, TypeOK, runs, ControlInv, RecordsInv
  <2>2. NextStage = i /\ NextStage' = i + 1
    BY <2>1, NextIsI, NextMovesOn
  <2>3. Seen' = Seen
    BY <2>1, SeenSame DEF Computed
  <2>4. Contract!Fail
    BY <2>1, <2>2, <2>3, ContractRecords, NotStopped
       DEF Contract!Fail, Contract!Open, Contract!Record, Record
  <2> QED BY <2>1, <2>2, <2>4, NotStopped DEF Contract!Next
<1>12. CASE PostLookupThrows
  <2>1. /\ pc = "postLookup" /\ i \in Stage /\ i = Ingest /\ settled = {Ingest} /\ covered = {}
        /\ i' = i + 1 /\ settled' = settled
        /\ records' = Record(i, "failed") /\ status = "none"
        /\ UNCHANGED <<covered, view, slices, status>>
    BY <1>12 DEF PostLookupThrows, Caught, TypeOK, runs, ControlInv, RecordsInv
  <2>2. NextStage = i + 1 /\ NextStage' = i + 1
    BY <2>1, NextMovesOn DEF NextStage
  <2>3. Seen' = Seen
    BY <2>1, SeenSame DEF Computed
  <2>4. i = 1
    <3>1. 1 \in Stage
      BY <2>1, StagesAssumption
    <3>2. Ingest <= 1
      BY <3>1, OrderAssumption
    <3> QED BY <1>0, <2>1, <3>2
  <2>5. Recorded("failed") = {}
    BY <2>4, FirstStage
  <2>6. Contract!Discredit
    BY <1>0, <2>1, <2>2, <2>3, <2>5, ContractRecords
       DEF Contract!Discredit, Contract!Open, Contract!Record, Record
  <2> QED BY <2>6 DEF Contract!Next
<1>13. CASE Finish
  <2>1. /\ pc = "loop" /\ i = N + 1 /\ status = "none" /\ status' = RunStatus
        /\ Reconcile /\ UNCHANGED <<i, settled, covered, view, records>>
    BY <1>13 DEF Finish, runs, RecordsInv
  <2>2. NextStage = N + 1 /\ NextStage' = NextStage /\ Seen' = Seen
    BY <2>1, NextIsI, SeenSame DEF NextStage, Computed
  <2>3. RunStatus = Contract!StatusOf
    <3>1. Recorded("failed") \subseteq Stage /\ Stage = Det \cup AI
      BY RecordedStages, StagesAssumption DEF Det
    <3> QED BY <3>1, ContractRecords DEF RecordsInv, RunStatus, Contract!StatusOf
  <2>4. Contract!Conclude
    BY <2>1, <2>2, <2>3 DEF Contract!Conclude, Contract!Open, Reconcile
  <2> QED BY <2>4 DEF Contract!Next
<1>14. CASE StageCompleted
  <2>1. /\ pc = "await" /\ i \in Stage /\ i \notin covered /\ i \notin settled
        /\ settled' = settled \cup {i}
        /\ records' = Record(i, "completed") /\ status = "none"
        /\ UNCHANGED <<covered, status>>
    BY <1>14 DEF StageCompleted, TypeOK, ControlInv, RecordsInv
  <2>2. PICK made \in SUBSET Owns[i] :
          /\ Owns[i] \ Optional \subseteq made
          /\ slices' = [k \in Slice |-> IF k \in made THEN "fresh" ELSE slices[k]]
    BY <1>14 DEF StageCompleted
  <2>3. /\ \A s \in settled' : view'[s] = view[s]
        /\ NextStage' = i + 1
    <3>1. CASE i' = i /\ view' = view
      BY <2>1, <3>1 DEF NextStage
    <3>2. CASE Advance(settled', covered, slices')
      <4>1. Run(Launchable(settled', covered), slices') /\ i' = i + 1
        BY <3>2 DEF Advance
      <4>2. \A s \in settled' : s \in Stage /\ s \notin Launchable(settled', covered)
        BY <1>0, <2>1, LaunchableOpen
      <4>3. \A s \in settled' : view'[s] = view[s]
        BY <4>1, <4>2 DEF Run
      <4> QED BY <2>1, <4>1, <4>3, NextMovesOn
    <3> QED BY <1>14, <3>1, <3>2 DEF StageCompleted, runs
  <2>4. NextStage = i
    BY <2>1, NextIsI
  <2>5. Computed' = Computed \cup {i} /\ Computed' \subseteq settled' /\ i \notin Computed
    BY <2>1 DEF Computed
  <2>6. Seen' = [Seen EXCEPT ![i] = [k \in Reads[i] |-> slices[k]]]
    <3> DEFINE old == [Seen EXCEPT ![i] = [k \in Reads[i] |-> slices[k]]]
    <3>1. ASSUME NEW s \in Stage PROVE Seen'[s] = old[s]
      <4>1. Seen'[s] = [k \in Reads[s] |-> IF s \in Computed' THEN view'[s][k] ELSE "unread"]
        BY DEF Seen
      <4>2. CASE s = i
        <5>1. \A k \in Reads[i] : view'[i][k] = slices[k]
          BY <2>1, <2>3, ShownIsCurrent
        <5>2. old[s] = [k \in Reads[i] |-> slices[k]]
          BY <2>1, <4>2 DEF Seen
        <5> QED BY <2>5, <4>1, <4>2, <5>1, <5>2
      <4>3. CASE s # i
        <5>1. old[s] = [k \in Reads[s] |-> IF s \in Computed THEN view[s][k] ELSE "unread"]
          BY <4>3 DEF Seen
        <5>2. s \in Computed' <=> s \in Computed
          BY <2>5, <4>3
        <5>3. s \in Computed' => view'[s] = view[s]
          BY <2>3, <2>5
        <5> QED BY <4>1, <5>1, <5>2, <5>3
      <4> QED BY <4>2, <4>3
    <3>2. Seen' = [s \in Stage |-> Seen'[s]] /\ old = [s \in Stage |-> old[s]]
      BY DEF Seen
    <3> HIDE DEF old
    <3>3. Seen' = old
      BY <3>1, <3>2
    <3> QED BY <3>3 DEF old
  <2>7. Contract!Complete
    BY <2>1, <2>2, <2>4, <2>6, ContractRecords
       DEF Contract!Complete, Contract!Open, Contract!Record, Record
  <2> QED BY <2>1, <2>3, <2>4, <2>7, NotStopped DEF Contract!Next
<1> QED
  BY <1>1, <1>2, <1>3, <1>4, <1>5, <1>6, <1>7, <1>8, <1>9, <1>10, <1>11, <1>12, <1>13,
     <1>14 DEF Next, Orchestrate

\* Launching by readiness, speculating and running stages at once cannot be
\* told from running them one after the other.
THEOREM OrchestratorRefinesContract == Spec => ImplementsContract
<1>1. Init => Contract!Init
  <2> SUFFICES ASSUME Init PROVE Contract!Init
    OBVIOUS
  <2>1. NextStage = 1 /\ Computed = {}
    BY DEF Init, NextStage, Computed
  <2>2. Seen = [s \in Stage |-> [k \in Reads[s] |-> "unread"]]
    BY <2>1 DEF Seen
  <2> QED BY <2>1, <2>2 DEF Init, Blank, Contract!Init, Contract!Stage
<1>2. /\ TypeOK /\ TypeOK' /\ ScheduleInv /\ HonestInv /\ [Next]_vars
      => [Contract!Next]_(Contract!vars)
  BY ContractStep DEF ScheduleInv, HonestInv
<1> QED BY <1>1, <1>2, TypeCorrect, ScheduleInvariant, HonestInvariant, PTL
        DEF Spec, ImplementsContract, Contract!Spec

----------------------------------------------------------------------------
(* Work is warranted.                                                       *)

\* In the default schedule moving on starts nothing.
LEMMA AdvanceAlone ==
  ASSUME TypeOK, ~layered, NEW folded, NEW skip, NEW prior, Advance(folded, skip, prior)
  PROVE  starts' = starts /\ task' = task /\ launched' = launched
<1>1. Launchable(folded, skip) = {}
  BY DEF Launchable
<1>2. Run({}, prior) /\ launched' = launched
  BY <1>1 DEF Advance
<1> QED BY <1>2 DEF Run, TypeOK

\* What may be launched is not covered.
LEMMA RunSpares ==
  ASSUME TypeOK, NEW S \in SUBSET Stage, NEW prior, Run(S, prior), NEW s \in Stage
  PROVE  starts'[s] > 0 => starts[s] > 0 \/ s \in S
  BY DEF Run, TypeOK

\* Where stages are started, the cache has spoken or Ingest comes first.
LEMMA EnterIngest ==
  ASSUME TypeOK, RecordsInv, Ingest # 0, settled = {}, i \in Stage, ~aborted, ~detFailed
  PROVE  i = Ingest
<1>1. 1 \in Stage /\ Ingest \in Nat /\ Ingest >= 1 /\ i \in Nat /\ i >= 1 /\ N >= 1
  BY StagesAssumption
<1>2. Ingest <= 1
  BY <1>1, OrderAssumption
<1>3. Ingest = 1 /\ Ingest \in Det
  BY <1>1, <1>2, StagesAssumption DEF Det
<1>4. Recorded("skipped") = {} /\ Recorded("failed") \cap Det = {}
  BY DEF RecordsInv
<1>5. 1 \notin 1..(i - 1)
  BY <1>3, <1>4 DEF RecordsInv
<1> QED BY <1>1, <1>3, <1>5

LEMMA WorkStep ==
  ASSUME TypeOK, TypeOK', ControlInv, ControlInv', RecordsInv, RecordsInv', WorkInv, [Next]_vars
  PROVE  WorkInv'
<1>0. /\ i \in Nat /\ i >= 1 /\ settled \subseteq Stage /\ covered \subseteq Stage
      /\ \A s \in Stage : s \in Nat /\ starts[s] \in Nat
  BY StagesAssumption DEF TypeOK
<1>1. CASE Begin \/ PreLookupMiss
  <2>1. /\ UNCHANGED <<i, settled, covered, launched, starts, task, records, status, staging, layered>>
        /\ pc \in {"start", "preLookup"} /\ pc' \in {"preLookup", "loop"}
    BY <1>1 DEF Begin, PreLookupMiss, runs, shas
  <2> QED BY <2>1, RecordedSame DEF WorkInv, CacheSparesWork, SequentialRunsAlone
<1>2. CASE PreLookupThrows \/ \E doc \in CachedDoc : PreLookupHit(doc) \/ PostLookupHit(doc)
  <2>1. /\ UNCHANGED <<i, settled, covered, launched, starts, task, records, layered>>
        /\ pc \in {"preLookup", "postLookup"} /\ pc' = "done"
        /\ status' \in {"cacheHit", "rejected"} /\ staging' \in {"rolledBack", staging}
        /\ status = "none"
    BY <1>2 DEF PreLookupThrows, PreLookupHit, PostLookupHit, Return, runs, shas, RecordsInv
  <2> QED BY <2>1, RecordedSame DEF WorkInv, CacheSparesWork, SequentialRunsAlone
<1>3. CASE Abort \/ Commit \/ UNCHANGED vars
  <2>1. /\ UNCHANGED <<i, settled, covered, launched, starts, task, records, status, layered>>
        /\ \/ pc' = pc /\ staging' = staging
           \/ pc = "commit" /\ pc' = "done"
    BY <1>3 DEF Abort, Commit, vars, runs, shas
  <2> QED BY <2>1, RecordedSame DEF WorkInv, CacheSparesWork, SequentialRunsAlone
<1>4. CASE Finish
  <2>1. /\ UNCHANGED <<i, settled, covered, launched, starts, task, records, layered>>
        /\ pc = "loop" /\ pc' \in {"commit", "done"} /\ status' # "cacheHit" /\ i = N + 1
        /\ staging' = "committed" \/ pc' = "commit" => status' \in {"completed", "partial"}
    BY <1>4 DEF Finish, RunStatus, runs, shas, WorkInv, RecordsInv
  <2> QED BY <2>1, RecordedSame DEF WorkInv, CacheSparesWork, SequentialRunsAlone
<1>5. ASSUME NEW s \in Stage, NEW outcome \in {"ok", "error"}, StageEnds(s, outcome)
      PROVE  WorkInv'
  <2>1. /\ UNCHANGED <<pc, i, settled, covered, launched, starts, records, status, staging, layered>>
        /\ \A t \in Stage : task'[t] = "running" => task[t] = "running"
    BY <1>5 DEF StageEnds, TypeOK
  <2> QED BY <2>1, RecordedSame DEF WorkInv, CacheSparesWork, SequentialRunsAlone
<1>6. CASE Reuse
  <2>1. /\ UNCHANGED <<pc, covered, launched, starts, task, status, staging, layered>>
        /\ pc = "loop" /\ i' = i + 1 /\ settled' # {} /\ records' = Record(i, "completed")
        /\ i \in Stage
    BY <1>0, <1>6, StagesAssumption DEF Reuse, runs, shas
  <2>2. Recorded("skipped")' = Recorded("skipped")
    BY <2>1, RecordedMore DEF TypeOK
  <2> QED BY <1>0, <2>1, <2>2 DEF WorkInv, CacheSparesWork, SequentialRunsAlone
<1>7. CASE Skip
  <2>1. /\ UNCHANGED <<pc, settled, covered, launched, starts, task, status, staging, layered>>
        /\ pc = "loop" /\ i' = i + 1 /\ records' = Record(i, "skipped")
        /\ i \in Stage
    BY <1>0, <1>7, StagesAssumption DEF Skip, runs, shas
  <2>2. Recorded("skipped")' = Recorded("skipped") \cup {i}
    BY <2>1, RecordedMore DEF TypeOK
  <2>3. ~layered => starts[i] = 0
    BY <1>0, <2>1 DEF WorkInv
  <2> QED BY <1>0, <2>1, <2>2, <2>3 DEF WorkInv, CacheSparesWork, SequentialRunsAlone
<1>8. CASE StageFailed \/ PostLookupThrows
  <2>1. /\ UNCHANGED <<settled, covered, launched, starts, task, status, staging, layered>>
        /\ pc \in {"await", "postLookup"} /\ pc' = "loop" /\ i' = i + 1
        /\ records' = Record(i, "failed") /\ i \in Stage
        /\ pc = "await" => task[i] # "running"
    BY <1>8 DEF StageFailed, PostLookupThrows, Caught, runs, shas, TypeOK
  <2>2. Recorded("skipped")' = Recorded("skipped")
    BY <2>1, RecordedMore DEF TypeOK
  <2> QED BY <1>0, <2>1, <2>2 DEF WorkInv, CacheSparesWork, SequentialRunsAlone
<1>9. ASSUME NEW doc \in CachedDoc, PreLookupRetry(doc) PROVE WorkInv'
  <2>1. /\ UNCHANGED <<i, settled, launched, starts, task, records, status, staging, layered>>
        /\ pc = "preLookup" /\ pc' = "loop" /\ covered' \subseteq Stage
        /\ status = "none"
    BY <1>9 DEF PreLookupRetry, runs, shas, TypeOK, RecordsInv
  <2> QED BY <1>0, <2>1, RecordedSame DEF WorkInv, CacheSparesWork, SequentialRunsAlone
<1>10. CASE Enter
  <2> DEFINE ready == Launchable(settled, covered)
  <2> DEFINE S == ready \cup ({i} \ (launched \cup ready))
  <2>1. /\ Run(S, slices) /\ launched' = (launched \cup ready) \ {i} /\ i \in Stage /\ i \notin covered
        /\ pc = "loop" /\ pc' = "await" /\ ~aborted /\ ~detFailed
        /\ UNCHANGED <<i, settled, covered, records, status, staging, layered>>
    BY <1>0, <1>10, StagesAssumption DEF Enter, shas
  <2>2. /\ ready \subseteq Stage /\ ready \cap covered = {} /\ S \subseteq Stage
        /\ ~layered => ready = {}
        /\ Ingest # 0 /\ settled = {} => ready = {}
    BY <2>1, StagesAssumption DEF Launchable, ReadyToLaunch
  <2>3. Ingest # 0 /\ settled = {} => i = Ingest
    BY <2>1, EnterIngest
  <2> HIDE DEF ready
  <2>4. \A s \in Stage : starts'[s] > 0 => starts[s] > 0 \/ s \in S
    BY <2>1, <2>2, RunSpares
  <2>5. \A s \in Stage : starts'[s] \in Nat
    BY DEF TypeOK
  <2>6. CacheSparesWork'
    BY <1>0, <2>1, <2>2, <2>4 DEF WorkInv, CacheSparesWork, RecordsInv
  <2>7. Ingest # 0 /\ settled = {} => \A s \in Stage \ {Ingest} : starts'[s] = 0
    BY <1>0, <2>2, <2>3, <2>4, <2>5 DEF WorkInv
  <2>8. ASSUME ~layered
        PROVE  /\ launched' = {}
               /\ \A s \in Stage : starts'[s] > 0 => s < i \/ s = i
               /\ SequentialRunsAlone'
    <3>1. S = {i} /\ launched' = {} /\ starts[i] = 0
      BY <1>0, <2>1, <2>2, <2>8 DEF WorkInv
    <3>2. \A s \in Stage : /\ starts'[s] = IF s = i THEN starts[s] + 1 ELSE starts[s]
                           /\ task'[s] = IF s = i THEN "running" ELSE task[s]
      BY <2>1, <3>1 DEF Run
    <3>3. Recorded("skipped")' = Recorded("skipped") /\ i \notin Recorded("skipped")
      <4>1. i \notin 1..(i - 1)
        BY <1>0
      <4> QED BY <2>1, <4>1, RecordedSame DEF RecordsInv
    <3> QED BY <1>0, <2>1, <2>8, <3>1, <3>2, <3>3, RecordedStages DEF WorkInv, SequentialRunsAlone
  <2> QED BY <2>1, <2>6, <2>7, <2>8 DEF WorkInv
<1>11. ASSUME NEW folded, NEW skip, NEW prior, Advance(folded, skip, prior),
              covered' = skip, settled' # {}, i \in Stage, pc \in {"await", "postLookup"},
              pc = "await" => task[i] # "running",
              \A s \in covered' : starts[s] > 0 => s = Ingest,
              Recorded("skipped")' = Recorded("skipped"),
              UNCHANGED <<status, staging, layered>>
       PROVE  WorkInv'
  <2> DEFINE ready == Launchable(folded, skip)
  <2>1. /\ Run(ready, prior) /\ i' = i + 1 /\ pc' = "loop" /\ status = "none"
        /\ ready \subseteq Stage /\ ready \cap covered' = {}
    BY <1>11 DEF Advance, Launchable, RecordsInv
  <2> HIDE DEF ready
  <2>2. \A s \in Stage : starts'[s] > 0 => starts[s] > 0 \/ s \in ready
    BY <2>1, RunSpares
  <2>3. CacheSparesWork'
    BY <1>0, <1>11, <2>1, <2>2 DEF CacheSparesWork, TypeOK
  <2>4. ASSUME ~layered
        PROVE  /\ launched' = {}
               /\ \A s \in Stage : starts'[s] > 0 => s < i'
               /\ SequentialRunsAlone'
    <3>1. starts' = starts /\ task' = task /\ launched' = launched
      BY <1>11, <2>4, AdvanceAlone
    <3> QED BY <1>0, <1>11, <2>1, <2>4, <3>1 DEF WorkInv, SequentialRunsAlone
  <2> QED BY <1>11, <2>1, <2>3, <2>4 DEF WorkInv
<1>12. CASE PostLookupMiss
  <2>1. /\ pc = "postLookup" /\ i \in Stage /\ Advance(settled, covered, slices)
        /\ UNCHANGED <<settled, covered, records, status, staging, layered>> /\ settled # {}
    BY <1>12 DEF PostLookupMiss, shas, TypeOK, ControlInv
  <2>2. \A s \in covered' : starts[s] > 0 => s = Ingest
    BY <2>1 DEF WorkInv, CacheSparesWork
  <2> QED BY <1>11, <2>1, <2>2, RecordedSame
<1>13. ASSUME NEW doc \in CachedDoc, PostLookupRetry(doc) PROVE WorkInv'
  <2>1. /\ pc = "postLookup" /\ i \in Stage /\ Advance(settled, covered', slices')
        /\ UNCHANGED <<settled, records, status, staging, layered>> /\ settled # {}
        /\ covered' \subseteq Stage
    BY <1>13 DEF PostLookupRetry, shas, TypeOK, ControlInv
  <2>2. \A s \in covered' : starts[s] > 0 => s = Ingest
    BY <1>0, <2>1 DEF WorkInv
  <2> QED BY <1>11, <2>1, <2>2, RecordedSame
<1>14. CASE StageCompleted
  <2>1. /\ pc = "await" /\ i \in Stage /\ task[i] # "running" /\ settled' = settled \cup {i}
        /\ records' = Record(i, "completed")
        /\ UNCHANGED <<covered, status, staging, layered>>
    BY <1>14 DEF StageCompleted, shas, TypeOK
  <2>2. Recorded("skipped")' = Recorded("skipped")
    BY <2>1, RecordedMore DEF TypeOK
  <2>3. CASE Advance(settled', covered, slices')
    <3>1. \A s \in covered' : starts[s] > 0 => s = Ingest
      BY <2>1 DEF WorkInv, CacheSparesWork
    <3> QED BY <1>11, <2>1, <2>2, <2>3, <3>1
  <2>4. CASE pc' = "postLookup" /\ UNCHANGED <<i, launched, runs>>
    <3>1. settled = {} /\ Ingest # 0
      BY <2>1, <2>4, StagesAssumption DEF ControlInv
    <3> QED BY <2>1, <2>2, <2>4, <3>1 DEF WorkInv, CacheSparesWork, SequentialRunsAlone, runs
  <2> QED BY <1>14, <2>3, <2>4 DEF StageCompleted
<1> QED
  BY <1>1, <1>2, <1>3, <1>4, <1>5, <1>6, <1>7, <1>8, <1>9, <1>10, <1>12, <1>13,
     <1>14 DEF Next, Orchestrate

\* A cached analysis spares the work it covers, the default schedule runs
\* nothing behind the loop's back, and only sound runs promote what was
\* speculated, for any stages, schedule and cache.
THEOREM OnlyWarrantedWork == Spec => []WorkIsWarranted
<1>1. Init => WorkInv
  <2> SUFFICES ASSUME Init PROVE WorkInv
    OBVIOUS
  <2>1. \A s \in Stage : starts[s] = 0 /\ task[s] = "idle"
    BY DEF Init
  <2>2. Recorded("skipped") = {}
    BY DEF Init, Recorded
  <2> QED BY <2>1, <2>2 DEF Init, WorkInv, CacheSparesWork, SequentialRunsAlone
<1>2. /\ TypeOK /\ TypeOK' /\ ScheduleInv /\ ScheduleInv' /\ HonestInv /\ HonestInv' /\ WorkInv
      /\ [Next]_vars
      => WorkInv'
  BY WorkStep DEF ScheduleInv, HonestInv
<1>3. ASSUME TypeOK, HonestInv, WorkInv PROVE WorkIsWarranted
  <2>1. OnlySoundRunsCommit
    <3> SUFFICES ASSUME staging = "committed" PROVE Det \subseteq Recorded("completed")
      BY <1>3 DEF WorkInv, OnlySoundRunsCommit
    <3>1. status \in {"completed", "partial"} /\ i = N + 1 /\ status = RunStatus
      BY <1>3 DEF WorkInv, HonestInv, RecordsInv
    <3>2. 1..(i - 1) = Stage
      BY <3>1, StagesAssumption
    <3> QED BY <1>3, <3>1, <3>2 DEF HonestInv, RecordsInv, RunStatus, Det
  <2>2. CacheSparesWork /\ SequentialRunsAlone
    BY <1>3 DEF WorkInv, SequentialRunsAlone
  <2> QED BY <2>1, <2>2 DEF WorkIsWarranted
<1> QED BY <1>1, <1>2, <1>3, TypeCorrect, ScheduleInvariant, HonestInvariant, PTL DEF Spec

(***************************************************************************)
(* The speculator of a run (module Speculator), for any keys, claims and   *)
(* number of slots: what reaches the shared cache was asked for and        *)
(* computed, and the slots are counted right and put to use.               *)
(***************************************************************************)

CONSTANTS Keys, Claims, Slots   \* as in Speculator
VARIABLES staged, queue, computation, inFlight, failed, claimed, claim, cache, visited, phase

S == INSTANCE Speculator WITH task <- computation

\* The instance counts as this module does.
LEMMA CountedAlike ==
  ASSUME NEW T
  PROVE  S!IsFiniteSet(T) = IsFiniteSet(T) /\ S!Cardinality(T) = Cardinality(T)
BY DEF S!IsFiniteSet, IsFiniteSet, S!Cardinality, Cardinality

LEMMA KeysFinite ==
  ASSUME S!SpeculatorConstants
  PROVE  IsFiniteSet(Keys) /\ Slots \in Nat \ {0}
BY CountedAlike DEF S!SpeculatorConstants

USE DEF S!SpeculatorConstants

\* Moving to the front neither adds nor drops nor doubles a task.
LEMMA ToFrontKeeps ==
  ASSUME S!SpeculatorConstants, NEW q \in Seq(Keys), NEW n \in DOMAIN q
  PROVE  /\ S!ToFront(q, n) \in Seq(Keys)
         /\ Len(S!ToFront(q, n)) = Len(q)
         /\ \A j \in DOMAIN S!ToFront(q, n) : \E m \in DOMAIN q : S!ToFront(q, n)[j] = q[m]
         /\ (\A m, j \in DOMAIN q : q[m] = q[j] => m = j) =>
              \A m, j \in DOMAIN S!ToFront(q, n) : S!ToFront(q, n)[m] = S!ToFront(q, n)[j] => m = j
<1> DEFINE f == S!ToFront(q, n)
<1>1. n \in 1..Len(q) /\ Len(q) \in Nat
  OBVIOUS
<1>2. f = [j \in 1..Len(q) |-> IF j = 1 THEN q[n] ELSE IF j <= n THEN q[j - 1] ELSE q[j]]
  BY DEF S!ToFront
<1>3. \A j \in 1..Len(q) : f[j] \in Keys
  BY <1>1, <1>2
<1>4. f \in Seq(Keys) /\ Len(f) = Len(q) /\ DOMAIN f = 1..Len(q)
  BY <1>1, <1>2, <1>3
<1>5. \A j \in DOMAIN f : \E m \in DOMAIN q : f[j] = q[m]
  <2> TAKE j \in DOMAIN f
  <2>1. CASE j = 1
    BY <2>1, <1>1, <1>2, <1>4
  <2>2. CASE j # 1 /\ j <= n
    BY <2>2, <1>1, <1>2, <1>4, j - 1 \in DOMAIN q
  <2>3. CASE j # 1 /\ ~(j <= n)
    BY <2>3, <1>1, <1>2, <1>4
  <2> QED BY <2>1, <2>2, <2>3
<1>6. ASSUME \A m, j \in DOMAIN q : q[m] = q[j] => m = j,
             NEW m \in DOMAIN f, NEW j \in DOMAIN f, f[m] = f[j]
      PROVE  m = j
  BY <1>1, <1>2, <1>4, <1>6
<1> QED BY <1>4, <1>5, <1>6

\* What pump does: it starts a prefix of the queue, as long as the room there
\* is, and leaves everything else of the tasks alone.
LEMMA PumpStarts ==
  ASSUME S!SpeculatorConstants, NEW t \in [Keys -> S!TaskState], NEW q \in Seq(Keys), NEW n \in 0..Slots,
         S!Pump(t, q, n)
  PROVE  \E s \in 0..Len(q) :
           /\ queue' \in Seq(Keys) /\ Len(queue') = Len(q) - s
           /\ \A j \in DOMAIN queue' : j + s \in DOMAIN q /\ queue'[j] = q[j + s]
           /\ inFlight' = n + s /\ inFlight' \in 0..Slots
           /\ queue' # <<>> => inFlight' = Slots
           /\ computation' \in [Keys -> S!TaskState]
           /\ \A k \in Keys :
                /\ computation'[k].value = t[k].value
                /\ (\E m \in 1..s : q[m] = k) => computation'[k].at = "running"
                /\ ~(\E m \in 1..s : q[m] = k) => computation'[k].at = t[k].at
<1>1. PICK s \in 0..Len(q) :
        /\ s = S!Min2(Slots - n, Len(q))
        /\ n + s \in 0..Slots /\ (s # Len(q) => n + s = Slots)
  BY DEF S!Min2
<1>2. queue' = SubSeq(q, s + 1, Len(q)) /\ inFlight' = n + s
  BY <1>1 DEF S!Pump
<1>3. queue' \in Seq(Keys) /\ Len(queue') = Len(q) - s
  BY <1>2
<1>4. \A j \in DOMAIN queue' : j + s \in DOMAIN q /\ queue'[j] = q[j + s]
  BY <1>2, <1>3
<1>5. computation' = [k \in Keys |->
         IF \E m \in 1..s : q[m] = k THEN [t[k] EXCEPT !.at = "running"] ELSE t[k]]
  BY <1>1 DEF S!Pump
<1>6. \A k \in Keys : [t[k] EXCEPT !.at = "running"] = [at |-> "running", value |-> t[k].value]
  BY DEF S!TaskState
<1>7. computation' \in [Keys -> S!TaskState]
  BY <1>5, <1>6 DEF S!TaskState
<1>8. \A k \in Keys : /\ computation'[k].value = t[k].value
                      /\ (\E m \in 1..s : q[m] = k) => computation'[k].at = "running"
                      /\ ~(\E m \in 1..s : q[m] = k) => computation'[k].at = t[k].at
  BY <1>5, <1>6
<1>9. queue' # <<>> => inFlight' = Slots
  BY <1>1, <1>2, <1>3
<1> QED BY <1>1, <1>2, <1>3, <1>4, <1>7, <1>8, <1>9

\* The computations that hold a slot, and a queue whose tasks wait, once each.
Computing(t) == {k \in Keys : t[k].at \in {"running", "ended"}}
WaitsOnce(t, q) ==
  /\ \A j \in DOMAIN q : t[q[j]].at = "queued"
  /\ \A m, j \in DOMAIN q : q[m] = q[j] => m = j

\* pump keeps the count of slots right and the rest of the queue in order.
LEMMA PumpKeeps ==
  ASSUME S!SpeculatorConstants, NEW t \in [Keys -> S!TaskState], NEW q \in Seq(Keys), NEW n \in 0..Slots,
         S!Pump(t, q, n), WaitsOnce(t, q), n = Cardinality(Computing(t))
  PROVE  /\ computation' \in [Keys -> S!TaskState] /\ queue' \in Seq(Keys) /\ inFlight' \in 0..Slots
         /\ WaitsOnce(computation', queue')
         /\ inFlight' = Cardinality(Computing(computation'))
         /\ queue' # <<>> => inFlight' = Slots
         /\ \A j \in DOMAIN queue' : \E m \in DOMAIN q : queue'[j] = q[m]
         /\ \A k \in Keys :
              /\ computation'[k].value = t[k].value
              /\ computation'[k].at = t[k].at \/ (t[k].at = "queued" /\ computation'[k].at = "running")
<1>1. PICK s \in 0..Len(q) :
           /\ queue' \in Seq(Keys) /\ Len(queue') = Len(q) - s
           /\ \A j \in DOMAIN queue' : j + s \in DOMAIN q /\ queue'[j] = q[j + s]
           /\ inFlight' = n + s /\ inFlight' \in 0..Slots
           /\ queue' # <<>> => inFlight' = Slots
           /\ computation' \in [Keys -> S!TaskState]
           /\ \A k \in Keys :
                /\ computation'[k].value = t[k].value
                /\ (\E m \in 1..s : q[m] = k) => computation'[k].at = "running"
                /\ ~(\E m \in 1..s : q[m] = k) => computation'[k].at = t[k].at
  BY PumpStarts
<1> DEFINE Started == {q[m] : m \in 1..s}
<1>2. 1..s \subseteq DOMAIN q /\ \A m \in DOMAIN q : q[m] \in Keys
  BY <1>1
<1>3. \A k \in Keys : k \in Started <=> \E m \in 1..s : q[m] = k
  OBVIOUS
<1>4. \A m \in 1..s : t[q[m]].at = "queued"
  BY <1>2 DEF WaitsOnce
<1>5. \A k \in Keys :
         /\ k \in Started => t[k].at = "queued" /\ computation'[k].at = "running"
         /\ k \notin Started => computation'[k].at = t[k].at
  <2> TAKE k \in Keys
  <2> HIDE DEF Started
  <2>1. CASE \E m \in 1..s : q[m] = k
    BY <2>1, <1>1, <1>3, <1>4
  <2>2. CASE ~ \E m \in 1..s : q[m] = k
    BY <2>2, <1>1, <1>3
  <2> QED BY <2>1, <2>2
<1>6. WaitsOnce(computation', queue')
  <2>1. ASSUME NEW j \in DOMAIN queue'  PROVE computation'[queue'[j]].at = "queued"
    <3>1. j \in Nat \ {0} /\ j + s \in DOMAIN q /\ queue'[j] = q[j + s]
      BY <1>1, <2>1
    <3>2. ASSUME q[j + s] \in Started  PROVE FALSE
      <4>1. PICK m \in 1..s : q[m] = q[j + s]
        BY <3>2
      <4>2. m = j + s
        BY <4>1, <3>1, <1>2 DEF WaitsOnce
      <4> QED BY <4>1, <4>2, <3>1
    <3> QED BY <3>1, <3>2, <1>2, <1>5 DEF WaitsOnce
  <2>2. ASSUME NEW m \in DOMAIN queue', NEW j \in DOMAIN queue', queue'[m] = queue'[j]
        PROVE  m = j
    <3>1. m \in Nat /\ j \in Nat /\ m + s \in DOMAIN q /\ j + s \in DOMAIN q /\ q[m + s] = q[j + s]
      BY <1>1, <2>2
    <3>2. m + s = j + s
      BY <3>1 DEF WaitsOnce
    <3> QED BY <3>1, <3>2
  <2> QED BY <2>1, <2>2 DEF WaitsOnce
<1>7. Started \subseteq Keys /\ IsFiniteSet(Started) /\ Cardinality(Started) = s
  <2> DEFINE f == [m \in 1..s |-> q[m]]
  <2>1. \A m, j \in 1..s : f[m] = f[j] => m = j
    BY <1>2 DEF WaitsOnce
  <2>2. f \in Bijection(1..s, Started)
    BY <2>1, Fun_IsBij
  <2>3. IsFiniteSet(1..s) /\ Cardinality(1..s) = s
    BY FS_Interval
  <2>4. ExistsBijection(1..s, Started)
    BY <2>2 DEF ExistsBijection
  <2>5. IsFiniteSet(Started) /\ Cardinality(Started) = s
    BY <2>3, <2>4, FS_Bijection
  <2> QED BY <2>5, <1>2
<1>8. Computing(computation') = Computing(t) \cup Started /\ Computing(t) \cap Started = {}
  BY <1>5, <1>7 DEF Computing
<1>9. Cardinality(Computing(computation')) = n + s
  <2>1. IsFiniteSet(Computing(t))
    BY KeysFinite, FS_Subset DEF Computing
  <2> HIDE DEF Started
  <2>2. Cardinality(Computing(t) \cup Started) = n + s - Cardinality({})
    BY <2>1, <1>7, <1>8, FS_Union
  <2> QED BY <2>2, <1>8, FS_EmptySet
<1>10. \A k \in Keys : computation'[k].at = t[k].at \/ (t[k].at = "queued" /\ computation'[k].at = "running")
  BY <1>5
<1>11. \A j \in DOMAIN queue' : \E m \in DOMAIN q : queue'[j] = q[m]
  BY <1>1
<1> QED BY <1>1, <1>6, <1>9, <1>10, <1>11

----------------------------------------------------------------------------
(* The steps.                                                               *)

\* The invariant as an inductive one: no step of a typed state breaks it.
SpeculationInv == S!TypeOK /\ S!SpeculatorInv

\* The slots are used when they count the computations.
LEMMA SlotsCount ==
  /\ S!SlotsAreUsed <=> /\ inFlight = Cardinality(Computing(computation)) /\ inFlight <= Slots
                        /\ queue # <<>> => inFlight = Slots
  /\ S!SlotsAreUsed' <=> /\ inFlight' = Cardinality(Computing(computation')) /\ inFlight' <= Slots
                         /\ queue' # <<>> => inFlight' = Slots
<1>1. S!Cardinality(Computing(computation)) = Cardinality(Computing(computation))
  BY CountedAlike
<1>2. S!Cardinality(Computing(computation')) = Cardinality(Computing(computation'))
  BY CountedAlike
<1> QED BY <1>1, <1>2 DEF S!SlotsAreUsed, S!Busy, Computing

\* A task waits in the queue once: what pump is called with.
LEMMA QueueWaits ==
  ASSUME S!SpeculatorConstants, SpeculationInv
  PROVE  WaitsOnce(computation, queue) /\ inFlight = Cardinality(Computing(computation)) /\ inFlight \in 0..Slots
BY SlotsCount DEF SpeculationInv, S!SpeculatorInv, S!TasksInv, WaitsOnce, S!TypeOK

LEMMA SpeculateKeeps ==
  ASSUME S!SpeculatorConstants, SpeculationInv, NEW k \in Keys, S!Speculate(k)
  PROVE  SpeculationInv'
<1> DEFINE t == [computation EXCEPT ![k].at = "queued"]
           q == Append(queue, k)
<1>1. computation \in [Keys -> S!TaskState] /\ queue \in Seq(Keys)
  BY DEF SpeculationInv, S!TypeOK
<1>2. computation[k].at = "none" /\ computation[k].value = "pending"
  BY DEF SpeculationInv, S!SpeculatorInv, S!TasksInv, S!Speculate
<1>3. t = [computation EXCEPT ![k] = [at |-> "queued", value |-> "pending"]]
  <2>1. [computation[k] EXCEPT !.at = "queued"] = [at |-> "queued", value |-> "pending"]
    BY <1>1, <1>2 DEF S!TaskState
  <2>2. t = [computation EXCEPT ![k] = [computation[k] EXCEPT !.at = "queued"]]
    BY Zenon
  <2> QED BY <2>1, <2>2, Zenon
<1> HIDE DEF t
<1>4. /\ t \in [Keys -> S!TaskState]
      /\ t[k] = [at |-> "queued", value |-> "pending"]
      /\ \A x \in Keys \ {k} : t[x] = computation[x]
  BY <1>1, <1>3 DEF S!TaskState
<1>5. /\ q \in Seq(Keys) /\ Len(q) = Len(queue) + 1 /\ q[Len(queue) + 1] = k
      /\ \A j \in DOMAIN queue : q[j] = queue[j]
      /\ DOMAIN q = DOMAIN queue \cup {Len(queue) + 1}
  BY <1>1
<1> HIDE DEF q
<1>6. \A j \in DOMAIN queue : queue[j] \in Keys \ {k}
  BY <1>1, <1>2 DEF SpeculationInv, S!SpeculatorInv, S!TasksInv
<1>7. WaitsOnce(t, q)
  <2>1. \A j \in DOMAIN q : t[q[j]].at = "queued"
    BY <1>4, <1>5, <1>6, QueueWaits DEF WaitsOnce
  <2>2. \A m, j \in DOMAIN q : q[m] = q[j] => m = j
    BY <1>5, <1>6, QueueWaits DEF WaitsOnce
  <2> QED BY <2>1, <2>2 DEF WaitsOnce
<1>8. Computing(t) = Computing(computation)
  BY <1>2, <1>4 DEF Computing
<1>9. inFlight \in 0..Slots /\ inFlight = Cardinality(Computing(t))
  BY <1>8, QueueWaits
<1>10. S!Pump(t, q, inFlight)
  BY DEF S!Speculate, t, q
<1>11. /\ computation' \in [Keys -> S!TaskState] /\ queue' \in Seq(Keys) /\ inFlight' \in 0..Slots
       /\ WaitsOnce(computation', queue')
       /\ inFlight' = Cardinality(Computing(computation'))
       /\ queue' # <<>> => inFlight' = Slots
       /\ \A j \in DOMAIN queue' : \E m \in DOMAIN q : queue'[j] = q[m]
       /\ \A x \in Keys :
            /\ computation'[x].value = t[x].value
            /\ computation'[x].at = t[x].at \/ (t[x].at = "queued" /\ computation'[x].at = "running")
  BY <1>4, <1>5, <1>7, <1>9, <1>10, PumpKeeps
<1>12. S!TypeOK'
  BY <1>11 DEF SpeculationInv, S!TypeOK, S!Speculate
<1>13. S!SlotsAreUsed'
  BY <1>11, SlotsCount
<1>14. S!TasksInv'
  <2>1. \A x \in Keys : computation'[x].at \in {"none", "queued", "running"} <=> computation'[x].value = "pending"
    BY <1>4, <1>11 DEF SpeculationInv, S!SpeculatorInv, S!TasksInv
  <2>2. \A m \in DOMAIN q : q[m] \in staged'
    BY <1>5 DEF SpeculationInv, S!SpeculatorInv, S!TasksInv, S!Speculate
  <2>3. \A n \in DOMAIN queue' : computation'[queue'[n]].at = "queued" /\ queue'[n] \in staged'
    BY <1>11, <2>2 DEF WaitsOnce
  <2>4. \A x \in Keys \ staged' : computation'[x].at = "none"
    <3> TAKE x \in Keys \ staged'
    <3>1. x # k /\ x \notin staged /\ phase = "open"
      BY DEF S!Speculate
    <3>2. computation[x].at = "none"
      BY <3>1 DEF SpeculationInv, S!SpeculatorInv, S!TasksInv
    <3> QED BY <3>1, <3>2, <1>4, <1>11
  <2> QED BY <2>1, <2>3, <2>4, <1>11 DEF S!TasksInv, WaitsOnce
<1>15. \A x \in Keys : computation[x].value = "value" => computation'[x].value = "value"
  BY <1>2, <1>4, <1>11
<1>16. S!ClaimsInv' /\ S!OnlyProvenPromoted'
  BY <1>15 DEF SpeculationInv, S!SpeculatorInv, S!ClaimsInv, S!OnlyProvenPromoted, S!Speculate, S!TypeOK
<1> QED BY <1>12, <1>13, <1>14, <1>16 DEF SpeculationInv, S!SpeculatorInv

LEMMA SlotFreedKeeps ==
  ASSUME S!SpeculatorConstants, SpeculationInv, NEW k \in Keys, S!SlotFreed(k)
  PROVE  SpeculationInv'
<1> DEFINE t == [computation EXCEPT ![k].at = "over"]
<1>1. computation \in [Keys -> S!TaskState] /\ queue \in Seq(Keys)
  BY DEF SpeculationInv, S!TypeOK
<1>2. computation[k].at = "ended" /\ computation[k].value # "pending"
  BY DEF SpeculationInv, S!SpeculatorInv, S!TasksInv, S!SlotFreed
<1>3. t = [computation EXCEPT ![k] = [at |-> "over", value |-> computation[k].value]]
  <2>1. [computation[k] EXCEPT !.at = "over"] = [at |-> "over", value |-> computation[k].value]
    BY <1>1 DEF S!TaskState
  <2>2. t = [computation EXCEPT ![k] = [computation[k] EXCEPT !.at = "over"]]
    BY Zenon
  <2> QED BY <2>1, <2>2, Zenon
<1>4. S!Pump(t, queue, inFlight - 1)
  BY DEF S!SlotFreed
<1> HIDE DEF t
<1>5. /\ t \in [Keys -> S!TaskState]
      /\ t[k] = [at |-> "over", value |-> computation[k].value]
      /\ \A x \in Keys \ {k} : t[x] = computation[x]
  BY <1>1, <1>3 DEF S!TaskState
<1>6. WaitsOnce(t, queue)
  <2>1. \A j \in DOMAIN queue : queue[j] \in Keys \ {k}
    BY <1>1, <1>2 DEF SpeculationInv, S!SpeculatorInv, S!TasksInv
  <2> QED BY <2>1, <1>5, QueueWaits DEF WaitsOnce
<1>7. inFlight - 1 \in 0..Slots /\ inFlight - 1 = Cardinality(Computing(t))
  <2>1. Computing(t) = Computing(computation) \ {k} /\ k \in Computing(computation)
    BY <1>2, <1>5 DEF Computing
  <2>2. IsFiniteSet(Computing(computation))
    BY KeysFinite, FS_Subset DEF Computing
  <2>3. Cardinality(Computing(t)) = inFlight - 1 /\ IsFiniteSet(Computing(t))
    BY <2>1, <2>2, FS_RemoveElement, QueueWaits
  <2>4. Cardinality(Computing(t)) \in Nat
    BY <2>3, FS_CardinalityType
  <2> QED BY <2>3, <2>4, QueueWaits
<1>8. /\ computation' \in [Keys -> S!TaskState] /\ queue' \in Seq(Keys) /\ inFlight' \in 0..Slots
      /\ WaitsOnce(computation', queue')
      /\ inFlight' = Cardinality(Computing(computation'))
      /\ queue' # <<>> => inFlight' = Slots
      /\ \A j \in DOMAIN queue' : \E m \in DOMAIN queue : queue'[j] = queue[m]
      /\ \A x \in Keys :
           /\ computation'[x].value = t[x].value
           /\ computation'[x].at = t[x].at \/ (t[x].at = "queued" /\ computation'[x].at = "running")
  BY <1>1, <1>4, <1>5, <1>6, <1>7, PumpKeeps
<1>9. S!TypeOK'
  BY <1>8 DEF SpeculationInv, S!TypeOK, S!SlotFreed
<1>10. S!SlotsAreUsed'
  BY <1>8, SlotsCount
<1>11. S!TasksInv'
  <2>1. \A x \in Keys : computation'[x].at \in {"none", "queued", "running"} <=> computation'[x].value = "pending"
    BY <1>2, <1>5, <1>8 DEF SpeculationInv, S!SpeculatorInv, S!TasksInv
  <2>2. \A n \in DOMAIN queue' : computation'[queue'[n]].at = "queued" /\ queue'[n] \in staged'
    BY <1>8 DEF WaitsOnce, SpeculationInv, S!SpeculatorInv, S!TasksInv, S!SlotFreed
  <2>3. phase' = "open" => \A x \in Keys \ staged' : computation'[x].at = "none"
    BY <1>2, <1>5, <1>8 DEF SpeculationInv, S!SpeculatorInv, S!TasksInv, S!SlotFreed
  <2> QED BY <2>1, <2>2, <2>3, <1>8 DEF S!TasksInv, WaitsOnce
<1>12. \A x \in Keys : computation[x].value = "value" => computation'[x].value = "value"
  BY <1>5, <1>8
<1>13. S!ClaimsInv' /\ S!OnlyProvenPromoted'
  BY <1>12 DEF SpeculationInv, S!SpeculatorInv, S!ClaimsInv, S!OnlyProvenPromoted, S!SlotFreed, S!TypeOK
<1> QED BY <1>9, <1>10, <1>11, <1>13 DEF SpeculationInv, S!SpeculatorInv

\* Steps that leave the queue and the slots as they are.
LEMMA TaskEndsKeeps ==
  ASSUME S!SpeculatorConstants, SpeculationInv, NEW k \in Keys, S!TaskEnds(k)
  PROVE  SpeculationInv'
<1>1. PICK v \in {"value", "null"} :
        /\ computation' = [computation EXCEPT ![k] = [at |-> "ended", value |-> v]]
        /\ failed' \in {failed, failed \cup {k}}
  BY DEF S!TaskEnds
<1>2. computation \in [Keys -> S!TaskState] /\ computation[k].at = "running" /\ computation[k].value = "pending"
  BY DEF SpeculationInv, S!TypeOK, S!SpeculatorInv, S!TasksInv, S!TaskEnds
<1>3. /\ computation' \in [Keys -> S!TaskState]
      /\ computation'[k] = [at |-> "ended", value |-> v]
      /\ \A x \in Keys \ {k} : computation'[x] = computation[x]
  BY <1>1, <1>2 DEF S!TaskState
<1>4. S!TypeOK'
  BY <1>1, <1>3 DEF SpeculationInv, S!TypeOK, S!TaskEnds
<1>5. S!Busy' = S!Busy
  BY <1>2, <1>3 DEF S!Busy
<1>6. S!SlotsAreUsed'
  BY <1>5 DEF SpeculationInv, S!SpeculatorInv, S!SlotsAreUsed, S!TaskEnds
<1>7. S!TasksInv'
  <2>1. \A j \in DOMAIN queue : queue[j] \in Keys \ {k}
    BY <1>2 DEF SpeculationInv, S!TypeOK, S!SpeculatorInv, S!TasksInv
  <2> QED BY <1>2, <1>3, <2>1 DEF SpeculationInv, S!SpeculatorInv, S!TasksInv, S!TaskEnds
<1>8. S!ClaimsInv' /\ S!OnlyProvenPromoted'
  BY <1>2, <1>3 DEF SpeculationInv, S!TypeOK, S!SpeculatorInv, S!ClaimsInv, S!OnlyProvenPromoted, S!TaskEnds
<1> QED BY <1>4, <1>6, <1>7, <1>8 DEF SpeculationInv, S!SpeculatorInv

LEMMA ClaimKeeps ==
  ASSUME S!SpeculatorConstants, SpeculationInv, NEW c \in Claims, S!Claim(c)
  PROVE  SpeculationInv'
<1>1. /\ claim \in [Claims -> [at : {"idle", "absent", "waiting", "miss", "hit"}, key : Keys]]
      /\ queue \in Seq(Keys) /\ claim[c].at = "idle"
  BY DEF SpeculationInv, S!TypeOK, S!Claim
<1>2. PICK a \in {"waiting", "absent"} : claim' = [claim EXCEPT ![c].at = a]
  BY DEF S!Claim
<1>3. /\ claim' \in [Claims -> [at : {"idle", "absent", "waiting", "miss", "hit"}, key : Keys]]
      /\ \A d \in Claims : claim[d].at = "hit" => claim'[d] = claim[d]
  BY <1>1, <1>2
<1>4. /\ queue' \in Seq(Keys) /\ Len(queue') = Len(queue)
      /\ \A j \in DOMAIN queue' : \E m \in DOMAIN queue : queue'[j] = queue[m]
      /\ \A m, j \in DOMAIN queue' : queue'[m] = queue'[j] => m = j
  <2>1. \A m, j \in DOMAIN queue : queue[m] = queue[j] => m = j
    BY DEF SpeculationInv, S!SpeculatorInv, S!TasksInv
  <2>2. CASE UNCHANGED queue
    BY <1>1, <2>1, <2>2
  <2>3. CASE \E n \in DOMAIN queue : queue[n] = claim[c].key /\ queue' = S!ToFront(queue, n)
    <3>1. PICK n \in DOMAIN queue : queue' = S!ToFront(queue, n)
      BY <2>3
    <3>2. /\ S!ToFront(queue, n) \in Seq(Keys)
          /\ Len(S!ToFront(queue, n)) = Len(queue)
          /\ \A j \in DOMAIN S!ToFront(queue, n) : \E m \in DOMAIN queue : S!ToFront(queue, n)[j] = queue[m]
          /\ \A m, j \in DOMAIN S!ToFront(queue, n) :
               S!ToFront(queue, n)[m] = S!ToFront(queue, n)[j] => m = j
      BY <1>1, <2>1, ToFrontKeeps
    <3> QED BY <3>1, <3>2, Zenon
  <2> QED BY <2>2, <2>3 DEF S!Claim
<1>5. S!TypeOK'
  BY <1>3, <1>4 DEF SpeculationInv, S!TypeOK, S!Claim
<1>6. S!SlotsAreUsed'
  <2>1. queue' # <<>> => queue # <<>>
    BY <1>1, <1>4
  <2> QED BY <2>1 DEF SpeculationInv, S!SpeculatorInv, S!SlotsAreUsed, S!Busy, S!Claim
<1>7. S!TasksInv'
  BY <1>4 DEF SpeculationInv, S!SpeculatorInv, S!TasksInv, S!Claim
<1>8. \A k \in Keys : (\E d \in Claims : claim[d] = [at |-> "hit", key |-> k])
                        => \E d \in Claims : claim'[d] = [at |-> "hit", key |-> k]
  BY <1>3
<1>9. S!ClaimsInv' /\ S!OnlyProvenPromoted'
  BY <1>8 DEF SpeculationInv, S!TypeOK, S!SpeculatorInv, S!ClaimsInv, S!OnlyProvenPromoted, S!Claim
<1> QED BY <1>5, <1>6, <1>7, <1>9 DEF SpeculationInv, S!SpeculatorInv

LEMMA ClaimReturnsKeeps ==
  ASSUME S!SpeculatorConstants, SpeculationInv, NEW c \in Claims, S!ClaimReturns(c)
  PROVE  SpeculationInv'
<1> DEFINE k == claim[c].key
<1>1. /\ claim \in [Claims -> [at : {"idle", "absent", "waiting", "miss", "hit"}, key : Keys]]
      /\ claim[c].at = "waiting" /\ k \in Keys /\ computation[k].value \in {"value", "null"}
  BY DEF SpeculationInv, S!TypeOK, S!TaskState, S!ClaimReturns
<1>2. PICK a \in {"miss", "hit"} :
        /\ claim' = [claim EXCEPT ![c].at = a]
        /\ a = "hit" => computation[k].value = "value" /\ claimed' = claimed \cup {k}
        /\ a = "miss" => claimed' = claimed
  BY <1>1 DEF S!ClaimReturns
<1>3. /\ claim' \in [Claims -> [at : {"idle", "absent", "waiting", "miss", "hit"}, key : Keys]]
      /\ \A d \in Claims : claim[d].at = "hit" => claim'[d] = claim[d]
      /\ a = "hit" => claim'[c] = [at |-> "hit", key |-> k]
  BY <1>1, <1>2
<1>4. \A x \in Keys : (\E d \in Claims : claim[d] = [at |-> "hit", key |-> x])
                        => \E d \in Claims : claim'[d] = [at |-> "hit", key |-> x]
  BY <1>3
<1>5. S!TypeOK'
  BY <1>1, <1>2, <1>3 DEF SpeculationInv, S!TypeOK, S!ClaimReturns, S!tasks
<1>6. S!SlotsAreUsed' /\ S!TasksInv'
  BY DEF SpeculationInv, S!SpeculatorInv, S!SlotsAreUsed, S!Busy, S!TasksInv, S!ClaimReturns, S!tasks
<1>7. S!ClaimsInv'
  <2>1. ASSUME NEW x \in claimed'
        PROVE  computation[x].value = "value" /\ \E d \in Claims : claim'[d] = [at |-> "hit", key |-> x]
    <3>1. CASE x \in claimed
      BY <3>1, <1>4 DEF SpeculationInv, S!TypeOK, S!SpeculatorInv, S!ClaimsInv
    <3>2. CASE x \notin claimed
      BY <3>2, <2>1, <1>2, <1>3
    <3> QED BY <3>1, <3>2
  <2> QED BY <2>1 DEF SpeculationInv, S!SpeculatorInv, S!ClaimsInv, S!ClaimReturns, S!tasks
<1>8. S!OnlyProvenPromoted'
  BY <1>4 DEF SpeculationInv, S!TypeOK, S!SpeculatorInv, S!OnlyProvenPromoted, S!ClaimReturns, S!tasks
<1> QED BY <1>5, <1>6, <1>7, <1>8 DEF SpeculationInv, S!SpeculatorInv

\* The run commits what is claimed and still good.
LEMMA CommitKeyKeeps ==
  ASSUME S!SpeculatorConstants, SpeculationInv, NEW k \in Keys, S!CommitKey(k)
  PROVE  SpeculationInv'
<1>1. computation[k].value = "value" /\ \E c \in Claims : claim[c] = [at |-> "hit", key |-> k]
  BY DEF SpeculationInv, S!SpeculatorInv, S!ClaimsInv, S!CommitKey
<1>2. S!TypeOK'
  BY DEF SpeculationInv, S!TypeOK, S!CommitKey, S!tasks
<1>3. S!SlotsAreUsed' /\ S!TasksInv' /\ S!ClaimsInv'
  BY DEF SpeculationInv, S!SpeculatorInv, S!SlotsAreUsed, S!Busy, S!TasksInv, S!ClaimsInv, S!CommitKey, S!tasks
<1>4. S!OnlyProvenPromoted'
  BY <1>1 DEF SpeculationInv, S!TypeOK, S!SpeculatorInv, S!OnlyProvenPromoted, S!CommitKey, S!tasks
<1> QED BY <1>2, <1>3, <1>4 DEF SpeculationInv, S!SpeculatorInv

\* Settling empties the queue, and resolves what waited there.
LEMMA SettleKeeps ==
  ASSUME S!SpeculatorConstants, SpeculationInv, S!Settle, UNCHANGED <<inFlight, claim, cache, visited>>,
         phase' \in {"committed", "rolledBack"}, phase' = "rolledBack" => cache = {}
  PROVE  SpeculationInv'
<1>1. computation \in [Keys -> S!TaskState] /\ queue \in Seq(Keys)
  BY DEF SpeculationInv, S!TypeOK
<1>2. \A k \in Keys : S!Contains(queue, k) <=> \E j \in DOMAIN queue : queue[j] = k
  BY <1>1 DEF S!Contains
<1>3. /\ computation' \in [Keys -> S!TaskState]
      /\ \A k \in Keys : /\ S!Contains(queue, k) => computation'[k] = [at |-> "over", value |-> "null"]
                         /\ ~S!Contains(queue, k) => computation'[k] = computation[k]
  BY <1>1 DEF S!Settle, S!TaskState
<1>4. \A k \in Keys : S!Contains(queue, k) => computation[k].at = "queued" /\ computation[k].value = "pending"
  BY <1>2 DEF SpeculationInv, S!SpeculatorInv, S!TasksInv
<1>5. queue' = <<>> /\ queue' \in Seq(Keys) /\ DOMAIN queue' = {}
  BY DEF S!Settle
<1>6. S!TypeOK'
  BY <1>3, <1>5 DEF SpeculationInv, S!TypeOK, S!Settle
<1>7. S!Busy' = S!Busy
  BY <1>3, <1>4 DEF S!Busy
<1>8. S!SlotsAreUsed'
  BY <1>5, <1>7 DEF SpeculationInv, S!SpeculatorInv, S!SlotsAreUsed
<1>9. S!TasksInv'
  BY <1>3, <1>5 DEF SpeculationInv, S!SpeculatorInv, S!TasksInv
<1>10. S!ClaimsInv' /\ S!OnlyProvenPromoted'
  BY <1>3, <1>4 DEF SpeculationInv, S!TypeOK, S!SpeculatorInv, S!ClaimsInv, S!OnlyProvenPromoted, S!Settle
<1> QED BY <1>6, <1>8, <1>9, <1>10 DEF SpeculationInv, S!SpeculatorInv

----------------------------------------------------------------------------

LEMMA SpeculationStarts == S!SpeculatorConstants /\ S!Init => SpeculationInv
<1> SUFFICES ASSUME S!SpeculatorConstants, S!Init PROVE SpeculationInv
  OBVIOUS
<1>1. computation \in [Keys -> S!TaskState] /\ \A k \in Keys : computation[k] = [at |-> "none", value |-> "pending"]
  BY DEF S!Init, S!TaskState
<1>2. <<>> \in Seq(Keys) /\ DOMAIN <<>> = {}
  OBVIOUS
<1>3. S!TypeOK
  BY <1>1, <1>2 DEF S!Init, S!TypeOK
<1>4. Computing(computation) = {} /\ Cardinality({}) = 0
  BY <1>1, FS_EmptySet DEF Computing
<1>5. S!SlotsAreUsed
  <2>1. inFlight = 0 /\ queue = <<>>
    BY DEF S!Init
  <2> QED BY <1>4, <2>1, SlotsCount, KeysFinite
<1> QED BY <1>1, <1>2, <1>3, <1>5 DEF S!Init, SpeculationInv, S!SpeculatorInv, S!TasksInv, S!ClaimsInv, S!OnlyProvenPromoted

LEMMA SpeculationStep ==
  S!SpeculatorConstants /\ SpeculationInv /\ [S!Next]_(S!vars) => SpeculationInv'
<1> SUFFICES ASSUME S!SpeculatorConstants, SpeculationInv, [S!Next]_(S!vars) PROVE SpeculationInv'
  OBVIOUS
<1>1. ASSUME NEW k \in Keys, S!TaskEnds(k) PROVE SpeculationInv'
  BY <1>1, TaskEndsKeeps
<1>2. ASSUME NEW k \in Keys, S!SlotFreed(k) PROVE SpeculationInv'
  BY <1>2, SlotFreedKeeps
<1>3. ASSUME NEW k \in Keys, S!CommitKey(k) PROVE SpeculationInv'
  BY <1>3, CommitKeyKeeps
<1>4. ASSUME NEW c \in Claims, S!ClaimReturns(c) PROVE SpeculationInv'
  BY <1>4, ClaimReturnsKeeps
<1>5. ASSUME NEW k \in Keys, S!Speculate(k) PROVE SpeculationInv'
  BY <1>5, SpeculateKeeps
<1>6. ASSUME NEW c \in Claims, S!Claim(c) PROVE SpeculationInv'
  BY <1>6, ClaimKeeps
<1>7. CASE S!CommitEnds
  BY <1>7, SettleKeeps DEF S!CommitEnds
<1>8. CASE S!Rollback
  BY <1>8, SettleKeeps DEF S!Rollback, SpeculationInv, S!SpeculatorInv, S!ClaimsInv
<1>9. CASE S!Commit
  <2>1. S!TypeOK'
    BY <1>9 DEF SpeculationInv, S!TypeOK, S!Commit, S!tasks
  <2>2. S!SpeculatorInv'
    BY <1>9 DEF SpeculationInv, S!SpeculatorInv, S!SlotsAreUsed, S!Busy, S!TasksInv, S!ClaimsInv, S!OnlyProvenPromoted, S!Commit, S!tasks
  <2> QED BY <2>1, <2>2 DEF SpeculationInv
<1>11. ASSUME NEW k \in Keys, S!CommitThrows(k) PROVE SpeculationInv'
  <2>1. S!TypeOK'
    BY <1>11 DEF SpeculationInv, S!TypeOK, S!CommitThrows, S!tasks
  <2>2. S!SpeculatorInv'
    BY <1>11 DEF SpeculationInv, S!SpeculatorInv, S!SlotsAreUsed, S!Busy, S!TasksInv, S!ClaimsInv, S!OnlyProvenPromoted, S!CommitThrows, S!tasks
  <2> QED BY <2>1, <2>2 DEF SpeculationInv
<1>10. CASE UNCHANGED S!vars
  <2>1. S!TypeOK'
    BY <1>10 DEF SpeculationInv, S!TypeOK, S!vars, S!tasks
  <2>2. S!SpeculatorInv'
    BY <1>10 DEF SpeculationInv, S!SpeculatorInv, S!SlotsAreUsed, S!Busy, S!TasksInv, S!ClaimsInv, S!OnlyProvenPromoted, S!vars, S!tasks
  <2> QED BY <2>1, <2>2 DEF SpeculationInv
<1> QED BY <1>1, <1>2, <1>3, <1>4, <1>5, <1>6, <1>7, <1>8, <1>9, <1>10, <1>11 DEF S!Next, S!Step

LEMMA SpeculationHolds == S!SpeculatorConstants => (S!Spec => []SpeculationInv)
<1> SUFFICES ASSUME S!SpeculatorConstants PROVE S!Spec => []SpeculationInv
  OBVIOUS
<1>1. S!Init => SpeculationInv
  BY SpeculationStarts
<1>2. SpeculationInv /\ [S!Next]_(S!vars) => SpeculationInv'
  BY SpeculationStep
<1> QED BY <1>1, <1>2, PTL DEF S!Spec

----------------------------------------------------------------------------

\* Every reachable state of a speculator is well typed: in particular it never
\* runs more tasks than maxConcurrent.
THEOREM SpeculatorTyped == S!SpeculatorConstants => (S!Spec => []S!TypeOK)
<1>1. SpeculationInv => S!TypeOK
  BY DEF SpeculationInv
<1> QED BY <1>1, SpeculationHolds, PTL

\* The strengthening the two theorems below need: tasks move one way, wait in
\* the queue once, and what is claimed is computed and was asked for.
THEOREM SpeculatorInvariant == S!SpeculatorConstants => (S!Spec => []S!SpeculatorInv)
<1>1. SpeculationInv => S!SpeculatorInv
  BY DEF SpeculationInv
<1> QED BY <1>1, SpeculationHolds, PTL

\* pump and `finally` neither lose a slot nor give one back twice, and no slot
\* is free while a task waits.
THEOREM SlotsAreAlwaysUsed == S!SpeculatorConstants => (S!Spec => []S!SlotsAreUsed)
<1>1. S!SpeculatorInv => S!SlotsAreUsed
  BY DEF S!SpeculatorInv
<1> QED BY <1>1, SpeculatorInvariant, PTL

\* commit promotes only what a stage claimed and got, and rollback nothing.
THEOREM OnlyProvenIsPromoted == S!SpeculatorConstants => (S!Spec => []S!OnlyProvenPromoted)
<1>1. S!SpeculatorInv => S!OnlyProvenPromoted
  BY DEF S!SpeculatorInv
<1> QED BY <1>1, SpeculatorInvariant, PTL

----------------------------------------------------------------------------
(* What is asked for is honoured.                                           *)

\* Somebody waits for a key.
Wanted(k, calls) == \E c \in Claims : calls[c].at = "waiting" /\ calls[c].key = k

\* A failure has no value, what commit has visited is in the cache, and until a
\* run is settled what is waited for is staged, and what was got is claimed.
HonourInv ==
  /\ \A k \in failed : computation[k].value = "null"
  /\ visited \subseteq cache
  /\ phase \in {"open", "committing"} =>
       /\ \A c \in Claims : /\ claim[c].at = "waiting" => claim[c].key \in staged
                            /\ claim[c].at = "hit" => claim[c].key \in claimed
       /\ claimed \subseteq staged

\* pump only starts what waits.
LEMMA PumpMoves ==
  ASSUME S!SpeculatorConstants, NEW t \in [Keys -> S!TaskState], NEW q \in Seq(Keys), NEW n \in 0..Slots,
         S!Pump(t, q, n), WaitsOnce(t, q)
  PROVE  /\ \A k \in Keys : /\ computation'[k].value = t[k].value
                            /\ computation'[k].at = t[k].at \/ (t[k].at = "queued" /\ computation'[k].at = "running")
         /\ \E s \in 0..Len(q) : \A j \in DOMAIN queue' : j + s \in DOMAIN q /\ queue'[j] = q[j + s]
<1>1. PICK s \in 0..Len(q) :
           /\ \A j \in DOMAIN queue' : j + s \in DOMAIN q /\ queue'[j] = q[j + s]
           /\ \A k \in Keys :
                /\ computation'[k].value = t[k].value
                /\ (\E m \in 1..s : q[m] = k) => computation'[k].at = "running"
                /\ ~(\E m \in 1..s : q[m] = k) => computation'[k].at = t[k].at
  BY PumpStarts
<1>2. \A m \in 1..s : t[q[m]].at = "queued"
  BY DEF WaitsOnce
<1> QED BY <1>1, <1>2

\* What speculate hands to pump.
LEMMA Speculated ==
  ASSUME S!SpeculatorConstants, SpeculationInv, NEW k \in Keys, S!Speculate(k)
  PROVE  \E t \in [Keys -> S!TaskState] :
           /\ WaitsOnce(t, Append(queue, k)) /\ S!Pump(t, Append(queue, k), inFlight)
           /\ computation[k].at = "none" /\ \A x \in Keys \ {k} : t[x] = computation[x]
           /\ t[k] = [at |-> "queued", value |-> "pending"] /\ computation[k].value = "pending"
<1> DEFINE t == [computation EXCEPT ![k].at = "queued"]
           q == Append(queue, k)
<1>1. computation \in [Keys -> S!TaskState] /\ queue \in Seq(Keys)
  BY DEF SpeculationInv, S!TypeOK
<1>2. computation[k].at = "none" /\ computation[k].value = "pending"
  BY DEF SpeculationInv, S!SpeculatorInv, S!TasksInv, S!Speculate
<1>3. t = [computation EXCEPT ![k] = [at |-> "queued", value |-> "pending"]]
  <2>1. [computation[k] EXCEPT !.at = "queued"] = [at |-> "queued", value |-> "pending"]
    BY <1>1, <1>2 DEF S!TaskState
  <2>2. t = [computation EXCEPT ![k] = [computation[k] EXCEPT !.at = "queued"]]
    BY Zenon
  <2> QED BY <2>1, <2>2, Zenon
<1>4. S!Pump(t, q, inFlight)
  BY DEF S!Speculate
<1> HIDE DEF t
<1>5. /\ t \in [Keys -> S!TaskState]
      /\ t[k] = [at |-> "queued", value |-> "pending"]
      /\ \A x \in Keys \ {k} : t[x] = computation[x]
  BY <1>1, <1>3 DEF S!TaskState
<1>6. /\ q \in Seq(Keys) /\ Len(q) = Len(queue) + 1 /\ q[Len(queue) + 1] = k
      /\ \A j \in DOMAIN queue : q[j] = queue[j]
      /\ DOMAIN q = DOMAIN queue \cup {Len(queue) + 1}
  BY <1>1
<1>7. \A j \in DOMAIN queue : queue[j] \in Keys \ {k}
  BY <1>1, <1>2 DEF SpeculationInv, S!SpeculatorInv, S!TasksInv
<1> HIDE DEF q
<1>8. WaitsOnce(t, q)
  <2>1. \A j \in DOMAIN q : t[q[j]].at = "queued"
    BY <1>5, <1>6, <1>7, QueueWaits DEF WaitsOnce
  <2>2. \A m, j \in DOMAIN q : q[m] = q[j] => m = j
    BY <1>6, <1>7, QueueWaits DEF WaitsOnce
  <2> QED BY <2>1, <2>2 DEF WaitsOnce
<1> QED BY <1>2, <1>4, <1>5, <1>8 DEF q

\* And what `finally` does.
LEMMA Freed ==
  ASSUME S!SpeculatorConstants, SpeculationInv, NEW k \in Keys, S!SlotFreed(k)
  PROVE  \E t \in [Keys -> S!TaskState] :
           /\ WaitsOnce(t, queue) /\ S!Pump(t, queue, inFlight - 1) /\ inFlight - 1 \in 0..Slots
           /\ computation[k].at = "ended" /\ \A x \in Keys \ {k} : t[x] = computation[x]
           /\ t[k] = [at |-> "over", value |-> computation[k].value]
<1> DEFINE t == [computation EXCEPT ![k].at = "over"]
<1>1. computation \in [Keys -> S!TaskState] /\ queue \in Seq(Keys) /\ computation[k].at = "ended"
  BY DEF SpeculationInv, S!TypeOK, S!SlotFreed
<1>2. t = [computation EXCEPT ![k] = [at |-> "over", value |-> computation[k].value]]
  <2>1. [computation[k] EXCEPT !.at = "over"] = [at |-> "over", value |-> computation[k].value]
    BY <1>1 DEF S!TaskState
  <2>2. t = [computation EXCEPT ![k] = [computation[k] EXCEPT !.at = "over"]]
    BY Zenon
  <2> QED BY <2>1, <2>2, Zenon
<1>3. S!Pump(t, queue, inFlight - 1)
  BY DEF S!SlotFreed
<1> HIDE DEF t
<1>4. /\ t \in [Keys -> S!TaskState]
      /\ t[k] = [at |-> "over", value |-> computation[k].value]
      /\ \A x \in Keys \ {k} : t[x] = computation[x]
  BY <1>1, <1>2 DEF S!TaskState
<1>5. WaitsOnce(t, queue)
  <2>1. \A j \in DOMAIN queue : queue[j] \in Keys \ {k}
    BY <1>1 DEF SpeculationInv, S!SpeculatorInv, S!TasksInv
  <2> QED BY <2>1, <1>4, QueueWaits DEF WaitsOnce
<1>6. inFlight - 1 \in 0..Slots
  <2>1. IsFiniteSet(Computing(computation)) /\ k \in Computing(computation)
    BY <1>1, KeysFinite, FS_Subset DEF Computing
  <2>2. Cardinality(Computing(computation)) # 0
    BY <2>1, FS_EmptySet
  <2> QED BY <2>2, QueueWaits, KeysFinite
<1> QED BY <1>1, <1>3, <1>4, <1>5, <1>6

\* A task moves one way: no step starts again what was started.
LEMMA StartedOnceOnly ==
  ASSUME S!SpeculatorConstants, SpeculationInv, [S!Next]_(S!vars), NEW x \in Keys,
         computation[x].at \in {"running", "ended", "over"}
  PROVE  /\ computation'[x].at \notin {"none", "queued"}
         /\ computation[x].at # "running" => computation'[x].at # "running"
<1>1. computation \in [Keys -> S!TaskState] /\ queue \in Seq(Keys)
  BY DEF SpeculationInv, S!TypeOK
<1>2. ASSUME NEW k \in Keys, S!Speculate(k)
      PROVE  computation'[x].at = computation[x].at
  <2>1. PICK t \in [Keys -> S!TaskState] :
           /\ WaitsOnce(t, Append(queue, k)) /\ S!Pump(t, Append(queue, k), inFlight)
           /\ computation[k].at = "none" /\ \A y \in Keys \ {k} : t[y] = computation[y]
    BY <1>2, Speculated
  <2>2. Append(queue, k) \in Seq(Keys) /\ inFlight \in 0..Slots
    BY <1>1 DEF SpeculationInv, S!TypeOK
  <2>3. computation'[x].at = t[x].at \/ (t[x].at = "queued" /\ computation'[x].at = "running")
    BY <2>1, <2>2, PumpMoves
  <2> QED BY <2>1, <2>3
<1>3. ASSUME NEW k \in Keys, S!SlotFreed(k)
      PROVE  \/ computation'[x].at = computation[x].at
             \/ computation[x].at = "ended" /\ computation'[x].at = "over"
  <2>1. PICK t \in [Keys -> S!TaskState] :
           /\ WaitsOnce(t, queue) /\ S!Pump(t, queue, inFlight - 1) /\ inFlight - 1 \in 0..Slots
           /\ computation[k].at = "ended" /\ \A y \in Keys \ {k} : t[y] = computation[y]
           /\ t[k] = [at |-> "over", value |-> computation[k].value]
    BY <1>3, Freed
  <2>2. computation'[x].at = t[x].at \/ (t[x].at = "queued" /\ computation'[x].at = "running")
    BY <1>1, <2>1, PumpMoves
  <2> QED BY <2>1, <2>2
<1>4. ASSUME NEW k \in Keys, S!TaskEnds(k)
      PROVE  \/ computation'[x].at = computation[x].at
             \/ computation[x].at = "running" /\ computation'[x].at = "ended"
  BY <1>1, <1>4 DEF S!TaskEnds
<1>5. ASSUME S!Settle PROVE computation'[x] = computation[x]
  <2>1. ~S!Contains(queue, x)
    BY <1>1 DEF S!Contains, SpeculationInv, S!SpeculatorInv, S!TasksInv
  <2> QED BY <1>5, <2>1 DEF S!Settle
<1>6. ASSUME UNCHANGED computation
      PROVE  computation'[x].at = computation[x].at
  BY <1>6
<1>7. \/ UNCHANGED computation \/ S!Settle
      \/ \E k \in Keys : S!Speculate(k) \/ S!SlotFreed(k) \/ S!TaskEnds(k)
  BY DEF S!Next, S!Step, S!vars, S!tasks, S!Commit, S!CommitKey, S!CommitThrows, S!CommitEnds, S!Rollback, S!Claim, S!ClaimReturns
<1> QED BY <1>2, <1>3, <1>4, <1>5, <1>6, <1>7

LEMMA HonourStarts == S!Init => HonourInv
  BY DEF S!Init, HonourInv

LEMMA ValuesStay ==
  ASSUME S!SpeculatorConstants, SpeculationInv, [S!Next]_(S!vars), NEW x \in Keys, computation[x].value = "null"
  PROVE  computation'[x].value = "null"
<1>1. computation \in [Keys -> S!TaskState] /\ queue \in Seq(Keys) /\ computation[x].at \notin {"none", "queued", "running"}
  BY DEF SpeculationInv, S!TypeOK, S!SpeculatorInv, S!TasksInv
<1>2. ASSUME NEW k \in Keys, S!Speculate(k)
      PROVE  computation'[x].value = "null"
  <2>1. PICK t \in [Keys -> S!TaskState] :
           /\ WaitsOnce(t, Append(queue, k)) /\ S!Pump(t, Append(queue, k), inFlight)
           /\ computation[k].at = "none" /\ \A y \in Keys \ {k} : t[y] = computation[y]
    BY <1>2, Speculated
  <2>2. Append(queue, k) \in Seq(Keys) /\ inFlight \in 0..Slots
    BY <1>1 DEF SpeculationInv, S!TypeOK
  <2>3. computation'[x].value = t[x].value
    BY <2>1, <2>2, PumpMoves
  <2> QED BY <1>1, <2>1, <2>3
<1>3. ASSUME NEW k \in Keys, S!SlotFreed(k)
      PROVE  computation'[x].value = "null"
  <2>1. PICK t \in [Keys -> S!TaskState] :
           /\ WaitsOnce(t, queue) /\ S!Pump(t, queue, inFlight - 1) /\ inFlight - 1 \in 0..Slots
           /\ computation[k].at = "ended" /\ \A y \in Keys \ {k} : t[y] = computation[y]
           /\ t[k] = [at |-> "over", value |-> computation[k].value]
    BY <1>3, Freed
  <2>2. computation'[x].value = t[x].value
    BY <1>1, <2>1, PumpMoves
  <2> QED BY <2>1, <2>2
<1>4. ASSUME NEW k \in Keys, S!TaskEnds(k)
      PROVE  computation'[x].value = "null"
  BY <1>1, <1>4 DEF S!TaskEnds
<1>5. ASSUME S!Settle PROVE computation'[x].value = "null"
  BY <1>5 DEF S!Settle
<1>6. \/ UNCHANGED computation \/ S!Settle
      \/ \E k \in Keys : S!Speculate(k) \/ S!SlotFreed(k) \/ S!TaskEnds(k)
  BY DEF S!Next, S!Step, S!vars, S!tasks, S!Commit, S!CommitKey, S!CommitThrows, S!CommitEnds, S!Rollback, S!Claim, S!ClaimReturns
<1> QED BY <1>2, <1>3, <1>4, <1>5, <1>6

LEMMA HonourStep ==
  ASSUME S!SpeculatorConstants, SpeculationInv, HonourInv, [S!Next]_(S!vars)
  PROVE  HonourInv'
<1>1. /\ claim \in [Claims -> [at : {"idle", "absent", "waiting", "miss", "hit"}, key : Keys]]
      /\ computation \in [Keys -> S!TaskState] /\ failed \subseteq Keys
      /\ phase \in {"open", "committing", "committed", "rejected", "rolledBack"}
  BY DEF SpeculationInv, S!TypeOK
<1>2. \A k \in failed : computation'[k].value = "null"
  BY <1>1, ValuesStay DEF HonourInv
<1>3. CASE /\ UNCHANGED <<failed, claimed, claim, cache, visited>> /\ staged \subseteq staged'
           /\ phase' \in {"open", "committing"} => phase \in {"open", "committing"}
  BY <1>2, <1>3 DEF HonourInv
<1>4. ASSUME NEW k \in Keys, S!TaskEnds(k) PROVE HonourInv'
  <2>1. \A x \in failed' : computation'[x].value = "null"
    BY <1>1, <1>2, <1>4 DEF S!TaskEnds
  <2> QED BY <1>4, <2>1 DEF HonourInv, S!TaskEnds
<1>5. ASSUME NEW k \in Keys, S!CommitKey(k) PROVE HonourInv'
  <2>1. k \in staged /\ computation[k].value = "value" /\ k \notin failed
    BY <1>5 DEF S!CommitKey, HonourInv, SpeculationInv, S!SpeculatorInv, S!ClaimsInv
  <2>2. visited' \subseteq cache'
    BY <1>5, <2>1 DEF S!CommitKey, HonourInv
  <2> QED BY <1>2, <1>5, <2>2 DEF S!CommitKey, HonourInv, S!tasks
<1>6. ASSUME NEW c \in Claims, S!Claim(c) PROVE HonourInv'
  <2>1. \A d \in Claims : claim'[d] = claim[d] \/ (claim'[d].key = claim[d].key /\ claim'[d].at = IF claim[d].key \in staged THEN "waiting" ELSE "absent")
    BY <1>1, <1>6 DEF S!Claim
  <2> QED BY <1>2, <1>6, <2>1 DEF S!Claim, HonourInv
<1>7. ASSUME NEW c \in Claims, S!ClaimReturns(c) PROVE HonourInv'
  <2>1. PICK a \in {"miss", "hit"} :
          /\ claim' = [claim EXCEPT ![c].at = a] /\ claim[c].at = "waiting"
          /\ claimed' = IF a = "hit" THEN claimed \cup {claim[c].key} ELSE claimed
    BY <1>7 DEF S!ClaimReturns
  <2>2. /\ claim'[c].key = claim[c].key /\ claim'[c].at = a
        /\ \A d \in Claims \ {c} : claim'[d] = claim[d]
    BY <1>1, <2>1
  <2>3. UNCHANGED <<staged, computation, failed, cache, visited, phase>>
    BY <1>7 DEF S!ClaimReturns, S!tasks
  <2>4. ASSUME phase \in {"open", "committing"}
        PROVE  /\ \A d \in Claims : /\ claim'[d].at = "waiting" => claim'[d].key \in staged
                                    /\ claim'[d].at = "hit" => claim'[d].key \in claimed'
               /\ claimed' \subseteq staged
    BY <2>1, <2>2, <2>4 DEF HonourInv
  <2> QED BY <1>2, <2>3, <2>4 DEF HonourInv
<1>8. ASSUME S!Settle, UNCHANGED <<cache, visited>>, phase' \in {"committed", "rolledBack"} PROVE HonourInv'
  BY <1>8 DEF S!Settle, HonourInv
<1>9. ASSUME NEW k \in Keys, S!SlotFreed(k) \/ S!Speculate(k) \/ S!CommitThrows(k) PROVE HonourInv'
  BY <1>3, <1>9 DEF S!SlotFreed, S!Speculate, S!CommitThrows
<1>10. CASE S!Commit
  BY <1>3, <1>10 DEF S!Commit
<1>11. CASE UNCHANGED S!vars
  BY <1>3, <1>11 DEF S!vars
<1>12. CASE S!CommitEnds
  BY <1>8, <1>12 DEF S!CommitEnds
<1>13. CASE S!Rollback
  BY <1>8, <1>13 DEF S!Rollback
<1> QED BY <1>4, <1>5, <1>6, <1>7, <1>9, <1>10, <1>11, <1>12, <1>13 DEF S!Next, S!Step

\* Who asked is ahead of who guessed, as a queue and a list of claims.
Ahead(q, calls) == \A m, j \in DOMAIN q : Wanted(q[j], calls) /\ m < j => Wanted(q[m], calls)

LEMMA ProvenAhead == S!ProvenFirst <=> Ahead(queue, claim)
  BY DEF S!ProvenFirst, Ahead, Wanted

LEMMA AheadStep ==
  ASSUME S!SpeculatorConstants, SpeculationInv, HonourInv, Ahead(queue, claim), [S!Next]_(S!vars)
  PROVE  Ahead(queue', claim')
<1>1. /\ claim \in [Claims -> [at : {"idle", "absent", "waiting", "miss", "hit"}, key : Keys]]
      /\ computation \in [Keys -> S!TaskState] /\ queue \in Seq(Keys)
  BY DEF SpeculationInv, S!TypeOK
<1>2. ASSUME UNCHANGED <<queue, claim>> PROVE Ahead(queue', claim')
  BY <1>2
<1>3. ASSUME S!Settle PROVE Ahead(queue', claim')
  BY <1>3 DEF S!Settle, Ahead
<1>4. ASSUME NEW s \in Nat, NEW q, Ahead(q, claim), UNCHANGED claim, queue' \in Seq(Keys),
             \A j \in DOMAIN queue' : j + s \in DOMAIN q /\ queue'[j] = q[j + s]
      PROVE  Ahead(queue', claim')
  <2> SUFFICES ASSUME NEW m \in DOMAIN queue', NEW j \in DOMAIN queue', Wanted(queue'[j], claim), m < j
               PROVE  Wanted(queue'[m], claim)
    BY <1>4 DEF Ahead
  <2>1. m \in Nat /\ j \in Nat /\ m + s < j + s
    BY <1>4
  <2> QED BY <1>4, <2>1 DEF Ahead
<1>5. ASSUME NEW k \in Keys, S!Speculate(k) PROVE Ahead(queue', claim')
  <2>1. PICK t \in [Keys -> S!TaskState] : WaitsOnce(t, Append(queue, k)) /\ S!Pump(t, Append(queue, k), inFlight)
    BY <1>5, Speculated
  <2>2. Append(queue, k) \in Seq(Keys) /\ inFlight \in 0..Slots
    BY <1>1 DEF SpeculationInv, S!TypeOK
  <2>3. PICK s \in 0..Len(Append(queue, k)) : \A j \in DOMAIN queue' : j + s \in DOMAIN Append(queue, k) /\ queue'[j] = Append(queue, k)[j + s]
    BY <2>1, <2>2, PumpMoves
  <2>4. ~Wanted(k, claim)
    BY <1>5 DEF S!Speculate, HonourInv, Wanted
  <2>5. Ahead(Append(queue, k), claim)
    <3>1. \A j \in DOMAIN Append(queue, k) : \/ j \in DOMAIN queue /\ Append(queue, k)[j] = queue[j]
                                             \/ j = Len(queue) + 1 /\ Append(queue, k)[j] = k
      BY <1>1
    <3>2. \A m, j \in DOMAIN Append(queue, k) : j \in DOMAIN queue /\ m < j => m \in DOMAIN queue
      BY <1>1
    <3> QED BY <2>4, <3>1, <3>2 DEF Ahead
  <2>6. queue' \in Seq(Keys) /\ s \in Nat /\ UNCHANGED claim
    <3>1. queue' \in Seq(Keys)
      BY <2>1, <2>2, PumpStarts
    <3> QED BY <1>5, <2>2, <2>3, <3>1 DEF S!Speculate
  <2> QED BY <1>4, <2>3, <2>5, <2>6
<1>6. ASSUME NEW k \in Keys, S!SlotFreed(k) PROVE Ahead(queue', claim')
  <2>1. PICK t \in [Keys -> S!TaskState] : WaitsOnce(t, queue) /\ S!Pump(t, queue, inFlight - 1) /\ inFlight - 1 \in 0..Slots
    BY <1>6, Freed
  <2>2. PICK s \in 0..Len(queue) : \A j \in DOMAIN queue' : j + s \in DOMAIN queue /\ queue'[j] = queue[j + s]
    BY <1>1, <2>1, PumpMoves
  <2>3. queue' \in Seq(Keys) /\ s \in Nat /\ UNCHANGED claim
    <3>1. queue' \in Seq(Keys)
      BY <1>1, <2>1, PumpStarts
    <3> QED BY <1>1, <1>6, <2>2, <3>1 DEF S!SlotFreed
  <2> QED BY <1>4, <2>2, <2>3
<1>7. ASSUME NEW c \in Claims, S!ClaimReturns(c) PROVE Ahead(queue', claim')
  <2>1. PICK a \in {"miss", "hit"} : claim' = [claim EXCEPT ![c].at = a]
    BY <1>7 DEF S!ClaimReturns
  <2>2. claim'[c].at = a /\ \A d \in Claims \ {c} : claim'[d] = claim[d]
    BY <1>1, <2>1
  <2>3. \A j \in DOMAIN queue : queue[j] # claim[c].key
    <3>1. \A j \in DOMAIN queue : queue[j] \in Keys /\ computation[queue[j]].value = "pending"
      BY <1>1 DEF SpeculationInv, S!SpeculatorInv, S!TasksInv
    <3> QED BY <1>7, <3>1 DEF S!ClaimReturns
  <2>4. \A j \in DOMAIN queue : Wanted(queue[j], claim') <=> Wanted(queue[j], claim)
    BY <2>2, <2>3 DEF Wanted
  <2>5. queue' = queue
    BY <1>7 DEF S!ClaimReturns, S!tasks
  <2> QED BY <2>4, <2>5 DEF Ahead
<1>8. ASSUME NEW c \in Claims, S!Claim(c) PROVE Ahead(queue', claim')
  <2> DEFINE k == claim[c].key
  <2>1. /\ k \in Keys /\ claim[c].at = "idle" /\ claim'[c].key = k
        /\ claim'[c].at = IF k \in staged THEN "waiting" ELSE "absent"
        /\ \A d \in Claims \ {c} : claim'[d] = claim[d]
    BY <1>1, <1>8 DEF S!Claim
  <2>2. \A x : Wanted(x, claim) => Wanted(x, claim')
    BY <2>1 DEF Wanted
  <2>3. \A x : x # k /\ Wanted(x, claim') => Wanted(x, claim)
    BY <2>1 DEF Wanted
  <2>4. CASE \E n \in DOMAIN queue : queue[n] = k /\ queue' = S!ToFront(queue, n)
    <3>1. PICK n \in DOMAIN queue : queue[n] = k /\ queue' = S!ToFront(queue, n)
      BY <2>4
    <3>2. k \in staged
      BY <3>1 DEF SpeculationInv, S!SpeculatorInv, S!TasksInv
    <3>3. Wanted(k, claim')
      BY <2>1, <3>2 DEF Wanted
    <3>4. n \in 1..Len(queue) /\ Len(queue) \in Nat
      BY <1>1
    <3>5. /\ DOMAIN queue' = 1..Len(queue)
          /\ \A j \in 1..Len(queue) : queue'[j] = IF j = 1 THEN k ELSE IF j <= n THEN queue[j - 1] ELSE queue[j]
      BY <3>1 DEF S!ToFront
    <3> SUFFICES ASSUME NEW m \in 1..Len(queue), NEW j \in 1..Len(queue), Wanted(queue'[j], claim'), m < j
                 PROVE  Wanted(queue'[m], claim')
      BY <3>5 DEF Ahead
    <3>6. CASE m = 1
      BY <3>3, <3>5, <3>6
    <3>7. CASE m # 1
      <4>1. PICK mm \in DOMAIN queue : mm = IF m <= n THEN m - 1 ELSE m
        BY <1>1, <3>4, <3>7
      <4>2. PICK jj \in DOMAIN queue : jj = IF j <= n THEN j - 1 ELSE j
        BY <1>1, <3>4, <3>7
      <4>3. mm < jj /\ jj # n
        BY <3>4, <3>7, <4>1, <4>2
      <4>4. queue'[m] = queue[mm] /\ queue'[j] = queue[jj]
        BY <3>4, <3>5, <3>7, <4>1, <4>2
      <4>5. queue[jj] # k
        BY <3>1, <4>3 DEF SpeculationInv, S!SpeculatorInv, S!TasksInv
      <4>6. Wanted(queue[jj], claim)
        BY <2>3, <4>4, <4>5
      <4>7. Wanted(queue[mm], claim)
        BY <4>3, <4>6 DEF Ahead
      <4> QED BY <2>2, <4>4, <4>7
    <3> QED BY <3>6, <3>7
  <2>5. CASE ~S!Contains(queue, k) /\ UNCHANGED queue
    <3>1. \A j \in DOMAIN queue : queue[j] # k
      BY <1>1, <2>5 DEF S!Contains
    <3> QED BY <2>2, <2>3, <2>5, <3>1 DEF Ahead
  <2> QED BY <1>8, <2>4, <2>5 DEF S!Claim
<1>9. \/ UNCHANGED <<queue, claim>> \/ S!Settle
      \/ \E k \in Keys : S!Speculate(k) \/ S!SlotFreed(k)
      \/ \E c \in Claims : S!Claim(c) \/ S!ClaimReturns(c)
  BY DEF S!Next, S!Step, S!vars, S!tasks, S!Commit, S!CommitKey, S!CommitThrows, S!CommitEnds, S!Rollback, S!TaskEnds
<1> QED BY <1>2, <1>3, <1>5, <1>6, <1>7, <1>8, <1>9

LEMMA CommitsAll ==
  ASSUME SpeculationInv, HonourInv, [S!Next]_(S!vars), phase = "committing", phase' = "committed",
         NEW c \in Claims, claim[c].at = "hit"
  PROVE  claim[c].key \in cache'
<1>1. S!CommitEnds
  BY DEF S!Next, S!Step, S!vars, S!tasks, S!Commit, S!CommitKey, S!CommitThrows, S!Rollback, S!TaskEnds, S!Claim,
         S!ClaimReturns, S!Speculate, S!SlotFreed
<1> QED BY <1>1 DEF S!CommitEnds, HonourInv

LEMMA HonourHolds == S!SpeculatorConstants => (S!Spec => [](SpeculationInv /\ HonourInv /\ Ahead(queue, claim)))
<1> SUFFICES ASSUME S!SpeculatorConstants PROVE S!Spec => [](SpeculationInv /\ HonourInv /\ Ahead(queue, claim))
  OBVIOUS
<1>1. S!Init => SpeculationInv /\ HonourInv /\ Ahead(queue, claim)
  <2>1. S!Init => Ahead(queue, claim)
    BY DEF S!Init, Ahead
  <2> QED BY <2>1, SpeculationStarts, HonourStarts
<1>2. SpeculationInv /\ HonourInv /\ Ahead(queue, claim) /\ [S!Next]_(S!vars)
        => (SpeculationInv /\ HonourInv /\ Ahead(queue, claim))'
  <2> SUFFICES ASSUME SpeculationInv, HonourInv, Ahead(queue, claim), [S!Next]_(S!vars)
               PROVE  SpeculationInv' /\ HonourInv' /\ Ahead(queue, claim)'
    OBVIOUS
  <2>1. Ahead(queue', claim')
    BY AheadStep
  <2>2. Ahead(queue, claim)'
    BY <2>1 DEF Ahead, Wanted
  <2> QED BY <2>2, SpeculationStep, HonourStep
<1> QED BY <1>1, <1>2, PTL DEF S!Spec

\* What a stage waits for is ahead in the queue of what no stage has asked for
\* (ProvenFirst): claim moves it there, and neither pump nor later guesses undo it.
THEOREM ProvenAreFirst == S!SpeculatorConstants => (S!Spec => []S!ProvenFirst)
<1>1. Ahead(queue, claim) => S!ProvenFirst
  BY ProvenAhead
<1> QED BY <1>1, HonourHolds, PTL

\* No key is computed twice (ComputedOnce): a task only moves on.
THEOREM NothingComputedTwice == S!SpeculatorConstants => (S!Spec => S!ComputedOnce)
<1> SUFFICES ASSUME S!SpeculatorConstants PROVE S!Spec => S!ComputedOnce
  OBVIOUS
<1>1. SpeculationInv /\ [S!Next]_(S!vars) =>
        [\A k \in Keys : computation[k].at \in {"running", "ended", "over"}
           => computation'[k].at \notin {"none", "queued"}
              /\ (computation[k].at # "running" => computation'[k].at # "running")]_(S!vars)
  BY StartedOnceOnly
<1> QED BY <1>1, SpeculationHolds, PTL DEF S!Spec, S!ComputedOnce

\* When commit ends, all that a stage asked for and got is in the shared cache
\* (CommitIsComplete), what was claimed while commit waited for the cache
\* included.
THEOREM CommitsAreComplete == S!SpeculatorConstants => (S!Spec => S!CommitIsComplete)
<1> SUFFICES ASSUME S!SpeculatorConstants PROVE S!Spec => S!CommitIsComplete
  OBVIOUS
<1>1. SpeculationInv /\ HonourInv /\ [S!Next]_(S!vars) =>
        [phase = "committing" /\ phase' = "committed"
           => \A c \in Claims : claim[c].at = "hit" => claim[c].key \in cache']_(S!vars)
  BY CommitsAll
<1> QED BY <1>1, HonourHolds, PTL DEF S!Spec, S!CommitIsComplete
=============================================================================
