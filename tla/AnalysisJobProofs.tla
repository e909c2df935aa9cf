-------------------------- MODULE AnalysisJobProofs --------------------------
(***************************************************************************)
(* What the job records promise for any number of jobs and deliveries,     *)
(* with every call that may fail failing at any time.                      *)
(***************************************************************************)
EXTENDS AnalysisJob, TLAPS

USE DEF Run

\* What the code of one run knows where it stands: before it saves it has a
\* result worth saving, and before it records success something is stored.
ExecInv(e) ==
  /\ e.base # "none" => store # "none"
  /\ e.pc = "save" => e.outcome \in {"completed", "partial"}
  /\ e.pc = "record" => e.outcome # "none" /\ (e.outcome # "failed" => store # "none")

StoreInv ==
  /\ CompletedHasAnalysis
  /\ FailedNeverStored
  /\ \A j \in Jobs : \A r \in Run : ExecInv(exec[j][r])

\* A run that moves keeps the types of all runs.
LEMMA ExecMoves ==
  ASSUME exec \in [Jobs -> [Run -> Exec]], NEW j \in Jobs, NEW r \in Run, NEW e \in Exec,
         exec' = [exec EXCEPT ![j][r] = e]
  PROVE  /\ exec' \in [Jobs -> [Run -> Exec]]
         /\ \A k \in Jobs : \A q \in Run :
              exec'[k][q] = IF k = j /\ q = r THEN e ELSE exec[k][q]
  OBVIOUS

\* Every action of a run ends in one of these moves.
LEMMA GotoMoves ==
  ASSUME exec \in [Jobs -> [Run -> Exec]], NEW j \in Jobs, NEW r \in Run, NEW pc \in ExecPc,
         Goto(j, r, pc)
  PROVE  /\ exec' \in [Jobs -> [Run -> Exec]]
         /\ \A k \in Jobs : \A q \in Run :
              exec'[k][q] = IF k = j /\ q = r THEN [exec[j][r] EXCEPT !.pc = pc] ELSE exec[k][q]
<1>0. exec[j][r] \in Exec
  OBVIOUS
<1>1. [exec[j][r] EXCEPT !.pc = pc] \in Exec
  BY <1>0 DEF Exec
<1>2. exec' = [exec EXCEPT ![j][r] = [exec[j][r] EXCEPT !.pc = pc]]
  BY DEF Goto
<1> QED BY <1>1, <1>2, ExecMoves

\* Runs that know what they knew, and a store that is never emptied, keep what
\* the runs know.
LEMMA RunsKeep ==
  ASSUME \A j \in Jobs : \A r \in Run : ExecInv(exec[j][r]),
         store # "none" => store' # "none",
         NEW j \in Jobs, NEW r \in Run, NEW e,
         \A k \in Jobs : \A q \in Run :
           exec'[k][q] = IF k = j /\ q = r THEN e ELSE exec[k][q],
         /\ e.base # "none" => store' # "none"
         /\ e.pc = "save" => e.outcome \in {"completed", "partial"}
         /\ e.pc = "record" => e.outcome # "none" /\ (e.outcome # "failed" => store' # "none")
  PROVE  \A k \in Jobs : \A q \in Run : ExecInv(exec[k][q])'
<1> SUFFICES ASSUME NEW k \in Jobs, NEW q \in Run PROVE ExecInv(exec[k][q])'
  OBVIOUS
<1>1. CASE k = j /\ q = r
  BY <1>1 DEF ExecInv
<1>2. CASE ~(k = j /\ q = r)
  <2>1. exec'[k][q] = exec[k][q] /\ ExecInv(exec[k][q])
    BY <1>2
  <2> QED BY <2>1 DEF ExecInv
<1> QED BY <1>1, <1>2

\* The same for a run that only goes elsewhere.
LEMMA GotoKeeps ==
  ASSUME TypeOK, StoreInv, store # "none" => store' # "none",
         NEW j \in Jobs, NEW r \in Run, NEW pc \in ExecPc, Goto(j, r, pc),
         pc # "save",
         pc = "record" => exec[j][r].outcome # "none" /\ (exec[j][r].outcome # "failed" => store' # "none")
  PROVE  /\ exec' \in [Jobs -> [Run -> Exec]]
         /\ \A k \in Jobs : \A q \in Run : ExecInv(exec[k][q])'
<1>0. PICK e : e = [exec[j][r] EXCEPT !.pc = pc]
  OBVIOUS
<1>1. exec \in [Jobs -> [Run -> Exec]] /\ exec[j][r] \in Exec
  BY DEF TypeOK
<1>2. /\ exec' \in [Jobs -> [Run -> Exec]]
      /\ \A k \in Jobs : \A q \in Run :
           exec'[k][q] = IF k = j /\ q = r THEN e ELSE exec[k][q]
  BY <1>0, <1>1, GotoMoves
<1>3. e.pc = pc /\ e.base = exec[j][r].base /\ e.outcome = exec[j][r].outcome
  BY <1>0, <1>1 DEF Exec
<1>4. ExecInv(exec[j][r])
  BY DEF StoreInv
<1>5. /\ e.base # "none" => store' # "none"
      /\ e.pc = "save" => e.outcome \in {"completed", "partial"}
      /\ e.pc = "record" => e.outcome # "none" /\ (e.outcome # "failed" => store' # "none")
  BY <1>3, <1>4 DEF ExecInv
<1>6. ASSUME NEW k \in Jobs, NEW q \in Run PROVE ExecInv(exec[k][q])'
  <2>1. ExecInv(exec[k][q])
    BY DEF StoreInv
  <2>2. exec'[k][q] = e \/ exec'[k][q] = exec[k][q]
    BY <1>2
  <2> QED BY <1>5, <2>1, <2>2 DEF ExecInv
<1> QED BY <1>2, <1>6

\* A run whose knowledge changes with its place.
LEMMA MoveKeeps ==
  ASSUME TypeOK, StoreInv, store' = store,
         NEW j \in Jobs, NEW r \in Run, NEW e \in Exec, exec' = [exec EXCEPT ![j][r] = e],
         /\ e.base # "none" => store # "none"
         /\ e.pc = "save" => e.outcome \in {"completed", "partial"}
         /\ e.pc = "record" => e.outcome # "none" /\ (e.outcome # "failed" => store # "none")
  PROVE  /\ exec' \in [Jobs -> [Run -> Exec]]
         /\ \A k \in Jobs : \A q \in Run : ExecInv(exec[k][q])'
<1>1. /\ exec' \in [Jobs -> [Run -> Exec]]
      /\ \A k \in Jobs : \A q \in Run :
           exec'[k][q] = IF k = j /\ q = r THEN e ELSE exec[k][q]
  BY ExecMoves DEF TypeOK
<1>2. \A k \in Jobs : \A q \in Run : ExecInv(exec[k][q])'
  BY <1>1, RunsKeep DEF StoreInv
<1> QED BY <1>1, <1>2

\* A record that is given a status and perhaps an analysis.
LEMMA JobMoves ==
  ASSUME job \in [Jobs -> JobRecord], NEW j \in Jobs, NEW d \in JobRecord,
         job' = [job EXCEPT ![j] = d]
  PROVE  /\ job' \in [Jobs -> JobRecord]
         /\ \A k \in Jobs : job'[k] = IF k = j THEN d ELSE job[k]
  OBVIOUS

\* The records go on agreeing with the store.
LEMMA RecordsAgree ==
  ASSUME CompletedHasAnalysis, store # "none" => store' # "none",
         NEW j \in Jobs, NEW d \in JobRecord,
         \A k \in Jobs : job'[k] = IF k = j THEN d ELSE job[k],
         d.status = "completed" => d.analysis /\ store' # "none"
  PROVE  CompletedHasAnalysis'
  BY DEF CompletedHasAnalysis

\* A step keeps the shape of the state, and what is stored told apart.
LEMMA StoreStep ==
  ASSUME TypeOK, StoreInv, [Next]_vars PROVE TypeOK' /\ StoreInv'
<1> USE JobsAssumption
<1>0. \A j \in Jobs : /\ job[j] \in JobRecord
                      /\ \A r \in Run : exec[j][r] \in Exec /\ ExecInv(exec[j][r])
  BY DEF TypeOK, StoreInv
<1>1. CASE UNCHANGED vars
  BY <1>1 DEF vars, TypeOK, StoreInv, CompletedHasAnalysis, FailedNeverStored, ExecInv
\* The record changes, the runs and the store do not.
<1>2. ASSUME NEW j \in Jobs, NEW d \in JobRecord, job' = [job EXCEPT ![j] = d],
             d.status = "completed" => d.analysis /\ store # "none",
             UNCHANGED <<store, exec, dones>>,
             api' \in [Jobs -> {"idle", "adding", "accepted", "refusing", "refused", "cached"}],
             queue' \in [Jobs -> {"none", "adding", "waiting", "active", "ended"}],
             delivered' \in [Jobs -> 0..Deliveries]
      PROVE  TypeOK' /\ StoreInv'
  <2>1. /\ job' \in [Jobs -> JobRecord]
        /\ \A k \in Jobs : job'[k] = IF k = j THEN d ELSE job[k]
    BY <1>2, JobMoves DEF TypeOK
  <2>2. CompletedHasAnalysis'
    BY <1>2, <2>1, RecordsAgree DEF StoreInv
  <2>3. StoreInv'
    BY <1>2, <2>2 DEF StoreInv, FailedNeverStored, ExecInv
  <2> QED BY <1>2, <2>1, <2>3 DEF TypeOK
\* Neither records, nor runs, nor the store change.
<1>3. ASSUME UNCHANGED <<job, store, exec, dones>>,
             api' \in [Jobs -> {"idle", "adding", "accepted", "refusing", "refused", "cached"}],
             queue' \in [Jobs -> {"none", "adding", "waiting", "active", "ended"}],
             delivered' \in [Jobs -> 0..Deliveries]
      PROVE  TypeOK' /\ StoreInv'
  BY <1>3 DEF TypeOK, StoreInv, CompletedHasAnalysis, FailedNeverStored, ExecInv
\* A run moves, and the record and the store go with it.
<1>4. ASSUME job' \in [Jobs -> JobRecord], CompletedHasAnalysis',
             store' \in RunStatus, store' # "failed",
             exec' \in [Jobs -> [Run -> Exec]],
             \A k \in Jobs : \A q \in Run : ExecInv(exec[k][q])',
             dones' \in [Jobs -> Seq(RunStatus)],
             api' = api,
             queue' \in [Jobs -> {"none", "adding", "waiting", "active", "ended"}],
             delivered' \in [Jobs -> 0..Deliveries]
      PROVE  TypeOK' /\ StoreInv'
  BY <1>4 DEF TypeOK, StoreInv, FailedNeverStored
<1>5. job' = job /\ store' = store => job' \in [Jobs -> JobRecord] /\ CompletedHasAnalysis'
  BY DEF TypeOK, StoreInv, CompletedHasAnalysis
<1>6. ASSUME NEW j \in Jobs, Request(j) PROVE TypeOK' /\ StoreInv'
  <2>1. CASE AnswerCached(j)
    <3> DEFINE d == [job[j] EXCEPT !.status = "completed", !.analysis = TRUE]
    <3>1. d \in JobRecord /\ d.analysis
      BY <1>0 DEF JobRecord
    <3>2. job' = [job EXCEPT ![j] = d] /\ store # "none" /\ UNCHANGED <<queue, delivered, store, exec, dones>>
      BY <2>1 DEF AnswerCached, back
    <3>3. api' \in [Jobs -> {"idle", "adding", "accepted", "refusing", "refused", "cached"}]
      BY <2>1 DEF AnswerCached, TypeOK
    <3> HIDE DEF d
    <3> QED BY <1>2, <3>1, <3>2, <3>3 DEF TypeOK
  <2>2. CASE CreateJob(j)
    <3> DEFINE d == [job[j] EXCEPT !.status = "queued"]
    <3>1. d \in JobRecord /\ d.status # "completed"
      BY <1>0 DEF JobRecord
    <3>2. job' = [job EXCEPT ![j] = d] /\ UNCHANGED <<delivered, store, exec, dones>>
      BY <2>2 DEF CreateJob, back
    <3>3. /\ api' \in [Jobs -> {"idle", "adding", "accepted", "refusing", "refused", "cached"}]
          /\ queue' \in [Jobs -> {"none", "adding", "waiting", "active", "ended"}]
      BY <2>2 DEF CreateJob, TypeOK
    <3> HIDE DEF d
    <3> QED BY <1>2, <3>1, <3>2, <3>3 DEF TypeOK
  <2>3. CASE Refuse(j)
    <3> DEFINE d == [job[j] EXCEPT !.status = "failed"]
    <3>1. d \in JobRecord /\ d.status # "completed"
      BY <1>0 DEF JobRecord
    <3>2. (job' = [job EXCEPT ![j] = d] \/ job' = job) /\ UNCHANGED <<queue, delivered, store, exec, dones>>
      BY <2>3 DEF Refuse, back
    <3>3. api' \in [Jobs -> {"idle", "adding", "accepted", "refusing", "refused", "cached"}]
      BY <2>3 DEF Refuse, TypeOK
    <3> HIDE DEF d
    <3> QED BY <1>2, <1>3, <3>1, <3>2, <3>3 DEF TypeOK
  <2>4. CASE AddLands(j) \/ AddFails(j) \/ AddTimesOut(j) \/ Accept(j)
    <3>1. /\ api' \in [Jobs -> {"idle", "adding", "accepted", "refusing", "refused", "cached"}]
          /\ queue' \in [Jobs -> {"none", "adding", "waiting", "active", "ended"}]
      BY <2>4 DEF AddLands, AddFails, AddTimesOut, Accept, TypeOK
    <3>2. UNCHANGED <<job, delivered, store, exec, dones>>
      BY <2>4 DEF AddLands, AddFails, AddTimesOut, Accept, back
    <3> QED BY <1>3, <3>1, <3>2 DEF TypeOK
  <2> QED BY <1>6, <2>1, <2>2, <2>3, <2>4 DEF Request
<1>7. ASSUME NEW j \in Jobs, Deliver(j) PROVE TypeOK' /\ StoreInv'
  <2>1. /\ delivered[j] \in 0..Deliveries /\ delivered[j] < Deliveries
        /\ queue' = [queue EXCEPT ![j] = "active"]
        /\ delivered' = [delivered EXCEPT ![j] = @ + 1]
        /\ Goto(j, delivered[j] + 1, "start")
        /\ UNCHANGED <<job, store, api, dones>>
    BY <1>7 DEF Deliver, Goto, TypeOK
  <2>2. delivered[j] + 1 \in Run /\ delivered[j] + 1 \in 0..Deliveries
    BY <2>1
  <2>3. /\ exec' \in [Jobs -> [Run -> Exec]]
        /\ \A k \in Jobs : \A q \in Run : ExecInv(exec[k][q])'
    BY <2>1, <2>2, GotoKeeps DEF ExecPc
  <2>4. /\ queue' \in [Jobs -> {"none", "adding", "waiting", "active", "ended"}]
        /\ delivered' \in [Jobs -> 0..Deliveries]
    BY <2>1, <2>2 DEF TypeOK
  <2> QED BY <1>4, <1>5, <2>1, <2>3, <2>4 DEF TypeOK, StoreInv, FailedNeverStored
<1>8. ASSUME NEW j \in Jobs, NEW r \in Run, Crash(j, r) \/ Stall(j, r) PROVE TypeOK' /\ StoreInv'
  <2>1. /\ queue' = [queue EXCEPT ![j] = "waiting"]
        /\ UNCHANGED <<job, store, api, delivered, dones>>
    BY <1>8 DEF Crash, Stall
  <2>2. queue' \in [Jobs -> {"none", "adding", "waiting", "active", "ended"}]
    BY <2>1 DEF TypeOK
  <2>3. CASE exec' = exec
    BY <1>3, <2>1, <2>2, <2>3 DEF TypeOK
  <2>4. CASE Goto(j, r, "gone")
    <3>1. /\ exec' \in [Jobs -> [Run -> Exec]]
          /\ \A k \in Jobs : \A q \in Run : ExecInv(exec[k][q])'
      BY <2>1, <2>4, GotoKeeps DEF ExecPc
    <3> QED BY <1>4, <1>5, <2>1, <2>2, <3>1 DEF TypeOK, StoreInv, FailedNeverStored
  <2> QED BY <1>8, <2>3, <2>4 DEF Crash, Stall, Goto
\* A run goes to a place where it needs to know nothing, with the queue.
<1>9. ASSUME NEW j \in Jobs, NEW r \in Run, NEW pc \in ExecPc \ {"save", "record"}, Goto(j, r, pc),
             UNCHANGED <<job, store, api, delivered>>, dones' \in [Jobs -> Seq(RunStatus)],
             queue' = queue \/ queue' = [queue EXCEPT ![j] = "ended"]
      PROVE  TypeOK' /\ StoreInv'
  <2>1. /\ exec' \in [Jobs -> [Run -> Exec]]
        /\ \A k \in Jobs : \A q \in Run : ExecInv(exec[k][q])'
    BY <1>9, GotoKeeps
  <2>2. queue' \in [Jobs -> {"none", "adding", "waiting", "active", "ended"}]
    BY <1>9 DEF TypeOK
  <2> QED BY <1>4, <1>5, <1>9, <2>1, <2>2 DEF TypeOK, StoreInv, FailedNeverStored
\* The same with a record that does not become completed for nothing.
<1>10. ASSUME NEW j \in Jobs, NEW r \in Run, NEW pc \in ExecPc \ {"save", "record"}, Goto(j, r, pc),
              NEW d \in JobRecord, job' = [job EXCEPT ![j] = d],
              d.status = "completed" => d.analysis /\ store # "none",
              UNCHANGED <<store, api, delivered, dones, queue>>
       PROVE  TypeOK' /\ StoreInv'
  <2>1. /\ exec' \in [Jobs -> [Run -> Exec]]
        /\ \A k \in Jobs : \A q \in Run : ExecInv(exec[k][q])'
    BY <1>10, GotoKeeps
  <2>2. /\ job' \in [Jobs -> JobRecord]
        /\ \A k \in Jobs : job'[k] = IF k = j THEN d ELSE job[k]
    BY <1>10, JobMoves DEF TypeOK
  <2>3. CompletedHasAnalysis'
    BY <1>10, <2>2, RecordsAgree DEF StoreInv
  <2> QED BY <1>4, <1>10, <2>1, <2>2, <2>3 DEF TypeOK, StoreInv, FailedNeverStored
\* A run learns something.
<1>11. ASSUME NEW j \in Jobs, NEW r \in Run, NEW e \in Exec, exec' = [exec EXCEPT ![j][r] = e],
              /\ e.base # "none" => store # "none"
              /\ e.pc = "save" => e.outcome \in {"completed", "partial"}
              /\ e.pc = "record" => e.outcome # "none" /\ (e.outcome # "failed" => store # "none"),
              UNCHANGED <<job, store, front, dones>>
       PROVE  TypeOK' /\ StoreInv'
  <2>1. /\ exec' \in [Jobs -> [Run -> Exec]]
        /\ \A k \in Jobs : \A q \in Run : ExecInv(exec[k][q])'
    BY <1>11, MoveKeeps
  <2> QED BY <1>4, <1>5, <1>11, <2>1 DEF TypeOK, StoreInv, FailedNeverStored, front
<1>12. ASSUME NEW j \in Jobs, NEW r \in Run, RunAnalysisJob(j, r) PROVE TypeOK' /\ StoreInv'
  <2> DEFINE x == exec[j][r]
  <2>0. x \in Exec /\ ExecInv(x) /\ job[j] \in JobRecord /\ store \in RunStatus /\ store # "failed"
    BY <1>0 DEF TypeOK, StoreInv, FailedNeverStored
  <2>1. CASE Start(j, r)
    <3> DEFINE d == [job[j] EXCEPT !.status = "cloning"]
    <3>1. d \in JobRecord /\ d.status # "completed"
      BY <2>0 DEF JobRecord
    <3>2. CASE job' = [job EXCEPT ![j] = d] /\ Goto(j, r, "lookup") /\ UNCHANGED queue
      <4> HIDE DEF d
      <4> QED BY <1>10, <2>1, <3>1, <3>2 DEF Start, ExecPc
    <3>3. CASE Leave(j, r) /\ UNCHANGED job
      BY <1>9, <2>1, <3>3 DEF Start, Leave, ExecPc, TypeOK
    <3> QED BY <2>1, <3>2, <3>3 DEF Start
  <2>2. CASE Lookup(j, r)
    <3> DEFINE e == [x EXCEPT !.pc = "run", !.base = store]
    <3>1. e \in Exec /\ e.pc = "run" /\ e.base = store
      BY <2>0 DEF Exec, ExecPc
    <3>2. exec' = [exec EXCEPT ![j][r] = e] /\ UNCHANGED <<job, store, front, dones>>
      BY <2>2 DEF Lookup
    <3> HIDE DEF e
    <3> QED BY <1>11, <3>1, <3>2
  <2>3. CASE LookupFails(j, r)
    <3> DEFINE e == [x EXCEPT !.pc = "record", !.outcome = "failed"]
    <3>1. e \in Exec /\ e.pc = "record" /\ e.outcome = "failed" /\ e.base = x.base
      BY <2>0 DEF Exec, ExecPc, RunStatus
    <3>2. UNCHANGED <<job, store, front, dones>>
      BY <2>3 DEF LookupFails
    <3>3. CASE exec' = [exec EXCEPT ![j][r] = e]
      <4> HIDE DEF e
      <4> QED BY <1>11, <2>0, <3>1, <3>2, <3>3 DEF ExecInv
    <3>4. CASE Goto(j, r, "catch")
      BY <1>9, <3>2, <3>4 DEF ExecPc, front, TypeOK
    <3>5. \/ exec' = [exec EXCEPT ![j][r].pc = "record", ![j][r].outcome = "failed"]
          \/ Goto(j, r, "catch")
      BY <2>3 DEF LookupFails
    <3>6. CASE exec' = [exec EXCEPT ![j][r].pc = "record", ![j][r].outcome = "failed"]
      <4>1. exec' = [exec EXCEPT ![j][r] = e]
        BY <3>6
      <4> QED BY <3>3, <4>1
    <3> QED BY <3>4, <3>5, <3>6
  <2>4. CASE FullHit(j, r)
    <3> DEFINE e == [x EXCEPT !.pc = "record", !.outcome = "completed", !.cached = TRUE]
    <3>1. e \in Exec /\ e.pc = "record" /\ e.outcome = "completed" /\ e.base = x.base
      BY <2>0 DEF Exec, ExecPc, RunStatus
    <3>2. /\ exec' = [exec EXCEPT ![j][r] = e] /\ UNCHANGED <<job, store, front, dones>>
          /\ x.base = "completed"
      BY <2>4 DEF FullHit
    <3> HIDE DEF e
    <3> QED BY <1>11, <2>0, <3>1, <3>2 DEF ExecInv
  <2>5. CASE PipelineEnds(j, r)
    <3>1. PICK outcome \in {"completed", "partial", "failed"} :
            exec' = [exec EXCEPT
              ![j][r].pc = IF outcome = "failed" THEN "record" ELSE "save",
              ![j][r].outcome = outcome]
      BY <2>5 DEF PipelineEnds
    <3> DEFINE e == [x EXCEPT !.pc = IF outcome = "failed" THEN "record" ELSE "save",
                              !.outcome = outcome]
    <3>2. /\ e \in Exec /\ e.pc = IF outcome = "failed" THEN "record" ELSE "save"
          /\ e.outcome = outcome /\ e.base = x.base
      BY <2>0 DEF Exec, ExecPc, RunStatus
    <3>3. exec' = [exec EXCEPT ![j][r] = e]
      BY <3>1
    <3>4. UNCHANGED <<job, store, front, dones>>
      BY <2>5 DEF PipelineEnds
    <3> HIDE DEF e
    <3> QED BY <1>11, <2>0, <3>2, <3>3, <3>4 DEF ExecInv
  <2>6. CASE Save(j, r)
    <3>1. x.pc = "save" /\ x.outcome \in {"completed", "partial"} /\ UNCHANGED <<job, front, dones>>
      BY <2>0, <2>6 DEF Save, ExecInv
    <3>2. CASE Goto(j, r, "catch") /\ UNCHANGED store
      BY <1>9, <3>1, <3>2 DEF ExecPc, front, TypeOK
    <3>3. CASE Goto(j, r, "record") /\ store' = IF store = "none" THEN x.outcome ELSE store
      <4>1. store' \in RunStatus /\ store' # "none" /\ store' # "failed"
        BY <2>0, <3>1, <3>3 DEF RunStatus
      <4>2. /\ exec' \in [Jobs -> [Run -> Exec]]
            /\ \A k \in Jobs : \A q \in Run : ExecInv(exec[k][q])'
        BY <3>1, <3>3, <4>1, GotoKeeps DEF ExecPc
      <4>3. CompletedHasAnalysis'
        BY <3>1, <4>1 DEF StoreInv, CompletedHasAnalysis
      <4> QED BY <1>4, <3>1, <4>1, <4>2, <4>3 DEF TypeOK, front
    <3> QED BY <2>6, <3>2, <3>3 DEF Save
  <2>7. CASE Record(j, r)
    <3> DEFINE failed == x.outcome = "failed"
    <3> DEFINE d == [status |-> IF failed THEN "failed" ELSE "completed", run |-> x.outcome,
                     analysis |-> job[j].analysis \/ ~failed]
    <3>1. d \in JobRecord
      BY <2>0 DEF JobRecord, Exec
    <3>2. d.status = "completed" => d.analysis /\ store # "none"
      BY <2>0, <2>7 DEF Record, ExecInv
    <3>3. UNCHANGED <<store, api, delivered, dones, queue>>
      BY <2>7 DEF Record, front
    <3>4. CASE job' = [job EXCEPT ![j] = d] /\ Goto(j, r, "log")
      <4> HIDE DEF d
      <4> QED BY <1>10, <3>1, <3>2, <3>3, <3>4 DEF ExecPc
    <3>5. CASE Goto(j, r, "catch") /\ UNCHANGED job
      BY <1>9, <3>3, <3>5 DEF ExecPc, TypeOK
    <3> QED BY <2>7, <3>4, <3>5 DEF Record
  <2>8. CASE LogDone(j, r) \/ CatchLog(j, r)
    <3>1. dones' \in [Jobs -> Seq(RunStatus)]
      <4>1. x.outcome \in RunStatus /\ "failed" \in RunStatus /\ dones \in [Jobs -> Seq(RunStatus)]
        BY <2>0 DEF Exec, RunStatus, TypeOK
      <4>2. append(j, x.outcome) \/ append(j, "failed")
        BY <2>8 DEF LogDone, CatchLog
      <4>3. PICK kept \in RunStatus : dones' = [dones EXCEPT ![j] = Append(dones[j], kept)]
        BY <4>1, <4>2 DEF append, RunStatus
      <4>4. Append(dones[j], kept) \in Seq(RunStatus)
        BY <4>1
      <4> HIDE DEF x
      <4> QED BY <4>1, <4>3, <4>4
    <3>2. Goto(j, r, "publish") \/ Goto(j, r, "catchPublish")
      BY <2>8 DEF LogDone, CatchLog
    <3>3. UNCHANGED <<job, store, api, delivered, queue>>
      BY <2>8 DEF LogDone, CatchLog, front
    <3> QED BY <1>9, <3>1, <3>2, <3>3 DEF ExecPc
  <2>9. CASE PublishDone(j, r) \/ CatchPublish(j, r)
    <3>1. /\ Goto(j, r, "gone") \/ Goto(j, r, "catch")
          /\ queue' = queue \/ queue' = [queue EXCEPT ![j] = "ended"]
      BY <2>9 DEF PublishDone, CatchPublish, Leave
    <3>2. UNCHANGED <<job, store, api, delivered, dones>>
      BY <2>9 DEF PublishDone, CatchPublish
    <3> QED BY <1>9, <3>1, <3>2 DEF ExecPc, TypeOK
  <2>10. CASE Catch(j, r)
    <3> DEFINE d == [job[j] EXCEPT !.status = "failed", !.run = "failed"]
    <3>1. d \in JobRecord /\ d.status # "completed"
      BY <2>0 DEF JobRecord, RunStatus
    <3>2. CASE job' = [job EXCEPT ![j] = d] /\ Goto(j, r, "catchLog") /\ UNCHANGED queue
      <4> HIDE DEF d
      <4> QED BY <1>10, <2>10, <3>1, <3>2 DEF Catch, ExecPc
    <3>3. CASE Leave(j, r) /\ UNCHANGED job
      BY <1>9, <2>10, <3>3 DEF Catch, Leave, ExecPc, TypeOK
    <3> QED BY <2>10, <3>2, <3>3 DEF Catch
  <2> QED BY <1>12, <2>1, <2>2, <2>3, <2>4, <2>5, <2>6, <2>7, <2>8, <2>9, <2>10 DEF RunAnalysisJob
<1> QED BY <1>1, <1>6, <1>7, <1>8, <1>12 DEF Next

\* Nothing requested, nothing stored.
LEMMA RecordsInit == Init => TypeOK /\ StoreInv
<1> SUFFICES ASSUME Init PROVE TypeOK /\ StoreInv
  OBVIOUS
<1>1. dones \in [Jobs -> Seq(RunStatus)] /\ delivered \in [Jobs -> 0..Deliveries]
  BY JobsAssumption DEF Init
<1>2. job \in [Jobs -> JobRecord] /\ exec \in [Jobs -> [Run -> Exec]]
  BY DEF Init, JobRecord, Exec, ExecPc, RunStatus
<1>3. TypeOK
  BY <1>1, <1>2 DEF Init, TypeOK, RunStatus
<1>4. StoreInv
  BY DEF Init, StoreInv, CompletedHasAnalysis, FailedNeverStored, ExecInv
<1> QED BY <1>3, <1>4

\* A completed job has its analysis and a failed run is never stored, however
\* many jobs ask for the commit, whichever calls fail, and though workers be
\* killed, stall, and run beside their own second delivery.
THEOREM RecordsMatchTheStore == Spec => []StoreIsHonest
<1>1. Init => TypeOK /\ StoreInv
  BY RecordsInit
<1>2. TypeOK /\ StoreInv /\ [Next]_vars => TypeOK' /\ StoreInv'
  BY StoreStep
<1>3. TypeOK /\ StoreInv => StoreIsHonest
  BY DEF StoreInv, StoreIsHonest
<1> QED BY <1>1, <1>2, <1>3, PTL DEF Spec

----------------------------------------------------------------------------
(* The last word.  Without stalled workers a job has one run at a time.     *)

\* The record says what the last `done` of the job said.
Agrees(j) == dones[j] # <<>> => Last(dones[j]) \in {"none", job[j].run}

\* A record that is written after its `done` may be lost with the worker that
\* wrote it; the next delivery does not get past its first update.
WordMayBeLost == "update" \in Faults

\* Only the latest delivery is at work, and only while the queue knows it.
OneRunAtATime(j) ==
  /\ api[j] = "idle" => queue[j] = "none"
  /\ \A r \in Run : Alive(j, r) => r = delivered[j] /\ queue[j] = "active"

\* Between the record and its `done` a run is the only one to know.
RunKnowsItsWord(j) ==
  \A r \in Run :
    /\ exec[j][r].pc = "log" => job[j].run = exec[j][r].outcome
    /\ exec[j][r].pc = "catchLog" => job[j].run = "failed"
    /\ exec[j][r].pc \in {"publish", "catchPublish"} => Agrees(j)

\* What a run that may stop at any update must find: nothing was said before
\* the first run has its say, and the second, which is the last, is not killed.
NothingToCorrect(j) ==
  /\ delivered[j] = 0 => dones[j] = <<>>
  /\ \A r \in Run :
       delivered[j] = 1 /\ Alive(j, r) /\ exec[j][r].pc \notin {"publish", "catchPublish"}
         => dones[j] = <<>>
  /\ (\A r \in Run : exec[j][r].pc \notin {"log", "catchLog"}) => Agrees(j)

WordInv(j) ==
  /\ OneRunAtATime(j)
  /\ RunKnowsItsWord(j)
  /\ queue[j] = "ended" => Agrees(j)
  /\ WordMayBeLost => NothingToCorrect(j)

\* Nothing a job's word rests on changes.
LEMMA WordIsKept ==
  ASSUME NEW k \in Jobs, WordInv(k),
         /\ job'[k].run = job[k].run /\ exec'[k] = exec[k]
         /\ queue'[k] = queue[k] /\ delivered'[k] = delivered[k] /\ dones'[k] = dones[k]
         /\ api'[k] = "idle" => api[k] = "idle"
  PROVE  WordInv(k)'
<1>1. Agrees(k)' <=> Agrees(k)
  BY DEF Agrees
<1>2. \A r \in Run : Alive(k, r)' <=> Alive(k, r)
  BY DEF Alive
<1>3. OneRunAtATime(k)'
  BY <1>2 DEF WordInv, OneRunAtATime
<1>4. RunKnowsItsWord(k)'
  BY <1>1 DEF WordInv, RunKnowsItsWord
<1>5. NothingToCorrect(k) => NothingToCorrect(k)'
  BY <1>1, <1>2 DEF NothingToCorrect
<1> QED BY <1>1, <1>3, <1>4, <1>5 DEF WordInv, WordMayBeLost

\* The job's request and its place in the queue change while no run is alive.
LEMMA WordIsKeptAsleep ==
  ASSUME NEW k \in Jobs, WordInv(k), queue[k] # "active", queue'[k] # "ended",
         /\ job'[k].run = job[k].run /\ exec'[k] = exec[k]
         /\ delivered'[k] = delivered[k] /\ dones'[k] = dones[k]
         /\ api'[k] # "idle"
  PROVE  WordInv(k)'
<1>1. Agrees(k)' <=> Agrees(k)
  BY DEF Agrees
<1>2. \A r \in Run : ~Alive(k, r) /\ ~Alive(k, r)'
  BY DEF Alive, WordInv, OneRunAtATime
<1>3. OneRunAtATime(k)'
  BY <1>2 DEF OneRunAtATime
<1>4. RunKnowsItsWord(k)'
  BY <1>1 DEF WordInv, RunKnowsItsWord
<1>5. NothingToCorrect(k) => NothingToCorrect(k)'
  BY <1>1, <1>2 DEF NothingToCorrect
<1> QED BY <1>3, <1>4, <1>5 DEF WordInv, WordMayBeLost

\* The run at work moves: e is what it becomes.
LEMMA WordOfTheRun ==
  ASSUME NEW j \in Jobs, WordInv(j), NEW r \in Run, Alive(j, r), delivered[j] \in Nat,
         NEW e, \A q \in Run : exec'[j][q] = IF q = r THEN e ELSE exec[j][q],
         delivered'[j] = delivered[j], api'[j] = api[j],
         e.pc \notin {"idle", "gone"} => queue'[j] = "active",
         e.pc = "log" => job'[j].run = e.outcome,
         e.pc = "catchLog" => job'[j].run = "failed",
         e.pc \in {"publish", "catchPublish"} => Agrees(j)',
         queue'[j] = "ended" => Agrees(j)',
         WordMayBeLost /\ e.pc \notin {"log", "catchLog"} => Agrees(j)',
         WordMayBeLost /\ delivered[j] = 1
           /\ e.pc \notin {"idle", "gone", "publish", "catchPublish"} => dones'[j] = <<>>
  PROVE  WordInv(j)'
<1>1. r = delivered[j] /\ queue[j] = "active" /\ api[j] # "idle"
  BY DEF WordInv, OneRunAtATime
<1>2. ASSUME NEW q \in Run, q # r
      PROVE  exec[j][q].pc \in {"idle", "gone"} /\ exec'[j][q].pc \in {"idle", "gone"}
  BY <1>1, <1>2 DEF WordInv, OneRunAtATime, Alive
<1>3. exec'[j][r] = e
  OBVIOUS
<1>4. OneRunAtATime(j)'
  BY <1>1, <1>2, <1>3 DEF OneRunAtATime, Alive
<1>5. RunKnowsItsWord(j)'
  BY <1>2, <1>3 DEF RunKnowsItsWord
<1>6. WordMayBeLost => NothingToCorrect(j)'
  BY <1>1, <1>2, <1>3 DEF NothingToCorrect, Alive
<1> QED BY <1>4, <1>5, <1>6 DEF WordInv, WordMayBeLost

LastDelivery == WordMayBeLost => Deliveries <= 2 /\ "publish" \notin Faults

\* What was appended comes last.
LEMMA LastOfAppend ==
  ASSUME NEW S, NEW s \in Seq(S), NEW x \in S
  PROVE  Append(s, x) # <<>> /\ Last(Append(s, x)) = x
<1>1. Len(Append(s, x)) = Len(s) + 1 /\ Append(s, x)[Len(s) + 1] = x
  OBVIOUS
<1> QED BY <1>1 DEF Last

\* A request makes a record no run has a word on yet.
LEMMA RequestKeepsTheWord ==
  ASSUME TypeOK, \A k \in Jobs : WordInv(k), NEW j \in Jobs, Request(j), NEW k \in Jobs
  PROVE  WordInv(k)'
<1>0. job[j] \in JobRecord /\ UNCHANGED <<delivered, exec, dones>>
  BY DEF TypeOK, Request, AnswerCached, CreateJob, AddLands, AddFails, AddTimesOut, Accept, Refuse, back
<1>1. job'[k].run = job[k].run
  <2>1. CASE job' = job
    BY <2>1
  <2>2. ASSUME NEW s, NEW a, job' = [job EXCEPT ![j] = [job[j] EXCEPT !.status = s, !.analysis = a]]
        PROVE  job'[k].run = job[k].run
    <3>1. job'[k] = IF k = j THEN [job[j] EXCEPT !.status = s, !.analysis = a] ELSE job[k]
      BY <2>2 DEF TypeOK
    <3>2. [job[j] EXCEPT !.status = s, !.analysis = a].run = job[j].run
      BY <1>0 DEF JobRecord
    <3> QED BY <3>1, <3>2
  <2>3. CASE job' # job
    <3>1. PICK s \in {"completed", "queued", "failed"} :
            \/ job' = [job EXCEPT ![j].status = s]
            \/ job' = [job EXCEPT ![j].status = s, ![j].analysis = TRUE]
      BY <2>3 DEF Request, AnswerCached, CreateJob, AddLands, AddFails, AddTimesOut, Accept, Refuse
    <3>2. [job[j] EXCEPT !.status = s] = [job[j] EXCEPT !.status = s, !.analysis = job[j].analysis]
      BY <1>0 DEF JobRecord
    <3>3. CASE job' = [job EXCEPT ![j].status = s]
      <4>1. job' = [job EXCEPT ![j] = [job[j] EXCEPT !.status = s]]
        BY <3>3
      <4> QED BY <2>2, <3>2, <4>1
    <3>4. CASE job' = [job EXCEPT ![j].status = s, ![j].analysis = TRUE]
      <4>1. job' = [job EXCEPT ![j] = [job[j] EXCEPT !.status = s, !.analysis = TRUE]]
        BY <3>4
      <4> QED BY <2>2, <4>1
    <3> QED BY <3>1, <3>3, <3>4
  <2> QED BY <2>1, <2>3
<1>2. k # j => api'[k] = api[k] /\ queue'[k] = queue[k]
  BY DEF TypeOK, Request, AnswerCached, CreateJob, AddLands, AddFails, AddTimesOut, Accept, Refuse
<1>3. \/ api'[j] # "idle" /\ queue'[j] = queue[j]
      \/ api'[j] # "idle" /\ queue[j] # "active" /\ queue'[j] # "ended"
  BY DEF TypeOK, WordInv, OneRunAtATime,
         Request, AnswerCached, CreateJob, AddLands, AddFails, AddTimesOut, Accept, Refuse
<1> QED BY <1>0, <1>1, <1>2, <1>3, WordIsKept, WordIsKeptAsleep

\* A delivery, or a crash, starts or ends a run, and says nothing.
LEMMA DeliveryKeepsTheWord ==
  ASSUME TypeOK, \A k \in Jobs : WordInv(k), LastDelivery, NEW j \in Jobs,
         Deliver(j) \/ \E r \in Run : Crash(j, r), NEW k \in Jobs
  PROVE  WordInv(k)'
<1> USE JobsAssumption
<1>0. /\ UNCHANGED <<job, api, dones>> /\ delivered[j] \in 0..Deliveries
      /\ exec \in [Jobs -> [Run -> Exec]] /\ WordInv(j)
  BY DEF TypeOK, Deliver, Crash
<1>1. CASE k # j
  <2>1. exec'[k] = exec[k] /\ queue'[k] = queue[k] /\ delivered'[k] = delivered[k]
    BY <1>1 DEF TypeOK, Deliver, Crash
  <2> QED BY <1>0, <2>1, WordIsKept
<1>2. Agrees(j)' <=> Agrees(j)
  BY <1>0 DEF Agrees
<1>3. CASE Deliver(j)
  <2> DEFINE r == delivered[j] + 1
  <2>1. /\ r \in Run /\ r # 0 /\ delivered[j] \in Nat
        /\ queue[j] = "waiting" /\ queue'[j] = "active" /\ delivered'[j] = r
        /\ Goto(j, r, "start") /\ api'[j] # "idle"
    BY <1>0, <1>3 DEF Deliver, Goto, TypeOK, WordInv, OneRunAtATime
  <2>2. \A q \in Run : exec[j][q].pc \in {"idle", "gone"}
    BY <2>1 DEF WordInv, OneRunAtATime, Alive
  <2>3. \A q \in Run : exec'[j][q].pc = IF q = r THEN "start" ELSE exec[j][q].pc
    <3>1. PICK e : e = [exec[j][r] EXCEPT !.pc = "start"]
      OBVIOUS
    <3>2. "start" \in ExecPc /\ exec[j][r] \in Exec
      BY <1>0, <2>1 DEF ExecPc
    <3>3. \A q \in Run : exec'[j][q] = IF q = r THEN e ELSE exec[j][q]
      <4> HIDE DEF ExecPc
      <4> QED BY <1>0, <2>1, <3>1, <3>2, GotoMoves
    <3> QED BY <3>1, <3>2, <3>3 DEF Exec
  <2>4. OneRunAtATime(j)'
    BY <2>1, <2>2, <2>3 DEF OneRunAtATime, Alive
  <2>5. RunKnowsItsWord(j)'
    BY <2>2, <2>3 DEF RunKnowsItsWord
  <2>6. WordMayBeLost => NothingToCorrect(j)'
    <3> SUFFICES ASSUME WordMayBeLost PROVE NothingToCorrect(j)'
      OBVIOUS
    <3>1. NothingToCorrect(j) /\ Agrees(j)
      BY <2>2 DEF WordInv, NothingToCorrect
    <3>2. r = 1 => dones'[j] = <<>>
      BY <1>0, <2>1, <3>1 DEF NothingToCorrect
    <3> QED BY <1>2, <2>1, <3>1, <3>2 DEF NothingToCorrect
  <2>7. WordInv(j)'
    BY <2>1, <2>4, <2>5, <2>6 DEF WordInv, WordMayBeLost
  <2> QED BY <1>1, <2>7
<1>4. ASSUME NEW r \in Run, Crash(j, r) PROVE WordInv(j)'
  <2>1. /\ Alive(j, r) /\ r = delivered[j] /\ r < Deliveries /\ Goto(j, r, "gone")
        /\ queue'[j] = "waiting" /\ delivered'[j] = r /\ r # 0 /\ api[j] # "idle"
    BY <1>0, <1>4 DEF Crash, Goto, TypeOK, WordInv, OneRunAtATime
  <2>2. \A q \in Run : exec'[j][q].pc = IF q = r THEN "gone" ELSE exec[j][q].pc
    <3>1. PICK e : e = [exec[j][r] EXCEPT !.pc = "gone"]
      OBVIOUS
    <3>2. "gone" \in ExecPc /\ exec[j][r] \in Exec
      BY <1>0, <2>1 DEF ExecPc
    <3>3. \A q \in Run : exec'[j][q] = IF q = r THEN e ELSE exec[j][q]
      <4> HIDE DEF ExecPc
      <4> QED BY <1>0, <2>1, <3>1, <3>2, GotoMoves
    <3> QED BY <3>1, <3>2, <3>3 DEF Exec
  <2>3. \A q \in Run : exec'[j][q].pc \in {"idle", "gone"}
    BY <1>0, <2>1, <2>2 DEF WordInv, OneRunAtATime, Alive
  <2>4. OneRunAtATime(j)' /\ RunKnowsItsWord(j)'
    BY <1>0, <2>1, <2>3 DEF OneRunAtATime, RunKnowsItsWord, Alive
  <2>5. WordMayBeLost => NothingToCorrect(j)'
    <3> SUFFICES ASSUME WordMayBeLost PROVE NothingToCorrect(j)'
      OBVIOUS
    <3>1. r = 1 /\ NothingToCorrect(j)
      BY <1>0, <2>1 DEF LastDelivery, WordInv
    <3>2. Agrees(j)
      <4>1. CASE exec[j][r].pc \in {"log", "catchLog"}
        BY <2>1, <3>1, <4>1 DEF NothingToCorrect, Agrees
      <4>2. CASE exec[j][r].pc \notin {"log", "catchLog"}
        <5>1. \A q \in Run : exec[j][q].pc \notin {"log", "catchLog"}
          BY <1>0, <2>1, <4>2 DEF WordInv, OneRunAtATime, Alive
        <5> QED BY <3>1, <5>1 DEF NothingToCorrect
      <4> QED BY <4>1, <4>2
    <3> QED BY <1>2, <2>1, <2>3, <3>2 DEF NothingToCorrect, Alive
  <2> QED BY <2>1, <2>4, <2>5 DEF WordInv, WordMayBeLost
<1> QED BY <1>1, <1>3, <1>4

\* A run moves to pc with its knowledge as it is.
LEMMA RunMovesOn ==
  ASSUME TypeOK, \A k \in Jobs : WordInv(k), NEW j \in Jobs, NEW r \in Run, Alive(j, r),
         NEW pc \in ExecPc, Goto(j, r, pc), delivered' = delivered, api' = api,
         \A k \in Jobs : k # j =>
           /\ queue'[k] = queue[k] /\ dones'[k] = dones[k] /\ job'[k] = job[k],
         pc \notin {"idle", "gone"} => queue'[j] = queue[j],
         pc = "log" => job'[j].run = exec[j][r].outcome,
         pc = "catchLog" => job'[j].run = "failed",
         pc \in {"publish", "catchPublish"} => Agrees(j)',
         queue'[j] = "ended" => Agrees(j)',
         WordMayBeLost /\ pc \notin {"log", "catchLog"} => Agrees(j)',
         WordMayBeLost /\ delivered[j] = 1
           /\ pc \notin {"idle", "gone", "publish", "catchPublish"} => dones'[j] = <<>>,
         NEW k \in Jobs
  PROVE  WordInv(k)'
<1>1. /\ \A i \in Jobs : \A q \in Run :
           exec'[i][q] = IF i = j /\ q = r THEN [exec[j][r] EXCEPT !.pc = pc] ELSE exec[i][q]
      /\ exec' \in [Jobs -> [Run -> Exec]] /\ exec \in [Jobs -> [Run -> Exec]]
      /\ exec[j][r] \in Exec /\ delivered[j] \in Nat
  BY JobsAssumption, GotoMoves DEF TypeOK
<1>2. k # j => exec'[k] = exec[k]
  BY <1>1 DEF Goto
<1>3. CASE k # j
  BY <1>2, <1>3, WordIsKept
<1>4. PICK e : e = [exec[j][r] EXCEPT !.pc = pc]
  OBVIOUS
<1>5. e.pc = pc /\ e.outcome = exec[j][r].outcome
  BY <1>1, <1>4 DEF Exec
<1>6. queue[j] = "active" /\ WordInv(j)
  BY DEF WordInv, OneRunAtATime
<1>7. \A q \in Run : exec'[j][q] = IF q = r THEN e ELSE exec[j][q]
  BY <1>1, <1>4
<1>8. WordInv(j)'
  BY <1>1, <1>5, <1>6, <1>7, WordOfTheRun
<1> QED BY <1>3, <1>8

\* A run that learns something before it has anything to record.
LEMMA RunLearns ==
  ASSUME TypeOK, \A k \in Jobs : WordInv(k), NEW j \in Jobs, NEW r \in Run,
         exec[j][r].pc \in {"start", "lookup", "run"}, NEW e,
         exec' = [exec EXCEPT ![j][r] = e],
         e.pc \in {"run", "record", "save"},
         UNCHANGED <<job, front, dones>>,
         NEW k \in Jobs
  PROVE  WordInv(k)'
<1>1. /\ \A q \in Run : exec'[j][q] = IF q = r THEN e ELSE exec[j][q]
      /\ k # j => exec'[k] = exec[k]
      /\ delivered[j] \in Nat
  BY JobsAssumption DEF TypeOK
<1>2. Alive(j, r) /\ UNCHANGED <<job, api, queue, delivered, dones>>
  BY DEF Alive, front
<1>3. CASE k # j
  BY <1>1, <1>2, <1>3, WordIsKept
<1>4. queue[j] = "active" /\ WordInv(j) /\ (Agrees(j)' <=> Agrees(j)) /\ r = delivered[j]
  BY <1>2 DEF WordInv, OneRunAtATime, Agrees
<1>5. WordMayBeLost => Agrees(j) /\ (delivered[j] = 1 => dones[j] = <<>>)
  <2> SUFFICES ASSUME WordMayBeLost PROVE Agrees(j) /\ (delivered[j] = 1 => dones[j] = <<>>)
    OBVIOUS
  <2>1. \A q \in Run : exec[j][q].pc \notin {"log", "catchLog"}
    BY <1>4 DEF WordInv, OneRunAtATime, Alive
  <2> QED BY <1>2, <1>4, <2>1 DEF WordInv, NothingToCorrect
<1>6. WordInv(j)'
  BY <1>1, <1>2, <1>4, <1>5, WordOfTheRun
<1> QED BY <1>3, <1>6

\* Each step of a run keeps what was said in agreement with the record.
LEMMA RunKeepsTheWord ==
  ASSUME TypeOK, \A k \in Jobs : WordInv(k), LastDelivery,
         NEW j \in Jobs, NEW r \in Run, RunAnalysisJob(j, r), NEW k \in Jobs
  PROVE  WordInv(k)'
<1> DEFINE x == exec[j][r]
<1>1. /\ x \in Exec /\ job[j] \in JobRecord /\ dones[j] \in Seq(RunStatus) /\ WordInv(j)
      /\ exec \in [Jobs -> [Run -> Exec]]
  BY DEF TypeOK
<1>2. Alive(j, r) /\ UNCHANGED <<api, delivered>>
  BY DEF Alive, RunAnalysisJob, Start, Lookup, LookupFails, FullHit, PipelineEnds, Save,
         Record, LogDone, PublishDone, Catch, CatchLog, CatchPublish, front
<1>3. queue[j] = "active" /\ r = delivered[j]
  BY <1>1, <1>2 DEF WordInv, OneRunAtATime
\* What is known where the run stands.
<1>4. /\ x.pc = "log" => job[j].run = x.outcome
      /\ x.pc = "catchLog" => job[j].run = "failed"
      /\ x.pc \in {"publish", "catchPublish"} => Agrees(j)
  BY <1>1 DEF WordInv, RunKnowsItsWord
<1>5. WordMayBeLost =>
        /\ x.pc \notin {"log", "catchLog"} => Agrees(j)
        /\ delivered[j] = 1 /\ x.pc \notin {"publish", "catchPublish"} => dones[j] = <<>>
  <2> SUFFICES ASSUME WordMayBeLost
               PROVE  /\ x.pc \notin {"log", "catchLog"} => Agrees(j)
                      /\ delivered[j] = 1 /\ x.pc \notin {"publish", "catchPublish"} => dones[j] = <<>>
    OBVIOUS
  <2>1. NothingToCorrect(j)
    BY <1>1 DEF WordInv
  <2>2. x.pc \notin {"log", "catchLog"} => \A q \in Run : exec[j][q].pc \notin {"log", "catchLog"}
    BY <1>1, <1>3 DEF WordInv, OneRunAtATime, Alive
  <2> QED BY <1>2, <2>1, <2>2 DEF NothingToCorrect
<1>6. ASSUME job'[j].run = job[j].run, dones' = dones PROVE Agrees(j)' <=> Agrees(j)
  BY <1>6 DEF Agrees
\* The run ends where the record agrees.
<1>7. ASSUME Leave(j, r), UNCHANGED <<job, dones>>, Agrees(j) PROVE WordInv(k)'
  <2>1. Goto(j, r, "gone") /\ Agrees(j)'
    BY <1>6, <1>7 DEF Leave
  <2>2. \A i \in Jobs : i # j => queue'[i] = queue[i]
    BY <1>7 DEF Leave, TypeOK
  <2> QED BY <1>2, <1>7, <2>1, <2>2, RunMovesOn DEF ExecPc
\* The run goes on to a place that asks for nothing but what is known already.
<1>8. ASSUME NEW pc \in {"lookup", "record", "catch"}, Goto(j, r, pc),
             job'[j].run = job[j].run, \A i \in Jobs : i # j => job'[i] = job[i],
             UNCHANGED <<dones, queue>>,
             x.pc \notin {"log", "catchLog", "catchPublish"},
             WordMayBeLost => x.pc # "publish"
      PROVE  WordInv(k)'
  <2>1. pc \in ExecPc
    BY DEF ExecPc
  <2>2. Agrees(j)' <=> Agrees(j)
    BY <1>6, <1>8
  <2> QED BY <1>2, <1>3, <1>5, <1>8, <2>1, <2>2, RunMovesOn
<1>9. CASE Start(j, r)
  <2>1. x.pc = "start" /\ UNCHANGED <<store, api, delivered, dones>>
    BY <1>9 DEF Start
  <2>2. CASE job' = [job EXCEPT ![j].status = "cloning"] /\ Goto(j, r, "lookup") /\ UNCHANGED queue
    <3>1. job'[j].run = job[j].run /\ \A i \in Jobs : i # j => job'[i] = job[i]
      BY <1>1, <2>2 DEF TypeOK, JobRecord
    <3> QED BY <1>8, <2>1, <2>2, <3>1
  <2>3. CASE "update" \in Faults /\ Leave(j, r) /\ UNCHANGED job
    BY <1>5, <1>7, <2>1, <2>3 DEF WordMayBeLost
  <2> QED BY <1>9, <2>2, <2>3 DEF Start
<1>10. CASE Lookup(j, r)
  <2> DEFINE e == [x EXCEPT !.pc = "run", !.base = store]
  <2>1. e.pc = "run" /\ exec' = [exec EXCEPT ![j][r] = e]
    BY <1>1, <1>10 DEF Lookup, Exec
  <2>2. x.pc = "lookup" /\ UNCHANGED <<job, front, dones>>
    BY <1>10 DEF Lookup
  <2> HIDE DEF e
  <2> QED BY <2>1, <2>2, RunLearns
<1>11. CASE LookupFails(j, r)
  <2>1. x.pc = "lookup" /\ UNCHANGED <<job, front, dones>> /\ UNCHANGED queue
    BY <1>11 DEF LookupFails, front
  <2>2. CASE exec' = [exec EXCEPT ![j][r].pc = "record", ![j][r].outcome = "failed"]
    <3> DEFINE e == [x EXCEPT !.pc = "record", !.outcome = "failed"]
    <3>1. e.pc = "record" /\ exec' = [exec EXCEPT ![j][r] = e]
      BY <1>1, <2>2 DEF Exec
    <3> HIDE DEF e
    <3> QED BY <2>1, <3>1, RunLearns
  <2>3. CASE Goto(j, r, "catch")
    BY <1>8, <2>1, <2>3
  <2> QED BY <1>11, <2>2, <2>3 DEF LookupFails
<1>12. CASE FullHit(j, r)
  <2> DEFINE e == [x EXCEPT !.pc = "record", !.outcome = "completed", !.cached = TRUE]
  <2>1. e.pc = "record" /\ exec' = [exec EXCEPT ![j][r] = e]
    BY <1>1, <1>12 DEF FullHit, Exec
  <2>2. x.pc = "run" /\ UNCHANGED <<job, front, dones>>
    BY <1>12 DEF FullHit
  <2> HIDE DEF e
  <2> QED BY <2>1, <2>2, RunLearns
<1>13. CASE PipelineEnds(j, r)
  <2>1. PICK outcome \in {"completed", "partial", "failed"} :
          exec' = [exec EXCEPT
            ![j][r].pc = IF outcome = "failed" THEN "record" ELSE "save",
            ![j][r].outcome = outcome]
    BY <1>13 DEF PipelineEnds
  <2>2. PICK pc \in {"record", "save"} : pc = IF outcome = "failed" THEN "record" ELSE "save"
    OBVIOUS
  <2> DEFINE e == [x EXCEPT !.pc = pc, !.outcome = outcome]
  <2>3. e.pc = pc /\ exec' = [exec EXCEPT ![j][r] = e]
    BY <1>1, <2>1, <2>2 DEF Exec
  <2>4. x.pc = "run" /\ UNCHANGED <<job, front, dones>>
    BY <1>13 DEF PipelineEnds
  <2> HIDE DEF e
  <2> QED BY <2>2, <2>3, <2>4, RunLearns
<1>14. CASE Save(j, r)
  <2>1. x.pc = "save" /\ UNCHANGED <<job, front, dones>> /\ UNCHANGED queue
    BY <1>14 DEF Save, front
  <2> QED BY <1>8, <1>14, <2>1 DEF Save
<1>15. CASE Record(j, r)
  <2>1. x.pc = "record" /\ UNCHANGED <<front, dones>> /\ UNCHANGED queue
    BY <1>15 DEF Record, front
  <2>2. CASE Goto(j, r, "catch") /\ UNCHANGED job
    BY <1>8, <2>1, <2>2
  <2>3. CASE ~(Goto(j, r, "catch") /\ UNCHANGED job)
    <3>1. /\ Goto(j, r, "log") /\ job'[j].run = x.outcome
          /\ \A i \in Jobs : i # j => job'[i] = job[i]
      BY <1>15, <2>3 DEF Record, TypeOK
    <3>2. WordMayBeLost => (delivered[j] = 1 => dones'[j] = <<>>)
      BY <1>5, <2>1
    <3> QED BY <1>2, <1>3, <2>1, <3>1, <3>2, RunMovesOn DEF ExecPc
  <2> QED BY <2>2, <2>3
\* A message is appended that says what the record says, or the log loses it.
<1>16. ASSUME NEW w \in RunStatus, append(j, w), job[j].run = w,
              UNCHANGED <<job, queue>>, NEW pc \in {"publish", "catchPublish"}, Goto(j, r, pc)
       PROVE  WordInv(k)'
  <2>0. PICK kept \in {"none", w} : dones' = [dones EXCEPT ![j] = Append(@, kept)]
    BY <1>16 DEF append
  <2>1. dones'[j] = Append(dones[j], kept) /\ \A i \in Jobs : i # j => dones'[i] = dones[i]
    BY <2>0 DEF TypeOK
  <2>2. Agrees(j)'
    <3>1. kept \in RunStatus
      BY <1>16 DEF RunStatus
    <3> QED BY <1>1, <1>16, <2>1, <3>1, LastOfAppend DEF Agrees
  <2>3. pc \in ExecPc
    BY DEF ExecPc
  <2> QED BY <1>2, <1>3, <1>16, <2>1, <2>2, <2>3, RunMovesOn
<1>17. CASE LogDone(j, r)
  <2>1. /\ x.pc = "log" /\ append(j, x.outcome)
        /\ Goto(j, r, "publish") /\ UNCHANGED <<job, queue>>
    BY <1>17 DEF LogDone, front
  <2>2. x.outcome \in RunStatus
    BY <1>1 DEF Exec
  <2> QED BY <1>4, <1>16, <2>1, <2>2
<1>18. CASE CatchLog(j, r)
  <2>1. /\ x.pc = "catchLog" /\ append(j, "failed")
        /\ Goto(j, r, "catchPublish") /\ UNCHANGED <<job, queue>>
    BY <1>18 DEF CatchLog, front
  <2>2. "failed" \in RunStatus
    BY DEF RunStatus
  <2> QED BY <1>4, <1>16, <2>1, <2>2
<1>19. CASE PublishDone(j, r)
  <2>1. x.pc = "publish" /\ UNCHANGED <<job, dones>>
    BY <1>19 DEF PublishDone
  <2>2. CASE Leave(j, r)
    BY <1>4, <1>7, <2>1, <2>2
  <2>3. CASE "publish" \in Faults /\ Goto(j, r, "catch") /\ UNCHANGED queue
    <3>1. ~WordMayBeLost
      BY <2>3 DEF LastDelivery
    <3> QED BY <1>8, <2>1, <2>3, <3>1
  <2> QED BY <1>19, <2>2, <2>3 DEF PublishDone
<1>20. CASE Catch(j, r)
  <2>1. x.pc = "catch" /\ UNCHANGED dones
    BY <1>20 DEF Catch
  <2>2. CASE job' = [job EXCEPT ![j].status = "failed", ![j].run = "failed"]
             /\ Goto(j, r, "catchLog") /\ UNCHANGED queue
    <3>1. job'[j].run = "failed" /\ \A i \in Jobs : i # j => job'[i] = job[i]
      BY <1>1, <2>2 DEF TypeOK, JobRecord
    <3>2. WordMayBeLost => (delivered[j] = 1 => dones'[j] = <<>>)
      BY <1>5, <2>1
    <3> QED BY <1>2, <1>3, <2>1, <2>2, <3>1, <3>2, RunMovesOn DEF ExecPc
  <2>3. CASE "update" \in Faults /\ Leave(j, r) /\ UNCHANGED job
    BY <1>5, <1>7, <2>1, <2>3 DEF WordMayBeLost
  <2> QED BY <1>20, <2>2, <2>3 DEF Catch
<1>21. CASE CatchPublish(j, r)
  <2>1. x.pc = "catchPublish" /\ Leave(j, r) /\ UNCHANGED <<job, dones>>
    BY <1>21 DEF CatchPublish
  <2> QED BY <1>4, <1>7, <2>1
<1> QED BY <1>9, <1>10, <1>11, <1>12, <1>13, <1>14, <1>15, <1>17, <1>18, <1>19, <1>20, <1>21
        DEF RunAnalysisJob

\* When the queue is done with a job, its record says what was last said of it,
\* unless the log has lost that message.  A run that is stalled but not dead may
\* still speak after the next one, and a worker killed between the record and
\* its `done` leaves the next delivery to say it again, which it cannot when its
\* own first update is refused; so either no update of the record is refused, or
\* the queue hands a job out twice at most, as BullMQ does by default, and Redis
\* takes every publish.
THEOREM LastWordHolds ==
  ASSUME ~Overlap, "update" \notin Faults \/ (Deliveries <= 2 /\ "publish" \notin Faults)
  PROVE  Spec => []LastWordAgrees
<1> DEFINE Words == \A k \in Jobs : WordInv(k)
<1>1. Init => TypeOK /\ StoreInv
  BY RecordsInit
<1>2. Init => Words
  BY DEF Init, WordInv, OneRunAtATime, RunKnowsItsWord, NothingToCorrect, Agrees, Alive
<1>3. LastDelivery
  BY DEF LastDelivery, WordMayBeLost
<1>4. TypeOK /\ StoreInv /\ [Next]_vars => TypeOK' /\ StoreInv'
  BY StoreStep
<1>5. TypeOK /\ Words /\ [Next]_vars => Words'
  <2> SUFFICES ASSUME TypeOK, Words, [Next]_vars, NEW k \in Jobs PROVE WordInv(k)'
    OBVIOUS
  <2>1. CASE UNCHANGED vars
    BY <2>1, WordIsKept DEF vars
  <2>2. CASE Next
    <3>1. PICK j \in Jobs :
            \/ Request(j) \/ Deliver(j)
            \/ \E r \in Run : Crash(j, r) \/ Stall(j, r) \/ RunAnalysisJob(j, r)
      BY <2>2 DEF Next
    <3> QED BY <1>3, <3>1, RequestKeepsTheWord, DeliveryKeepsTheWord, RunKeepsTheWord DEF Stall
  <2> QED BY <2>1, <2>2
<1>6. Words => LastWordAgrees
  BY DEF WordInv, LastWordAgrees, Agrees
<1> QED BY <1>1, <1>2, <1>4, <1>5, <1>6, PTL DEF Spec
=============================================================================
