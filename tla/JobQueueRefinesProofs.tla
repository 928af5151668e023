------------------------ MODULE JobQueueRefinesProofs ------------------------
(***************************************************************************)
(* JobQueue implements JobLifecycle as long as nobody deletes jobs and no   *)
(* removal of a file fails: competing workers, failing writes, crashes,     *)
(* stops and expiry are all in.                                            *)
(***************************************************************************)
EXTENDS JobQueueProofs, JobQueueRefines

Undeleted == "remove" \notin Faults /\ "delete" \notin Ops

-----------------------------------------------------------------------------
(* What is known of removed jobs when they have all expired *)

\* Only the cleanup removes, and what it removes has its verdict.
LEMMA ExpiredStep ==
  ASSUME Undeleted, [Next]_vars,
         TypeOK, Allocated, Claimed, Judged, Kept, Expired
  PROVE  Expired'
<1> USE DEF Expired, Moving, Holding, Settled
<1>0. /\ FilesTyped /\ WorkersTyped /\ CleanersTyped /\ HandlersTyped
      /\ FilesAccepted /\ WorkersAccepted
  BY DEF TypeOK, Allocated
<1>1. ASSUME NEW h \in Handlers, HandlerStep(h) PROVE Expired'
  <2>1. \A g \in Handlers : hop'[g] # "delete"
    BY <1>1, <1>0
    DEF Undeleted, HandlersTyped, HandlerStep, HandlerGoesOn, Request, StampJob,
        WriteJob, ScanDir, ReadJob, ReadLog, DeleteFile, DeleteLog, ListDir,
        ListEntry, ListNextDir, Reply
  <2>2. UNCHANGED <<wpc, wjob, removed>>
    BY <1>1
    DEF HandlerOnly, workerVars, HandlerStep, HandlerGoesOn, Request, StampJob,
        WriteJob, ScanDir, ReadJob, ReadLog, DeleteFile, DeleteLog, ListDir,
        ListEntry, ListNextDir, Reply
  <2>3. CASE WriteJob(h)
    BY <1>0, <2>1, <2>2, <2>3
    DEF WriteJob, Put, FilesTyped, Status, FilesAccepted, Allocated, WritersFresh
  <2>4. CASE ~WriteJob(h)
    <3>1. dir' = dir
      BY <1>1, <2>4
      DEF HandlerStep, HandlerGoesOn, Request, StampJob, ScanDir, ReadJob,
          ReadLog, DeleteFile, DeleteLog, ListDir, ListEntry, ListNextDir, Reply
    <3> QED BY <2>1, <2>2, <3>1
  <2> QED BY <2>3, <2>4
<1>2. ASSUME NEW w \in Daemons, WorkerStep(w) PROVE Expired'
  <2> USE <1>0 DEF FilesTyped, WorkersTyped, WorkersAccepted, GoTo, Judged, Claimed,
                   Undeleted, Kept
  <2>0. /\ \A v \in Daemons \ {w} : wpc'[v] = wpc[v] /\ wjob'[v] = wjob[v]
        /\ UNCHANGED <<hop, removed>>
    BY <1>2, OtherWorkers
  <2>1. CASE Tick(w)
    BY <2>0, <2>1 DEF Tick
  <2>2. CASE DrainStop(w)
    BY <2>0, <2>2 DEF DrainStop
  <2>3. CASE ReadPendingDir(w)
    BY <2>0, <2>3 DEF ReadPendingDir
  <2>4. CASE OpenNextEntry(w)
    BY <2>0, <2>4 DEF OpenNextEntry, Rest
  <2>5. CASE NoMoreEntries(w)
    BY <2>0, <2>5 DEF NoMoreEntries, Forget, Rest
  <2>6. CASE Flock(w)
    BY <2>0, <2>6 DEF Flock, LockFree
  <2>7. CASE StatPending(w)
    BY <2>0, <2>7 DEF StatPending
  <2>8. CASE ReadPending(w)
    BY <2>0, <2>8 DEF ReadPending, Forget
  <2>9. CASE ClaimWrite(w)
    BY <2>0, <2>9 DEF ClaimWrite, MoveWrite, Forget, Put, Status
  <2>10. CASE ClaimRemove(w)
    BY <2>0, <2>10 DEF ClaimRemove, Unlinked, Drop, Status, Claiming
  <2>11. CASE LoadFlow(w)
    BY <2>0, <2>11 DEF LoadFlow
  <2>12. CASE CreateLog(w)
    BY <2>0, <2>12 DEF CreateLog
  <2>13. CASE EngineReturns(w)
    BY <2>0, <2>13 DEF EngineReturns
  <2>14. CASE MarkWrite(w)
    BY <2>0, <2>14 DEF MarkWrite, MoveWrite, Forget, Put, Status
  <2>15. CASE MarkRemove(w)
    BY <2>0, <2>15 DEF MarkRemove, Forget, Unlinked, Drop, Status
  <2> QED
    BY <1>2, <2>1, <2>2, <2>3, <2>4, <2>5, <2>6, <2>7, <2>8, <2>9, <2>10,
       <2>11, <2>12, <2>13, <2>14, <2>15
    DEF WorkerStep, WorkerGoesOn
<1>3. ASSUME NEW d \in Daemons, CleanerStep(d) PROVE Expired'
  <2>1. UNCHANGED <<wpc, wjob, hop>>
    BY <1>3
    DEF CleanerOnly, workerVars, handlerVars, CleanerStep, CleanerGoesOn, CleanStart,
        CleanList, CleanEntry, CleanRemove, CleanLog, CleanNext
  <2>2. CASE CleanRemove(d)
    BY <1>0, <2>1, <2>2
    DEF CleanRemove, Drop, FilesTyped, CleanersTyped, Status, Judged, OneVerdict
  <2>3. CASE ~CleanRemove(d)
    <3>1. UNCHANGED <<dir, removed>>
      BY <1>3, <2>3
      DEF CleanerStep, CleanerGoesOn, CleanStart, CleanList, CleanEntry,
          CleanLog, CleanNext
    <3> QED BY <2>1, <3>1
  <2> QED BY <2>2, <2>3
<1>4. ASSUME NEW d \in Daemons, DaemonStep(d) PROVE Expired'
  BY <1>0, <1>4
  DEF DaemonStep, Stop, Exit, Start, Crash, DaemonOnly, Forget, GoTo, workerVars,
      handlerVars, HandlersTyped, WorkersTyped
<1>5. CASE UNCHANGED vars
  BY <1>5 DEF vars, workerVars, handlerVars
<1> QED BY <1>1, <1>2, <1>3, <1>4, <1>5 DEF Next
-----------------------------------------------------------------------------
(* The mapping *)

\* Worker w runs job j in the sense of JobLifecycle.
RunsJob(w, j) == wjob[w] = j /\ wpc[w] \in Holding \ {"unmark"}

\* What the mapping says, case by case.
StatusIs ==
  /\ AbstractStatus = [j \in Jobs |-> AbstractStatus[j]]
  /\ \A j \in Jobs :
       /\ j \in dir["done"] => AbstractStatus[j] = "done"
       /\ j \in dir["failed"] \ dir["done"] => AbstractStatus[j] = "failed"
       /\ j \in removed \ Settled => AbstractStatus[j] = "expired"
       /\ j \in dir["pending"] \ (Settled \union removed) => AbstractStatus[j] = "pending"
       /\ j \in dir["running"] \ (Settled \union removed \union dir["pending"])
            => AbstractStatus[j] = "running"
       /\ j \notin Settled \union removed \union dir["pending"] \union dir["running"]
            => AbstractStatus[j] = "none"
RunnerIs ==
  /\ AbstractRunner \in [Jobs -> Daemons \union {0}]
  /\ \A j \in Jobs, w \in Daemons : AbstractRunner[j] = w <=> RunsJob(w, j)

LEMMA StatusMapped == StatusIs
<1>1. AbstractStatus = [j \in Jobs |-> AbstractStatus[j]]
  BY DEF AbstractStatus
<1> QED BY <1>1 DEF StatusIs, AbstractStatus, Settled

LEMMA RunnerMapped == ExclusiveExecution => RunnerIs
<1> SUFFICES ASSUME ExclusiveExecution PROVE RunnerIs
  OBVIOUS
<1>1. ASSUME NEW j \in Jobs
      PROVE  /\ AbstractRunner[j] \in Daemons \union {0}
             /\ \A w \in Daemons : AbstractRunner[j] = w <=> RunsJob(w, j)
  <2>1. AbstractRunner[j] = IF \E w \in Daemons : RunsJob(w, j)
                            THEN CHOOSE w \in Daemons : RunsJob(w, j) ELSE 0
    BY DEF AbstractRunner, RunsJob
  <2>2. CASE \E w \in Daemons : RunsJob(w, j)
    <3>1. /\ AbstractRunner[j] \in Daemons
          /\ RunsJob(AbstractRunner[j], j)
      BY <2>1, <2>2
    <3>2. \A v, w \in Daemons : RunsJob(v, j) /\ RunsJob(w, j) => v = w
      BY DEF RunsJob, ExclusiveExecution
    <3> QED BY <3>1, <3>2
  <2>3. CASE ~\E w \in Daemons : RunsJob(w, j)
    BY <2>1, <2>3, NobodyAssumption
  <2> QED BY <2>2, <2>3
<1>2. AbstractRunner = [j \in Jobs |-> AbstractRunner[j]]
  BY DEF AbstractRunner
<1> QED BY <1>1, <1>2 DEF RunnerIs

\* A step that leaves the files and the runners alone is a stutter.
LEMMA Stutter ==
  ASSUME RunnerIs, RunnerIs', UNCHANGED <<dir, removed>>,
         \A w \in Daemons, j \in Jobs : RunsJob(w, j)' <=> RunsJob(w, j)
  PROVE  UNCHANGED Lifecycle!vars
<1>1. AbstractStatus' = AbstractStatus
  BY DEF AbstractStatus
<1>2. AbstractRunner' = AbstractRunner
  BY NobodyAssumption DEF RunnerIs
<1> QED BY <1>1, <1>2 DEF Lifecycle!vars

\* A step that changes what the files say of one job at most changes its
\* status at most.
LEMMA OneStatus ==
  ASSUME NEW j \in Jobs,
         \A k \in Jobs \ {j} :
           /\ \A s \in Status : k \in dir'[s] <=> k \in dir[s]
           /\ k \in removed' <=> k \in removed
  PROVE  AbstractStatus' = [AbstractStatus EXCEPT ![j] = AbstractStatus'[j]]
<1>1. ASSUME NEW k \in Jobs \ {j} PROVE AbstractStatus'[k] = AbstractStatus[k]
  <2>1. \A s \in Status : k \in dir'[s] <=> k \in dir[s]
    BY <1>1
  <2>2. k \in removed' <=> k \in removed
    BY <1>1
  <2> QED BY <1>1, <2>1, <2>2 DEF AbstractStatus, Status
<1>2. /\ AbstractStatus = [k \in Jobs |-> AbstractStatus[k]]
      /\ AbstractStatus' = [k \in Jobs |-> AbstractStatus'[k]]
  BY DEF AbstractStatus
<1> QED BY <1>1, <1>2

\* So it is with the worker that runs it.
LEMMA OneRunner ==
  ASSUME RunnerIs, RunnerIs', NEW j \in Jobs,
         \A k \in Jobs \ {j}, w \in Daemons : RunsJob(w, k)' <=> RunsJob(w, k)
  PROVE  AbstractRunner' = [AbstractRunner EXCEPT ![j] = AbstractRunner'[j]]
  BY NobodyAssumption DEF RunnerIs

-----------------------------------------------------------------------------
(* The steps *)

\* A step of a request accepts a job or none.
LEMMA HandlerMapped ==
  ASSUME TypeOK, Allocated, Expired, StatusIs, StatusIs', RunnerIs, RunnerIs',
         NEW h \in Handlers, HandlerStep(h)
  PROVE  [Lifecycle!Next]_(Lifecycle!vars)
<1>0. FilesTyped /\ FilesAccepted /\ WritersFresh
  BY DEF TypeOK, Allocated
<1>1. UNCHANGED <<wpc, wjob, removed>>
  BY DEF HandlerOnly, workerVars, HandlerStep, HandlerGoesOn, Request, StampJob,
         WriteJob, ScanDir, ReadJob, ReadLog, DeleteFile, DeleteLog, ListDir,
         ListEntry, ListNextDir, Reply, Expired
<1>2. \A w \in Daemons, j \in Jobs : RunsJob(w, j)' <=> RunsJob(w, j)
  BY <1>1 DEF RunsJob
<1>3. CASE dir' = dir
  BY <1>1, <1>2, <1>3, Stutter
<1>4. CASE dir' # dir
  <2>1. WriteJob(h) /\ dir' = Put("pending", hjob[h])
    BY <1>4
    DEF Expired, WriteJob, HandlerStep, HandlerGoesOn, Request, StampJob, ScanDir,
        ReadJob, ReadLog, DeleteFile, DeleteLog, ListDir, ListEntry, ListNextDir,
        Reply
  <2> DEFINE j == hjob[h]
  <2>2. j \in Jobs /\ j \notin accepted
    BY <1>0, <2>1 DEF WritersFresh, WriteJob
  <2>3. AbstractStatus' = [AbstractStatus EXCEPT ![j] = AbstractStatus'[j]]
    BY <1>0, <1>1, <2>1, <2>2, OneStatus DEF Put, FilesTyped, Status
  <2>4. AbstractStatus[j] = "none"
    BY <1>0, <2>2 DEF StatusIs, FilesAccepted, Status, Settled
  <2>5. AbstractStatus'[j] = "pending"
    BY <1>0, <1>1, <2>1, <2>2 DEF StatusIs, FilesAccepted, FilesTyped, Status, Settled, Put
  <2>6. AbstractRunner' = AbstractRunner
    BY <1>2, NobodyAssumption DEF RunnerIs
  <2>7. Lifecycle!Accept(j)
    BY <2>3, <2>4, <2>5, <2>6 DEF Lifecycle!Accept
  <2> QED BY <2>2, <2>7 DEF Lifecycle!Next
<1> QED BY <1>3, <1>4

\* A step of the cleanup expires a job or none.
LEMMA CleanerMapped ==
  ASSUME TypeOK, Judged, Expired, StatusIs, StatusIs', RunnerIs, RunnerIs',
         NEW d \in Daemons, CleanerStep(d)
  PROVE  [Lifecycle!Next]_(Lifecycle!vars)
<1>0. FilesTyped /\ CleanersTyped
  BY DEF TypeOK
<1>1. UNCHANGED <<wpc, wjob>>
  BY DEF CleanerOnly, workerVars, CleanerStep, CleanerGoesOn, CleanStart, CleanList,
         CleanEntry, CleanRemove, CleanLog, CleanNext
<1>2. \A w \in Daemons, j \in Jobs : RunsJob(w, j)' <=> RunsJob(w, j)
  BY <1>1 DEF RunsJob
<1>3. CASE UNCHANGED <<dir, removed>>
  BY <1>2, <1>3, Stutter
<1>4. CASE ~UNCHANGED <<dir, removed>>
  <2> DEFINE j == cjob[d]
  <2>1. /\ j \in dir[cdir[d]] /\ dir' = Drop(cdir[d], j)
        /\ removed' = removed \union {j}
    BY <1>4
    DEF CleanerStep, CleanerGoesOn, CleanStart, CleanList, CleanEntry, CleanRemove,
        CleanLog, CleanNext
  <2>2. cdir[d] \in {"done", "failed"} /\ j \in Jobs
    BY <1>0, <2>1 DEF CleanersTyped, FilesTyped, Status
  <2>3. AbstractStatus' = [AbstractStatus EXCEPT ![j] = AbstractStatus'[j]]
    BY <1>0, <2>1, <2>2, OneStatus DEF Drop, FilesTyped, Status
  <2>4. AbstractStatus[j] \in {"done", "failed"}
    BY <2>1, <2>2 DEF StatusIs
  <2>5. AbstractStatus'[j] = "expired"
    BY <1>0, <2>1, <2>2 DEF StatusIs, FilesTyped, Status, Settled, Drop, Judged, OneVerdict
  <2>6. AbstractRunner' = AbstractRunner
    BY <1>2, NobodyAssumption DEF RunnerIs
  <2>7. Lifecycle!Expire(j)
    BY <2>3, <2>4, <2>5, <2>6 DEF Lifecycle!Expire
  <2> QED BY <2>2, <2>7 DEF Lifecycle!Next
<1> QED BY <1>3, <1>4

\* A daemon that dies leaves the job of its worker to nobody.
LEMMA DaemonMapped ==
  ASSUME TypeOK, StatusIs, StatusIs', RunnerIs, RunnerIs',
         NEW d \in Daemons, DaemonStep(d)
  PROVE  [Lifecycle!Next]_(Lifecycle!vars)
<1>0. WorkersTyped
  BY DEF TypeOK
<1>1. UNCHANGED <<dir, removed>>
  BY DEF DaemonStep, Stop, Exit, Crash, Start, DaemonOnly
<1>2. CASE UNCHANGED <<wpc, wjob>>
  BY <1>1, <1>2, Stutter DEF RunsJob
<1>3. CASE Crash(d)
  <2>1. \A w \in Daemons, j \in Jobs :
          RunsJob(w, j)' <=> w # d /\ RunsJob(w, j)
    BY <1>0, <1>3 DEF Crash, Forget, GoTo, RunsJob, WorkersTyped, Holding
  <2>2. CASE \A j \in Jobs : ~RunsJob(d, j)
    BY <1>1, <2>1, <2>2, Stutter
  <2>3. ASSUME NEW j \in Jobs, RunsJob(d, j)
        PROVE  Lifecycle!Orphan(d, j)
    <3>1. AbstractStatus' = AbstractStatus
      BY <1>1 DEF AbstractStatus
    <3>2. AbstractRunner' = [AbstractRunner EXCEPT ![j] = AbstractRunner'[j]]
      BY <2>1, <2>3, OneRunner DEF RunsJob
    <3>3. AbstractRunner[j] = d /\ AbstractRunner'[j] = 0
      BY <2>1, <2>3 DEF RunnerIs
    <3> QED BY <3>1, <3>2, <3>3 DEF Lifecycle!Orphan
  <2> QED BY <2>2, <2>3 DEF Lifecycle!Next
<1> QED BY <1>2, <1>3 DEF DaemonStep, Stop, Exit, Start, workerVars

\* A step of a worker claims a job, gives it its verdict, leaves it to nobody
\* when the verdict cannot be written, or is none in the life of a job.
LEMMA WorkerMapped ==
  ASSUME Undeleted, TypeOK, Allocated, Claimed, Judged, Kept, Expired, Judged',
         StatusIs, StatusIs', RunnerIs, RunnerIs',
         NEW w \in Daemons, WorkerStep(w)
  PROVE  [Lifecycle!Next]_(Lifecycle!vars)
<1> DEFINE j == wjob[w]
<1>0. FilesTyped /\ WorkersTyped /\ FilesAccepted /\ WorkersAccepted
  BY DEF TypeOK, Allocated
<1> USE <1>0 DEF FilesTyped, WorkersTyped
<1>1. /\ \A v \in Daemons \ {w} : wpc'[v] = wpc[v] /\ wjob'[v] = wjob[v]
      /\ removed' = removed
  BY OtherWorkers
<1>2. ASSUME UNCHANGED dir, \A k \in Jobs : RunsJob(w, k)' <=> RunsJob(w, k)
      PROVE  UNCHANGED Lifecycle!vars
  <2>1. \A v \in Daemons, k \in Jobs : RunsJob(v, k)' <=> RunsJob(v, k)
    BY <1>1, <1>2 DEF RunsJob
  <2> QED BY <1>1, <1>2, <2>1, Stutter
<1>3. ASSUME \/ Tick(w) \/ DrainStop(w) \/ ReadPendingDir(w) \/ OpenNextEntry(w)
             \/ NoMoreEntries(w) \/ Flock(w) \/ StatPending(w) \/ ReadPending(w)
             \/ LoadFlow(w) \/ CreateLog(w) \/ EngineReturns(w)
      PROVE  UNCHANGED dir /\ \A k \in Jobs : RunsJob(w, k)' <=> RunsJob(w, k)
  BY <1>3
  DEF RunsJob, Holding, GoTo, Forget, Tick, DrainStop, ReadPendingDir, OpenNextEntry,
      NoMoreEntries, Flock, StatPending, ReadPending, LoadFlow, CreateLog,
      EngineReturns
<1>4. CASE ClaimWrite(w)
  <2>1. \A v \in Daemons, k \in Jobs : RunsJob(v, k)' <=> RunsJob(v, k)
    BY <1>1, <1>4 DEF ClaimWrite, MoveWrite, RunsJob, Holding, GoTo, Forget
  <2>2. CASE UNCHANGED dir
    BY <1>1, <2>1, <2>2, Stutter
  <2>3. CASE dir' = Put("running", j)
    <3>1. j \in dir["pending"]
      BY <1>4 DEF Expired, Moving, ClaimWrite, MoveWrite
    <3>2. AbstractStatus' = AbstractStatus
      BY <1>1, <2>3, <3>1 DEF Put, Status, AbstractStatus
    <3>3. AbstractRunner' = AbstractRunner
      BY <2>1, NobodyAssumption DEF RunnerIs
    <3> QED BY <3>2, <3>3 DEF Lifecycle!vars
  <2> QED BY <1>4, <2>2, <2>3 DEF ClaimWrite, MoveWrite
<1>5. CASE ClaimRemove(w)
  <2>1. /\ wpc[w] = "unlink" /\ wpc'[w] = "load" /\ wjob' = wjob
        /\ dir' = Drop("pending", j)
    BY <1>5 DEF ClaimRemove, Unlinked, GoTo, Undeleted
  <2>2. j \in dir["pending"] /\ j \in dir["running"] /\ j \notin Settled \union removed
    BY <2>1 DEF Expired, Kept, Judged, Moving
  <2>3. j \in Jobs
    BY <2>2 DEF Status
  <2>4. AbstractStatus' = [AbstractStatus EXCEPT ![j] = AbstractStatus'[j]]
    BY <1>1, <2>1, <2>3, OneStatus DEF Drop, Status
  <2>5. AbstractStatus[j] = "pending" /\ AbstractStatus'[j] = "running"
    BY <1>1, <2>1, <2>2, <2>3 DEF StatusIs, Drop, Status, Settled
  <2>6. \A v \in Daemons, k \in Jobs :
          RunsJob(v, k)' <=> RunsJob(v, k) \/ (v = w /\ k = j)
    BY <1>1, <2>1 DEF RunsJob, Holding
  <2>7. AbstractRunner' = [AbstractRunner EXCEPT ![j] = w]
    BY <2>3, <2>6, OneRunner DEF RunnerIs
  <2>8. \A k \in Jobs : AbstractRunner[k] # w
    BY <2>1 DEF RunnerIs, RunsJob, Holding
  <2>9. Lifecycle!Claim(w, j)
    BY <2>4, <2>5, <2>7, <2>8 DEF Lifecycle!Claim
  <2> QED BY <2>3, <2>9 DEF Lifecycle!Next
<1>6. CASE MarkWrite(w)
  <2>1. /\ wpc[w] = "mark" /\ wout[w] \in {"done", "failed"} /\ j \in accepted
        /\ j \notin Settled \union removed
    BY <1>6
    DEF MarkWrite, MoveWrite, WorkersAccepted, Expired, Judged, Moving, Holding
  <2>2. j \in Jobs /\ RunsJob(w, j)
    BY <2>1 DEF RunsJob, Holding
  <2>3. \A v \in Daemons, k \in Jobs : RunsJob(v, k)' <=> RunsJob(v, k) /\ v # w
    BY <1>1, <1>6 DEF MarkWrite, MoveWrite, RunsJob, Holding, GoTo, Forget
  <2>4. AbstractRunner[j] = w
    BY <2>2 DEF RunnerIs
  <2>5. AbstractRunner' = [AbstractRunner EXCEPT ![j] = 0]
    <3>1. AbstractRunner'[j] = 0
      BY <2>2, <2>3, <2>4 DEF RunnerIs
    <3> QED BY <2>2, <2>3, <3>1, OneRunner DEF RunsJob
  <2>6. CASE dir' = Put(wout[w], j)
    <3>1. AbstractStatus' = [AbstractStatus EXCEPT ![j] = AbstractStatus'[j]]
      BY <1>1, <2>1, <2>2, <2>6, OneStatus DEF Put, Status
    <3>2. AbstractStatus'[j] = wout[w]
      BY <1>1, <2>1, <2>2, <2>6 DEF StatusIs, Put, Status, Settled
    <3>3. Lifecycle!Finish(w, j)
      BY <2>1, <2>4, <2>5, <3>1, <3>2 DEF Lifecycle!Finish
    <3> QED BY <2>2, <3>3 DEF Lifecycle!Next
  <2>7. CASE UNCHANGED dir
    <3>1. AbstractStatus' = AbstractStatus
      BY <1>1, <2>7 DEF AbstractStatus
    <3>2. Lifecycle!Orphan(w, j)
      BY <2>4, <2>5, <3>1 DEF Lifecycle!Orphan
    <3> QED BY <2>2, <3>2 DEF Lifecycle!Next
  <2> QED BY <1>6, <2>6, <2>7 DEF MarkWrite, MoveWrite
<1>7. CASE MarkRemove(w)
  <2>1. wpc[w] = "unmark" /\ dir' = Drop("running", j) /\ wpc'[w] = "drain"
    BY <1>7 DEF MarkRemove, Unlinked, Forget, GoTo, Undeleted
  <2>2. j \in Settled \union removed
    BY <2>1 DEF Kept
  <2>3. AbstractStatus' = AbstractStatus
    BY <1>1, <2>1, <2>2 DEF Drop, Status, AbstractStatus, Settled
  <2>4. \A v \in Daemons, k \in Jobs : RunsJob(v, k)' <=> RunsJob(v, k)
    BY <1>1, <2>1 DEF RunsJob, Holding
  <2>5. AbstractRunner' = AbstractRunner
    BY <2>4, NobodyAssumption DEF RunnerIs
  <2> QED BY <2>3, <2>5 DEF Lifecycle!vars
<1> QED BY <1>2, <1>3, <1>4, <1>5, <1>6, <1>7 DEF WorkerStep, WorkerGoesOn

-----------------------------------------------------------------------------
(* The theorem *)

\* The invariant of the detailed specification that the mapping needs.
LEMMA MappedInvariance ==
  ASSUME Undeleted
  PROVE  Spec => [](IInv /\ Expired /\ StatusIs /\ RunnerIs)
<1>1. Init => Expired
  BY DEF Init, Expired, Moving, Holding
<1>2. IInv /\ Expired /\ [Next]_vars => Expired'
  BY ExpiredStep DEF IInv
<1>3. IInv => StatusIs /\ RunnerIs
  BY StatusMapped, RunnerMapped DEF IInv, Claimed
<1> QED BY Invariance, <1>1, <1>2, <1>3, PTL DEF Spec, Undeleted

\* The queue keeps what JobLifecycle promises of each job: one step in its life
\* at a time, one worker, one verdict.
THEOREM QueueImplementsLifecycle ==
  ASSUME "remove" \notin Faults, "delete" \notin Ops
  PROVE  Spec => ImplementsLifecycle
<1> DEFINE Inv == IInv /\ Expired /\ StatusIs /\ RunnerIs
<1>1. Init => Lifecycle!Init
  BY NobodyAssumption
  DEF Init, Lifecycle!Init, AbstractStatus, AbstractRunner, Status, Holding
<1>2. Inv /\ Inv' /\ [Next]_vars => [Lifecycle!Next]_(Lifecycle!vars)
  <2> SUFFICES ASSUME Inv, Inv', [Next]_vars
               PROVE  [Lifecycle!Next]_(Lifecycle!vars)
    OBVIOUS
  <2> USE DEF IInv, Undeleted
  <2>1. CASE UNCHANGED vars
    BY <2>1, Stutter DEF vars, workerVars, RunsJob
  <2>2. ASSUME NEW d \in Daemons, WorkerStep(d) PROVE [Lifecycle!Next]_(Lifecycle!vars)
    BY <2>2, WorkerMapped
  <2>3. ASSUME NEW d \in Daemons, CleanerStep(d) PROVE [Lifecycle!Next]_(Lifecycle!vars)
    BY <2>3, CleanerMapped
  <2>4. ASSUME NEW d \in Daemons, DaemonStep(d) PROVE [Lifecycle!Next]_(Lifecycle!vars)
    BY <2>4, DaemonMapped
  <2>5. ASSUME NEW h \in Handlers, HandlerStep(h) PROVE [Lifecycle!Next]_(Lifecycle!vars)
    BY <2>5, HandlerMapped
  <2> QED BY <2>1, <2>2, <2>3, <2>4, <2>5 DEF Next
<1>3. Spec => []Inv
  BY MappedInvariance DEF Undeleted
<1> QED
  <2> HIDE DEF Inv
  <2> QED BY <1>1, <1>2, <1>3, PTL DEF Spec, ImplementsLifecycle, Lifecycle!Spec
=============================================================================
