--------------------------- MODULE JobQueueProofs ---------------------------
(***************************************************************************)
(* Theorems about JobQueue for every number of jobs, daemons and requests. *)
(*                                                                         *)
(* Typing comes first and needs no assumption.  The parts of IInv are then *)
(* shown to be preserved one after the other, each with the help of those  *)
(* before it.  All steps that are not a worker's are treated together: to  *)
(* the workers they are Quiet.                                             *)
(*                                                                         *)
(* At the end no daemon dies and no call fails (Calm): whatever the        *)
(* workers, the requests, the cleanup and the stops of daemons do, jobs    *)
(* are claimed in their order, none is left behind in running, and no log  *)
(* outlives its job.                                                       *)
(***************************************************************************)
EXTENDS JobQueueInv, TLAPS

-----------------------------------------------------------------------------
(* Typing *)

\* A step of a worker keeps the types and what is known of job numbers.
LEMMA WorkerTyping ==
  ASSUME TypeOK, Allocated, NEW w \in Daemons, WorkerStep(w)
  PROVE  TypeOK' /\ Allocated'
<1> USE DEF FilesTyped, WorkersTyped, FilesAccepted, WorkersAccepted
<1> DEFINE Goal == /\ FilesTyped' /\ WorkersTyped'
                   /\ FilesAccepted' /\ WorkersAccepted'
<1>1. ElseUnchanged
  BY DEF WorkerStep, WorkerGoesOn, MoveWrite, Tick, DrainStop,
         ReadPendingDir, OpenNextEntry, NoMoreEntries, Flock, StatPending,
         ReadPending, ClaimWrite, ClaimRemove, LoadFlow, CreateLog,
         EngineReturns, MarkWrite, MarkRemove
<1>2. FilesTyped /\ WorkersTyped /\ FilesAccepted /\ WorkersAccepted
  BY DEF TypeOK, Allocated
<1>3. UNCHANGED <<next, accepted, removed>>
  BY <1>1 DEF ElseUnchanged
<1>4. ASSUME Tick(w) PROVE Goal
  BY <1>2, <1>3, <1>4 DEF Tick, GoTo, WorkerPc, Claiming, Holding
<1>5. ASSUME DrainStop(w) PROVE Goal
  BY <1>2, <1>3, <1>5 DEF DrainStop, GoTo, WorkerPc, Claiming, Holding
<1>6. ASSUME ReadPendingDir(w) PROVE Goal
  BY <1>2, <1>3, <1>6
  DEF ReadPendingDir, GoTo, Status, WorkerPc, Claiming, Holding
<1>7. ASSUME OpenNextEntry(w) PROVE Goal
  BY <1>2, <1>3, <1>7
  DEF OpenNextEntry, GoTo, Rest, WorkerPc, Claiming, Holding
<1>8. ASSUME NoMoreEntries(w) PROVE Goal
  BY <1>2, <1>3, <1>8
  DEF NoMoreEntries, GoTo, Forget, Rest, WorkerPc, Claiming, Holding
<1>9. ASSUME Flock(w) PROVE Goal
  BY <1>2, <1>3, <1>9 DEF Flock, GoTo, WorkerPc, Claiming, Holding
<1>10. ASSUME StatPending(w) PROVE Goal
  BY <1>2, <1>3, <1>10
  DEF StatPending, GoTo, WorkerPc, Claiming, Holding
<1>11. ASSUME ReadPending(w) PROVE Goal
  BY <1>2, <1>3, <1>11
  DEF ReadPending, GoTo, Forget, WorkerPc, Claiming, Holding
<1>12. ASSUME ClaimWrite(w) PROVE Goal
  BY <1>2, <1>3, <1>12
  DEF ClaimWrite, GoTo, Forget, MoveWrite, Put, Status, WorkerPc,
      Claiming, Holding
<1>13. ASSUME ClaimRemove(w) PROVE Goal
  BY <1>2, <1>3, <1>13
  DEF ClaimRemove, GoTo, Unlinked, Drop, Status, WorkerPc, Claiming,
      Holding
<1>14. ASSUME LoadFlow(w) PROVE Goal
  BY <1>2, <1>3, <1>14 DEF LoadFlow, GoTo, WorkerPc, Claiming, Holding
<1>15. ASSUME CreateLog(w) PROVE Goal
  BY <1>2, <1>3, <1>15 DEF CreateLog, GoTo, WorkerPc, Claiming, Holding
<1>16. ASSUME EngineReturns(w) PROVE Goal
  BY <1>2, <1>3, <1>16
  DEF EngineReturns, GoTo, WorkerPc, Claiming, Holding
<1>17. ASSUME MarkWrite(w) PROVE Goal
  BY <1>2, <1>3, <1>17
  DEF MarkWrite, GoTo, Forget, MoveWrite, Put, Status, WorkerPc, Claiming,
      Holding
<1>18. ASSUME MarkRemove(w) PROVE Goal
  BY <1>2, <1>3, <1>18
  DEF MarkRemove, GoTo, Forget, Unlinked, Drop, Status, WorkerPc,
      Claiming, Holding
<1>19. Goal
  BY <1>4, <1>5, <1>6, <1>7, <1>8, <1>9, <1>10, <1>11, <1>12, <1>13,
     <1>14, <1>15, <1>16, <1>17, <1>18
  DEF WorkerStep, WorkerGoesOn
<1> QED
  BY <1>1, <1>19
  DEF ElseUnchanged, TypeOK, Allocated, CleanersTyped, HandlersTyped,
      WritersFresh, cleanerVars, handlerVars, daemonVars

\* A step of a request does, too.
LEMMA HandlerTyping ==
  ASSUME TypeOK, Allocated, NEW h \in Handlers, HandlerStep(h)
  PROVE  TypeOK' /\ Allocated'
<1> USE DEF FilesTyped, HandlersTyped, FilesAccepted, WritersFresh, HandlerPc
<1> DEFINE Goal == /\ FilesTyped' /\ HandlersTyped' /\ FilesAccepted'
                   /\ WritersFresh' /\ next' \in 1..(MaxJobs + 1)
                   /\ accepted \subseteq accepted'
<1>1. HandlerOnly
  BY DEF HandlerStep, HandlerGoesOn, Request, StampJob, WriteJob, ScanDir,
         ReadJob, ReadLog, DeleteFile, DeleteLog, ListDir, ListEntry,
         ListNextDir, Reply
<1>2. /\ FilesTyped /\ HandlersTyped /\ FilesAccepted /\ WritersFresh
      /\ next \in 1..(MaxJobs + 1)
  BY DEF TypeOK, Allocated
<1>3. ran' = ran
  BY <1>1 DEF HandlerOnly
<1>4. ASSUME StampJob(h) PROVE Goal
  BY <1>2, <1>3, <1>4, BoundsAssumption DEF StampJob, HGoTo, Jobs
<1>5. ASSUME WriteJob(h) PROVE Goal
  BY <1>2, <1>3, <1>5 DEF WriteJob, HGoTo, Put, Status, Replies
<1>6. ASSUME ScanDir(h) PROVE Goal
  BY <1>2, <1>3, <1>6
  DEF ScanDir, HGoTo, Advance, After, Status, Replies
<1>7. ASSUME ReadJob(h) PROVE Goal
  BY <1>2, <1>3, <1>7 DEF ReadJob, HGoTo, Replies
<1>8. ASSUME ReadLog(h) PROVE Goal
  BY <1>2, <1>3, <1>8 DEF ReadLog, HGoTo, Replies
<1>9. ASSUME DeleteFile(h) PROVE Goal
  BY <1>2, <1>3, <1>9 DEF DeleteFile, HGoTo, Drop, Replies
<1>10. ASSUME DeleteLog(h) PROVE Goal
  BY <1>2, <1>3, <1>10 DEF DeleteLog, HGoTo, Replies
<1>11. ASSUME ListDir(h) PROVE Goal
  BY <1>2, <1>3, <1>11 DEF ListDir, HGoTo
<1>12. ASSUME ListEntry(h) PROVE Goal
  BY <1>2, <1>3, <1>12 DEF ListEntry, HGoTo
<1>13. ASSUME ListNextDir(h) PROVE Goal
  BY <1>2, <1>3, <1>13
  DEF ListNextDir, HGoTo, Advance, After, Status, Replies
<1>14. ASSUME Reply(h) PROVE Goal
  BY <1>2, <1>3, <1>14 DEF Reply, HGoTo, Replies, Status
<1>15. ASSUME NEW op \in Ops, NEW j \in accepted \union {0}, Request(h, op, j)
      PROVE  Goal
  BY <1>2, <1>3, <1>15, OptionsAssumption DEF Request, HGoTo
<1>16. Goal
  BY <1>4, <1>5, <1>6, <1>7, <1>8, <1>9, <1>10, <1>11, <1>12, <1>13,
     <1>14, <1>15
  DEF HandlerStep, HandlerGoesOn
<1> QED
  BY <1>1, <1>16
  DEF HandlerOnly, TypeOK, Allocated, CleanersTyped, WorkersTyped,
      WorkersAccepted, workerVars, cleanerVars, daemonVars

\* So does a step of the cleanup ...
LEMMA CleanerTyping ==
  ASSUME TypeOK, Allocated, NEW d \in Daemons, CleanerStep(d)
  PROVE  TypeOK' /\ Allocated'
<1> USE DEF FilesTyped, CleanersTyped, FilesAccepted
<1> DEFINE Goal == FilesTyped' /\ CleanersTyped' /\ FilesAccepted'
<1>1. CleanerOnly
  BY DEF CleanerStep, CleanerGoesOn, CleanStart, CleanList, CleanEntry,
         CleanRemove, CleanLog, CleanNext
<1>2. FilesTyped /\ CleanersTyped /\ FilesAccepted
  BY DEF TypeOK, Allocated
<1>3. UNCHANGED <<next, accepted, ran>>
  BY <1>1 DEF CleanerOnly
<1>4. ASSUME CleanStart(d) PROVE Goal
  BY <1>2, <1>3, <1>4 DEF CleanStart, CGoTo
<1>5. ASSUME CleanList(d) PROVE Goal
  BY <1>2, <1>3, <1>5 DEF CleanList, CGoTo, Status
<1>6. ASSUME CleanEntry(d) PROVE Goal
  BY <1>2, <1>3, <1>6 DEF CleanEntry, CGoTo
<1>7. ASSUME CleanRemove(d) PROVE Goal
  BY <1>2, <1>3, <1>7 DEF CleanRemove, CGoTo, Drop, Status
<1>8. ASSUME CleanLog(d) PROVE Goal
  BY <1>2, <1>3, <1>8 DEF CleanLog, CGoTo
<1>9. ASSUME CleanNext(d) PROVE Goal
  BY <1>2, <1>3, <1>9 DEF CleanNext, CGoTo
<1>10. Goal
  BY <1>4, <1>5, <1>6, <1>7, <1>8, <1>9 DEF CleanerStep, CleanerGoesOn
<1> QED
  BY <1>1, <1>10
  DEF CleanerOnly, TypeOK, Allocated, HandlersTyped, WorkersTyped,
      WorkersAccepted, WritersFresh, workerVars, handlerVars, daemonVars

\* ... and the start or the end of a daemon.
LEMMA DaemonTyping ==
  ASSUME TypeOK, Allocated, NEW d \in Daemons, DaemonStep(d)
  PROVE  TypeOK' /\ Allocated'
<1> USE DEF TypeOK, Allocated, FilesTyped, FilesAccepted
<1>1. CASE Stop(d) \/ Exit(d) \/ Start(d)
  BY <1>1, BoundsAssumption
  DEF Stop, Exit, Start, DaemonOnly, WorkersTyped, CleanersTyped, HandlersTyped,
      WorkersAccepted, WritersFresh, workerVars, cleanerVars, handlerVars
<1>2. CASE Crash(d)
  <2> USE <1>2 DEF Crash, DaemonOnly
  <2>1. WorkersTyped' /\ WorkersAccepted'
    BY DEF WorkersTyped, WorkersAccepted, Forget, GoTo, WorkerPc, Claiming, Holding
  <2>2. CleanersTyped'
    BY DEF CleanersTyped
  <2>3. HandlersTyped' /\ WritersFresh'
    BY DEF HandlersTyped, WritersFresh, HandlerPc, Status
  <2>4. /\ up' \in [Daemons -> {"up", "stopping", "down"}]
        /\ ends' \in 0..MaxEnds
    BY BoundsAssumption
  <2> QED BY <2>1, <2>2, <2>3, <2>4
<1> QED BY <1>1, <1>2 DEF DaemonStep

LEMMA TypingInit == Init => TypeOK /\ Allocated
  BY BoundsAssumption
  DEF Init, TypeOK, FilesTyped, WorkersTyped, CleanersTyped, HandlersTyped,
      Allocated, FilesAccepted, WorkersAccepted, WritersFresh,
      WorkerPc, HandlerPc, Status, Jobs, Claiming, Holding

LEMMA TypingStep == TypeOK /\ Allocated /\ [Next]_vars => TypeOK' /\ Allocated'
<1> SUFFICES ASSUME TypeOK, Allocated, [Next]_vars
             PROVE  TypeOK' /\ Allocated'
  OBVIOUS
<1>1. CASE UNCHANGED vars
  BY <1>1
  DEF vars, workerVars, cleanerVars, handlerVars, daemonVars, TypeOK,
      FilesTyped, WorkersTyped, CleanersTyped, HandlersTyped,
      Allocated, FilesAccepted, WorkersAccepted, WritersFresh
<1> QED
  BY <1>1, WorkerTyping, HandlerTyping, CleanerTyping, DaemonTyping DEF Next

\* In every reachable state the variables have their types, whatever fails.
THEOREM TypeCorrect == Spec => []TypeOK
<1>1. TypeOK /\ Allocated /\ [Next]_vars => (TypeOK /\ Allocated)'
  BY TypingStep
<1> QED BY TypingInit, <1>1, PTL DEF Spec

-----------------------------------------------------------------------------
(* Two lemmas about what a step leaves alone *)

\* What a step of anything but a worker may do to the workers and the files:
\* a worker is left alone or dies; a new job appears in pending only; no other
\* file appears; a file that goes is remembered in removed.
Quiet ==
  /\ \A w \in Daemons :
       \/ wpc'[w] = "idle"
       \/ wpc'[w] = wpc[w] /\ wjob'[w] = wjob[w] /\ wout'[w] = wout[w]
  /\ ran' = ran /\ removed \subseteq removed' /\ accepted \subseteq accepted'
  /\ accepted' \ accepted \subseteq dir'["pending"]
  /\ \A s \in Status :
       /\ dir'[s] \intersect accepted \subseteq dir[s]
       /\ dir[s] \ dir'[s] \subseteq removed'
       /\ s # "pending" => dir'[s] \subseteq dir[s]

LEMMA QuietStep ==
  ASSUME TypeOK, Allocated,
         \/ UNCHANGED vars
         \/ \E d \in Daemons : CleanerStep(d) \/ DaemonStep(d)
         \/ \E h \in Handlers : HandlerStep(h)
  PROVE  Quiet
<1>0. /\ FilesTyped /\ WorkersTyped /\ HandlersTyped /\ CleanersTyped
      /\ FilesAccepted /\ WritersFresh
  BY DEF TypeOK, Allocated
<1>1. CASE UNCHANGED vars
  BY <1>1 DEF Quiet, vars, workerVars
<1>2. ASSUME NEW h \in Handlers, HandlerStep(h) PROVE Quiet
  <2>1. UNCHANGED <<wpc, wjob, wout, ran>>
    BY <1>2
    DEF HandlerOnly, workerVars, HandlerStep, HandlerGoesOn, Request,
        StampJob, WriteJob, ScanDir, ReadJob, ReadLog, DeleteFile,
        DeleteLog, ListDir, ListEntry, ListNextDir, Reply
  <2>2. CASE WriteJob(h)
    BY <1>0, <2>1, <2>2
    DEF Quiet, WriteJob, Put, Status, FilesTyped, WritersFresh
  <2>3. CASE DeleteFile(h)
    BY <1>0, <2>1, <2>3 DEF Quiet, DeleteFile, Drop, FilesTyped, HandlersTyped
  <2>4. CASE ~WriteJob(h) /\ ~DeleteFile(h)
    <3>1. UNCHANGED <<dir, accepted, removed>>
      BY <1>2, <2>4
      DEF HandlerStep, HandlerGoesOn, Request, StampJob, ScanDir, ReadJob,
          ReadLog, DeleteLog, ListDir, ListEntry, ListNextDir, Reply
    <3> QED BY <2>1, <3>1 DEF Quiet
  <2> QED BY <2>2, <2>3, <2>4
<1>3. ASSUME NEW d \in Daemons, CleanerStep(d) PROVE Quiet
  <2>1. UNCHANGED <<wpc, wjob, wout, ran, accepted>>
    BY <1>3
    DEF CleanerOnly, workerVars, CleanerStep, CleanerGoesOn, CleanStart,
        CleanList, CleanEntry, CleanRemove, CleanLog, CleanNext
  <2>2. CASE CleanRemove(d)
    BY <1>0, <2>1, <2>2
    DEF Quiet, CleanRemove, Drop, FilesTyped, CleanersTyped, Status
  <2>3. CASE ~CleanRemove(d)
    <3>1. UNCHANGED <<dir, removed>>
      BY <1>3, <2>3
      DEF CleanerStep, CleanerGoesOn, CleanStart, CleanList, CleanEntry,
          CleanLog, CleanNext
    <3> QED BY <2>1, <3>1 DEF Quiet
  <2> QED BY <2>2, <2>3
<1>4. ASSUME NEW d \in Daemons, DaemonStep(d) PROVE Quiet
  <2>1. UNCHANGED <<dir, accepted, removed, ran>>
    BY <1>4 DEF DaemonOnly, DaemonStep, Stop, Exit, Crash, Start
  <2>2. \A w \in Daemons : \/ wpc'[w] = "idle"
                           \/ UNCHANGED <<wpc[w], wjob[w], wout[w]>>
    BY <1>0, <1>4
    DEF DaemonStep, Stop, Exit, Crash, Start, Forget, GoTo, WorkersTyped,
        workerVars
  <2> QED BY <2>1, <2>2 DEF Quiet
<1> QED BY <1>1, <1>2, <1>3, <1>4

\* A step of one worker leaves the other workers and the requests alone.
LEMMA OtherWorkers ==
  ASSUME TypeOK, NEW w \in Daemons, WorkerStep(w)
  PROVE  /\ \A v \in Daemons \ {w} : /\ wpc'[v] = wpc[v]
                                     /\ wjob'[v] = wjob[v]
                                     /\ wout'[v] = wout[v]
         /\ UNCHANGED <<accepted, removed, hpc, hop, hjob, hdir, cpc, cjob>>
  BY DEF WorkerStep, WorkerGoesOn, TypeOK, WorkersTyped, MoveWrite, GoTo,
         Forget, ElseUnchanged, handlerVars, cleanerVars, Tick, DrainStop,
         ReadPendingDir, OpenNextEntry, NoMoreEntries, Flock, StatPending,
         ReadPending, ClaimWrite, ClaimRemove, LoadFlow, CreateLog,
         EngineReturns, MarkWrite, MarkRemove

-----------------------------------------------------------------------------
(* The parts of the invariant *)

\* Only the worker that holds the lock of a file that is still pending claims.
LEMMA ClaimedStep ==
  ASSUME "remove" \notin Faults, [Next]_vars,
         TypeOK, Allocated, Claimed
  PROVE  Claimed'
<1> USE DEF Claimed, ExclusiveExecution, Claiming, Holding, Moving
<1>0. FilesTyped /\ WorkersTyped /\ FilesAccepted /\ WorkersAccepted
  BY DEF TypeOK, Allocated
<1>1. CASE Quiet
  BY <1>0, <1>1 DEF Quiet, FilesAccepted, WorkersAccepted, Status
<1>2. ASSUME NEW w \in Daemons, WorkerStep(w) PROVE Claimed'
  <2> USE <1>0 DEF FilesTyped, WorkersTyped, WorkersAccepted, FilesAccepted
  <2>0. /\ \A v \in Daemons \ {w} :
             wpc'[v] = wpc[v] /\ wjob'[v] = wjob[v] /\ wout'[v] = wout[v]
        /\ UNCHANGED <<accepted, removed>>
    BY <1>2, OtherWorkers
  <2>1. CASE Tick(w)
    BY <2>0, <2>1 DEF Tick, GoTo, Status
  <2>2. CASE DrainStop(w)
    BY <2>0, <2>2 DEF DrainStop, GoTo, Status
  <2>3. CASE ReadPendingDir(w)
    BY <2>0, <2>3 DEF ReadPendingDir, GoTo, Status
  <2>4. CASE OpenNextEntry(w)
    BY <2>0, <2>4 DEF OpenNextEntry, GoTo, Rest, Status
  <2>5. CASE NoMoreEntries(w)
    BY <2>0, <2>5 DEF NoMoreEntries, GoTo, Forget, Rest, Status
  <2>6. CASE Flock(w)
    BY <2>0, <2>6 DEF Flock, GoTo, LockFree, Status
  <2>7. CASE StatPending(w)
    BY <2>0, <2>7 DEF StatPending, GoTo, Status
  <2>8. CASE ReadPending(w)
    BY <2>0, <2>8 DEF ReadPending, GoTo, Forget, Status
  <2>9. CASE ClaimWrite(w)
    BY <2>0, <2>9 DEF ClaimWrite, GoTo, Forget, MoveWrite, Put, Status
  <2>10. CASE ClaimRemove(w)
    BY <2>0, <2>10 DEF ClaimRemove, GoTo, Unlinked, Drop, Status
  <2>11. CASE LoadFlow(w)
    BY <2>0, <2>11 DEF LoadFlow, GoTo, Status
  <2>12. CASE CreateLog(w)
    BY <2>0, <2>12 DEF CreateLog, GoTo, Status
  <2>13. CASE EngineReturns(w)
    BY <2>0, <2>13 DEF EngineReturns, GoTo, Status
  <2>14. CASE MarkWrite(w)
    BY <2>0, <2>14 DEF MarkWrite, GoTo, Forget, MoveWrite, Put, Status
  <2>15. CASE MarkRemove(w)
    BY <2>0, <2>15 DEF MarkRemove, GoTo, Forget, Unlinked, Drop, Status
  <2> QED
    BY <1>2, <2>1, <2>2, <2>3, <2>4, <2>5, <2>6, <2>7, <2>8, <2>9, <2>10,
       <2>11, <2>12, <2>13, <2>14, <2>15
    DEF WorkerStep, WorkerGoesOn
<1> QED BY <1>1, <1>2, QuietStep DEF Next

\* A run leaves its job out of pending and in nobody else's hands.
LEMMA RunOnceStep ==
  ASSUME "remove" \notin Faults, [Next]_vars,
         TypeOK, Allocated, Claimed, RunOnce
  PROVE  RunOnce'
<1> USE DEF RunOnce, Claimed, ExclusiveExecution, Claiming, Holding,
            Moving
<1>0. FilesTyped /\ WorkersTyped /\ FilesAccepted /\ WorkersAccepted
  BY DEF TypeOK, Allocated
<1>1. CASE Quiet
  BY <1>0, <1>1 DEF Quiet, FilesAccepted, WorkersAccepted, Status
<1>2. ASSUME NEW w \in Daemons, WorkerStep(w) PROVE RunOnce'
  <2> USE <1>0 DEF FilesTyped, WorkersTyped, WorkersAccepted, FilesAccepted
  <2>0. /\ \A v \in Daemons \ {w} :
             wpc'[v] = wpc[v] /\ wjob'[v] = wjob[v] /\ wout'[v] = wout[v]
        /\ UNCHANGED <<accepted, removed>>
    BY <1>2, OtherWorkers
  <2>1. CASE Tick(w)
    BY <2>0, <2>1 DEF Tick, GoTo, Status
  <2>2. CASE DrainStop(w)
    BY <2>0, <2>2 DEF DrainStop, GoTo, Status
  <2>3. CASE ReadPendingDir(w)
    BY <2>0, <2>3 DEF ReadPendingDir, GoTo, Status
  <2>4. CASE OpenNextEntry(w)
    BY <2>0, <2>4 DEF OpenNextEntry, GoTo, Rest, Status
  <2>5. CASE NoMoreEntries(w)
    BY <2>0, <2>5 DEF NoMoreEntries, GoTo, Forget, Rest, Status
  <2>6. CASE Flock(w)
    BY <2>0, <2>6 DEF Flock, GoTo, Status
  <2>7. CASE StatPending(w)
    BY <2>0, <2>7 DEF StatPending, GoTo, Status
  <2>8. CASE ReadPending(w)
    BY <2>0, <2>8 DEF ReadPending, GoTo, Forget, Status
  <2>9. CASE ClaimWrite(w)
    BY <2>0, <2>9 DEF ClaimWrite, GoTo, Forget, MoveWrite, Put, Status
  <2>10. CASE ClaimRemove(w)
    BY <2>0, <2>10 DEF ClaimRemove, GoTo, Unlinked, Drop, Status
  <2>11. CASE LoadFlow(w)
    BY <2>0, <2>11 DEF LoadFlow, GoTo, Status
  <2>12. CASE CreateLog(w)
    BY <2>0, <2>12 DEF CreateLog, GoTo, Status
  <2>13. CASE EngineReturns(w)
    BY <2>0, <2>13 DEF EngineReturns, GoTo, Status
  <2>14. CASE MarkWrite(w)
    BY <2>0, <2>14 DEF MarkWrite, GoTo, Forget, MoveWrite, Put, Status
  <2>15. CASE MarkRemove(w)
    BY <2>0, <2>15 DEF MarkRemove, GoTo, Forget, Unlinked, Drop, Status
  <2> QED
    BY <1>2, <2>1, <2>2, <2>3, <2>4, <2>5, <2>6, <2>7, <2>8, <2>9, <2>10,
       <2>11, <2>12, <2>13, <2>14, <2>15
    DEF WorkerStep, WorkerGoesOn
<1> QED BY <1>1, <1>2, QuietStep DEF Next

\* A verdict is given by the one worker that has the job.
LEMMA JudgedStep ==
  ASSUME "remove" \notin Faults, [Next]_vars,
         TypeOK, Allocated, Claimed, Judged
  PROVE  Judged'
<1> USE DEF Judged, OneVerdict, Settled, Claimed, ExclusiveExecution,
            Claiming, Holding, Moving
<1>0. FilesTyped /\ WorkersTyped /\ FilesAccepted /\ WorkersAccepted
  BY DEF TypeOK, Allocated
<1>1. CASE Quiet
  BY <1>0, <1>1 DEF Quiet, FilesAccepted, WorkersAccepted, Status
<1>2. ASSUME NEW w \in Daemons, WorkerStep(w) PROVE Judged'
  <2> USE <1>0 DEF FilesTyped, WorkersTyped, WorkersAccepted, FilesAccepted
  <2>0. /\ \A v \in Daemons \ {w} :
             wpc'[v] = wpc[v] /\ wjob'[v] = wjob[v] /\ wout'[v] = wout[v]
        /\ UNCHANGED <<accepted, removed>>
    BY <1>2, OtherWorkers
  <2>1. CASE Tick(w)
    BY <2>0, <2>1 DEF Tick, GoTo, Status
  <2>2. CASE DrainStop(w)
    BY <2>0, <2>2 DEF DrainStop, GoTo, Status
  <2>3. CASE ReadPendingDir(w)
    BY <2>0, <2>3 DEF ReadPendingDir, GoTo, Status
  <2>4. CASE OpenNextEntry(w)
    BY <2>0, <2>4 DEF OpenNextEntry, GoTo, Rest, Status
  <2>5. CASE NoMoreEntries(w)
    BY <2>0, <2>5 DEF NoMoreEntries, GoTo, Forget, Rest, Status
  <2>6. CASE Flock(w)
    BY <2>0, <2>6 DEF Flock, GoTo, Status
  <2>7. CASE StatPending(w)
    BY <2>0, <2>7 DEF StatPending, GoTo, Status
  <2>8. CASE ReadPending(w)
    BY <2>0, <2>8 DEF ReadPending, GoTo, Forget, Status
  <2>9. CASE ClaimWrite(w)
    BY <2>0, <2>9 DEF ClaimWrite, GoTo, Forget, MoveWrite, Put, Status
  <2>10. CASE ClaimRemove(w)
    BY <2>0, <2>10 DEF ClaimRemove, GoTo, Unlinked, Drop, Status
  <2>11. CASE LoadFlow(w)
    BY <2>0, <2>11 DEF LoadFlow, GoTo, Status
  <2>12. CASE CreateLog(w)
    BY <2>0, <2>12 DEF CreateLog, GoTo, Status
  <2>13. CASE EngineReturns(w)
    BY <2>0, <2>13 DEF EngineReturns, GoTo, Status
  <2>14. CASE MarkWrite(w)
    BY <2>0, <2>14 DEF MarkWrite, GoTo, Forget, MoveWrite, Put, Status
  <2>15. CASE MarkRemove(w)
    BY <2>0, <2>15 DEF MarkRemove, GoTo, Forget, Unlinked, Drop, Status
  <2> QED
    BY <1>2, <2>1, <2>2, <2>3, <2>4, <2>5, <2>6, <2>7, <2>8, <2>9, <2>10,
       <2>11, <2>12, <2>13, <2>14, <2>15
    DEF WorkerStep, WorkerGoesOn
<1> QED BY <1>1, <1>2, QuietStep DEF Next

\* The write of a move comes before its remove, and nobody undoes it between.
LEMMA KeptStep ==
  ASSUME "remove" \notin Faults, [Next]_vars,
         TypeOK, Allocated, Claimed, Kept
  PROVE  Kept'
<1> USE DEF Kept, NoJobLost, Present, Settled, Claimed,
            ExclusiveExecution, Claiming, Holding, Moving
<1>0. FilesTyped /\ WorkersTyped /\ FilesAccepted /\ WorkersAccepted
  BY DEF TypeOK, Allocated
<1>1. CASE Quiet
  BY <1>0, <1>1 DEF Quiet, FilesAccepted, WorkersAccepted, Status
<1>2. ASSUME NEW w \in Daemons, WorkerStep(w) PROVE Kept'
  <2> USE <1>0 DEF FilesTyped, WorkersTyped, WorkersAccepted, FilesAccepted
  <2>0. /\ \A v \in Daemons \ {w} :
             wpc'[v] = wpc[v] /\ wjob'[v] = wjob[v] /\ wout'[v] = wout[v]
        /\ UNCHANGED <<accepted, removed>>
    BY <1>2, OtherWorkers
  <2>1. CASE Tick(w)
    BY <2>0, <2>1 DEF Tick, GoTo, Status
  <2>2. CASE DrainStop(w)
    BY <2>0, <2>2 DEF DrainStop, GoTo, Status
  <2>3. CASE ReadPendingDir(w)
    BY <2>0, <2>3 DEF ReadPendingDir, GoTo, Status
  <2>4. CASE OpenNextEntry(w)
    BY <2>0, <2>4 DEF OpenNextEntry, GoTo, Rest, Status
  <2>5. CASE NoMoreEntries(w)
    BY <2>0, <2>5 DEF NoMoreEntries, GoTo, Forget, Rest, Status
  <2>6. CASE Flock(w)
    BY <2>0, <2>6 DEF Flock, GoTo, Status
  <2>7. CASE StatPending(w)
    BY <2>0, <2>7 DEF StatPending, GoTo, Status
  <2>8. CASE ReadPending(w)
    BY <2>0, <2>8 DEF ReadPending, GoTo, Forget, Status
  <2>9. CASE ClaimWrite(w)
    BY <2>0, <2>9 DEF ClaimWrite, GoTo, Forget, MoveWrite, Put, Status
  <2>10. CASE ClaimRemove(w)
    BY <2>0, <2>10 DEF ClaimRemove, GoTo, Unlinked, Drop, Status
  <2>11. CASE LoadFlow(w)
    BY <2>0, <2>11 DEF LoadFlow, GoTo, Status
  <2>12. CASE CreateLog(w)
    BY <2>0, <2>12 DEF CreateLog, GoTo, Status
  <2>13. CASE EngineReturns(w)
    BY <2>0, <2>13 DEF EngineReturns, GoTo, Status
  <2>14. CASE MarkWrite(w)
    BY <2>0, <2>14 DEF MarkWrite, GoTo, Forget, MoveWrite, Put, Status
  <2>15. CASE MarkRemove(w)
    BY <2>0, <2>15 DEF MarkRemove, GoTo, Forget, Unlinked, Drop, Status
  <2> QED
    BY <1>2, <2>1, <2>2, <2>3, <2>4, <2>5, <2>6, <2>7, <2>8, <2>9, <2>10,
       <2>11, <2>12, <2>13, <2>14, <2>15
    DEF WorkerStep, WorkerGoesOn
<1> QED BY <1>1, <1>2, QuietStep DEF Next

\* A log is removed after its job only.
LEMMA LogsKept ==
  ASSUME TypeOK, Logged,
         \/ UNCHANGED vars
         \/ \E d \in Daemons : CleanerStep(d) \/ DaemonStep(d)
         \/ \E h \in Handlers : HandlerStep(h)
  PROVE  /\ log \ log' \subseteq removed
         /\ \A h \in Handlers : hpc'[h] = "unlog" => hjob'[h] \in removed'
         /\ \A d \in Daemons  : cpc'[d] = "unlog" => cjob'[d] \in removed'
<1> DEFINE Goal == /\ log \ log' \subseteq removed
                   /\ \A g \in Handlers : hpc'[g] = "unlog" => hjob'[g] \in removed'
                   /\ \A c \in Daemons  : cpc'[c] = "unlog" => cjob'[c] \in removed'
<1> USE DEF TypeOK, HandlersTyped, CleanersTyped, Logged
<1>1. CASE UNCHANGED vars
  BY <1>1 DEF vars, handlerVars, cleanerVars
<1>2. ASSUME NEW h \in Handlers, HandlerStep(h) PROVE Goal
  <2>1. UNCHANGED <<cpc, cjob>>
    BY <1>2
    DEF HandlerOnly, cleanerVars, HandlerStep, HandlerGoesOn, Request,
        StampJob, WriteJob, ScanDir, ReadJob, ReadLog, DeleteFile,
        DeleteLog, ListDir, ListEntry, ListNextDir, Reply
  <2>2. CASE DeleteFile(h)
    BY <2>1, <2>2 DEF DeleteFile, HGoTo
  <2>3. CASE DeleteLog(h)
    BY <2>1, <2>3 DEF DeleteLog, HGoTo
  <2>4. CASE ~DeleteFile(h) /\ ~DeleteLog(h)
    <3>1. UNCHANGED <<log, removed>>
      BY <1>2, <2>4
      DEF HandlerStep, HandlerGoesOn, Request, StampJob, WriteJob,
          ScanDir, ReadJob, ReadLog, ListDir, ListEntry, ListNextDir,
          Reply
    <3>2. \A g \in Handlers : /\ hpc'[g] = "unlog" => hpc[g] = "unlog"
                              /\ g # h => UNCHANGED <<hpc[g], hjob[g]>>
                              /\ hpc'[h] # "unlog"
      BY <1>2, <2>4
      DEF HandlerStep, HandlerGoesOn, Request, HGoTo, Advance, Replies,
          StampJob, WriteJob, ScanDir, ReadJob, ReadLog, ListDir,
          ListEntry, ListNextDir, Reply
    <3> QED BY <2>1, <3>1, <3>2
  <2> QED BY <2>2, <2>3, <2>4
<1>3. ASSUME NEW d \in Daemons, CleanerStep(d) PROVE Goal
  <2> USE DEF CGoTo
  <2>1. UNCHANGED <<hpc, hjob>>
    BY <1>3
    DEF CleanerOnly, handlerVars, CleanerStep, CleanerGoesOn, CleanStart,
        CleanList, CleanEntry, CleanRemove, CleanLog, CleanNext
  <2>2. CASE CleanStart(d)
    BY <2>1, <2>2 DEF CleanStart
  <2>3. CASE CleanList(d)
    BY <2>1, <2>3 DEF CleanList
  <2>4. CASE CleanEntry(d)
    BY <2>1, <2>4 DEF CleanEntry
  <2>5. CASE CleanRemove(d)
    BY <2>1, <2>5 DEF CleanRemove
  <2>6. CASE CleanLog(d)
    BY <2>1, <2>6 DEF CleanLog
  <2>7. CASE CleanNext(d)
    BY <2>1, <2>7 DEF CleanNext
  <2> QED BY <1>3, <2>2, <2>3, <2>4, <2>5, <2>6, <2>7
    DEF CleanerStep, CleanerGoesOn
<1>4. ASSUME NEW d \in Daemons, DaemonStep(d) PROVE Goal
  BY <1>4 DEF DaemonStep, Stop, Exit, Crash, Start, DaemonOnly, handlerVars,
              cleanerVars
<1> QED BY <1>1, <1>2, <1>3, <1>4

\* The log is created before the run and the verdict "done" comes after it.
LEMMA LoggedStep ==
  ASSUME "remove" \notin Faults, [Next]_vars,
         TypeOK, Allocated, Claimed, Logged
  PROVE  Logged'
<1> USE DEF Logged, DoneHasLog
<1>0. FilesTyped /\ WorkersTyped /\ FilesAccepted /\ WorkersAccepted
  BY DEF TypeOK, Allocated
<1>1. ASSUME \/ UNCHANGED vars
             \/ \E d \in Daemons : CleanerStep(d) \/ DaemonStep(d)
             \/ \E h \in Handlers : HandlerStep(h)
      PROVE  Logged'
  <2>1. Quiet
    BY <1>1, QuietStep
  <2>2. /\ log \ log' \subseteq removed
        /\ \A h \in Handlers : hpc'[h] = "unlog" => hjob'[h] \in removed'
        /\ \A d \in Daemons  : cpc'[d] = "unlog" => cjob'[d] \in removed'
    BY <1>1, LogsKept
  <2> QED BY <1>0, <2>1, <2>2 DEF Quiet, FilesTyped, Status
<1>2. ASSUME NEW w \in Daemons, WorkerStep(w) PROVE Logged'
  <2> USE <1>0 DEF FilesTyped, WorkersTyped, WorkersAccepted, FilesAccepted
  <2>0. /\ \A v \in Daemons \ {w} :
             wpc'[v] = wpc[v] /\ wjob'[v] = wjob[v] /\ wout'[v] = wout[v]
        /\ UNCHANGED <<accepted, removed, hpc, hjob, cpc, cjob>>
    BY <1>2, OtherWorkers
  <2>1. CASE Tick(w)
    BY <2>0, <2>1 DEF Tick, GoTo, Status
  <2>2. CASE DrainStop(w)
    BY <2>0, <2>2 DEF DrainStop, GoTo, Status
  <2>3. CASE ReadPendingDir(w)
    BY <2>0, <2>3 DEF ReadPendingDir, GoTo, Status
  <2>4. CASE OpenNextEntry(w)
    BY <2>0, <2>4 DEF OpenNextEntry, GoTo, Rest, Status
  <2>5. CASE NoMoreEntries(w)
    BY <2>0, <2>5 DEF NoMoreEntries, GoTo, Forget, Rest, Status
  <2>6. CASE Flock(w)
    BY <2>0, <2>6 DEF Flock, GoTo, Status
  <2>7. CASE StatPending(w)
    BY <2>0, <2>7 DEF StatPending, GoTo, Status
  <2>8. CASE ReadPending(w)
    BY <2>0, <2>8 DEF ReadPending, GoTo, Forget, Status
  <2>9. CASE ClaimWrite(w)
    BY <2>0, <2>9 DEF ClaimWrite, GoTo, Forget, MoveWrite, Put, Status
  <2>10. CASE ClaimRemove(w)
    BY <2>0, <2>10 DEF ClaimRemove, GoTo, Unlinked, Drop, Status
  <2>11. CASE LoadFlow(w)
    BY <2>0, <2>11 DEF LoadFlow, GoTo, Status
  <2>12. CASE CreateLog(w)
    BY <2>0, <2>12 DEF CreateLog, GoTo, Status
  <2>13. CASE EngineReturns(w)
    BY <2>0, <2>13 DEF EngineReturns, GoTo, Status
  <2>14. CASE MarkWrite(w)
    BY <2>0, <2>14 DEF MarkWrite, GoTo, Forget, MoveWrite, Put, Status
  <2>15. CASE MarkRemove(w)
    BY <2>0, <2>15 DEF MarkRemove, GoTo, Forget, Unlinked, Drop, Status
  <2> QED
    BY <1>2, <2>1, <2>2, <2>3, <2>4, <2>5, <2>6, <2>7, <2>8, <2>9, <2>10,
       <2>11, <2>12, <2>13, <2>14, <2>15
    DEF WorkerStep, WorkerGoesOn
<1> QED BY <1>1, <1>2 DEF Next

\* Jobs only move forward, so a search that is behind a job stays behind it.
LEMMA AheadGrows ==
  ASSUME "remove" \notin Faults, [Next]_vars,
         TypeOK, Allocated, Claimed, Kept, NEW s \in Status
  PROVE  Ahead(s) \subseteq Ahead(s)'
<1> USE DEF Ahead, Settled, Status
<1>0. FilesTyped /\ WorkersTyped /\ FilesAccepted /\ WorkersAccepted
  BY DEF TypeOK, Allocated
<1>1. CASE Quiet
  BY <1>0, <1>1 DEF Quiet, FilesTyped
<1>2. ASSUME NEW w \in Daemons, WorkerStep(w) PROVE Ahead(s) \subseteq Ahead(s)'
  <2> USE <1>0 DEF FilesTyped, WorkersTyped, WorkersAccepted
  <2>0. UNCHANGED <<accepted, removed>>
    BY <1>2, OtherWorkers
  <2>1. CASE ClaimWrite(w)
    BY <2>0, <2>1 DEF ClaimWrite, MoveWrite, Put
  <2>2. CASE ClaimRemove(w)
    BY <2>0, <2>2 DEF ClaimRemove, Unlinked, Drop
  <2>3. CASE MarkWrite(w)
    BY <2>0, <2>3 DEF MarkWrite, MoveWrite, Put
  <2>4. CASE MarkRemove(w)
    BY <2>0, <2>4 DEF MarkRemove, Unlinked, Drop, Kept
  <2>5. CASE UNCHANGED dir
    BY <2>0, <2>5
  <2> QED
    BY <1>2, <2>1, <2>2, <2>3, <2>4, <2>5
    DEF WorkerStep, WorkerGoesOn, Tick, DrainStop, ReadPendingDir,
        OpenNextEntry, NoMoreEntries, Flock, StatPending, ReadPending,
        LoadFlow, CreateLog, EngineReturns
<1> QED BY <1>1, <1>2, QuietStep DEF Next

\* A search that leaves a directory without the job leaves it behind.
LEMMA SearchedStep ==
  ASSUME "remove" \notin Faults, [Next]_vars,
         TypeOK, Allocated, Claimed, Kept, Searched
  PROVE  Searched'
<1> USE DEF Searched, NotFoundIsTrue
<1>0. FilesTyped /\ HandlersTyped /\ FilesAccepted
  BY DEF TypeOK, Allocated
<1>1. removed \subseteq removed'
  BY QuietStep, OtherWorkers DEF Next, Quiet
<1>2. \A s \in Status : Ahead(s) \subseteq Ahead(s)'
  BY AheadGrows
<1>3. CASE UNCHANGED <<hpc, hop, hjob, hdir>>
  BY <1>0, <1>1, <1>2, <1>3 DEF HandlersTyped
<1>4. ASSUME NEW h \in Handlers, HandlerStep(h) PROVE Searched'
  <2> USE <1>0 DEF HandlersTyped
  <2>1. \A g \in Handlers \ {h} : /\ hpc'[g] = hpc[g] /\ hop'[g] = hop[g]
                                  /\ hjob'[g] = hjob[g] /\ hdir'[g] = hdir[g]
    BY <1>4
    DEF HandlerStep, HandlerGoesOn, Request, HGoTo, Advance, StampJob,
        WriteJob, ScanDir, ReadJob, ReadLog, DeleteFile, DeleteLog,
        ListDir, ListEntry, ListNextDir, Reply
  <2>2. CASE ScanDir(h)
    <3>1. CASE hjob[h] \in dir[hdir[h]]
      BY <1>1, <1>2, <2>1, <2>2, <3>1 DEF ScanDir, HGoTo
    <3>2. CASE hjob[h] \notin dir[hdir[h]]
      <4>1. hjob[h] \in Ahead(hdir[h])
        BY <2>2 DEF ScanDir
      <4>2. IF hdir[h] = "failed" THEN hjob[h] \in removed
                                  ELSE hjob[h] \in Ahead(After[hdir[h]])
        BY <3>2, <4>1
        DEF Ahead, After, Settled, Status, Kept, NoJobLost, Present
      <4>3. UNCHANGED <<dir, accepted, removed>>
        BY <2>2 DEF ScanDir
      <4>4. After[hdir[h]] = "end" <=> hdir[h] = "failed"
        BY DEF After, Status
      <4> QED
        BY <1>1, <1>2, <2>1, <2>2, <3>2, <4>2, <4>3, <4>4, ZenonT(40)
        DEF ScanDir, Advance, HGoTo, Ahead, Settled
    <3> QED BY <3>1, <3>2
  <2>3. CASE StampJob(h)
    BY <1>1, <1>2, <2>1, <2>3 DEF StampJob, HGoTo
  <2>4. CASE WriteJob(h)
    BY <1>1, <1>2, <2>1, <2>4 DEF WriteJob, HGoTo
  <2>5. CASE ReadJob(h)
    BY <1>1, <1>2, <2>1, <2>5 DEF ReadJob, HGoTo
  <2>6. CASE ReadLog(h)
    BY <1>1, <1>2, <2>1, <2>6 DEF ReadLog, HGoTo
  <2>7. CASE DeleteFile(h)
    BY <1>1, <1>2, <2>1, <2>7 DEF DeleteFile, HGoTo
  <2>8. CASE DeleteLog(h)
    BY <1>1, <1>2, <2>1, <2>8 DEF DeleteLog, HGoTo
  <2>9. CASE ListDir(h)
    BY <1>1, <1>2, <2>1, <2>9 DEF ListDir, HGoTo
  <2>10. CASE ListEntry(h)
    BY <1>1, <1>2, <2>1, <2>10 DEF ListEntry
  <2>11. CASE ListNextDir(h)
    <3>1. hpc[h] = "entry" /\ hop[h] = "list" /\ hop' = hop /\ hjob' = hjob
      BY <2>11 DEF ListNextDir
    <3>2. hpc'[h] \in {"ok", "scan"}
      BY <2>11, <3>1 DEF ListNextDir, Advance, HGoTo
    <3> QED BY <1>1, <1>2, <2>1, <3>1, <3>2
  <2>12. CASE Reply(h)
    BY <1>1, <1>2, <2>1, <2>12 DEF Reply, HGoTo
  <2>13. ASSUME NEW op \in Ops, NEW j \in accepted \union {0}, Request(h, op, j)
        PROVE  Searched'
    <3>1. hpc'[h] = "scan" /\ hop'[h] = op /\ hjob'[h] = j /\ hdir'[h] = "pending"
      BY <2>13 DEF Request, Free, HGoTo
    <3>2. op = "list" \/ j \in accepted'
      BY <2>13 DEF Request
    <3>3. Ahead("pending")' = accepted'
      BY DEF Ahead
    <3> QED BY <1>1, <1>2, <2>1, <3>1, <3>2, <3>3
  <2> QED
    BY <1>4, <2>2, <2>3, <2>4, <2>5, <2>6, <2>7, <2>8, <2>9, <2>10, <2>11,
       <2>12, <2>13
    DEF HandlerStep, HandlerGoesOn
<1>5. ASSUME NEW d \in Daemons, CleanerStep(d) \/ WorkerStep(d)
      PROVE  UNCHANGED <<hpc, hop, hjob, hdir>>
  BY <1>5, OtherWorkers
  DEF CleanerStep, CleanerGoesOn, CleanerOnly, handlerVars, CleanStart,
      CleanList, CleanEntry, CleanRemove, CleanLog, CleanNext
<1>6. ASSUME NEW d \in Daemons, DaemonStep(d) PROVE Searched'
  BY <1>0, <1>1, <1>2, <1>6
  DEF DaemonStep, Stop, Exit, Start, Crash, handlerVars, HandlersTyped
<1>7. CASE UNCHANGED vars
  BY <1>3, <1>7 DEF vars, handlerVars
<1> QED BY <1>3, <1>4, <1>5, <1>6, <1>7 DEF Next

\* A job that a search has behind it, but not in the directory it is at, is
\* ahead of it in the next one.
LEMMA AheadNext ==
  ASSUME TypeOK, Allocated, Kept, NEW s \in Status
  PROVE  /\ dir[s] \subseteq Ahead(s)
         /\ Ahead(s) \subseteq dir[s] \union Ahead(After[s])
         /\ After[s] \in Status \union {"end"}
  BY DEF TypeOK, FilesTyped, Allocated, FilesAccepted, Kept, NoJobLost, Present,
         Ahead, After, Settled, Status

\* A listing that leaves a directory owes no job but those ahead of it.
LEMMA ListedStep ==
  ASSUME "remove" \notin Faults, [Next]_vars,
         TypeOK, Allocated, Claimed, Kept, Searched, Listed
  PROVE  Listed'
<1> USE DEF Listed, ListMissesNothing
<1>0. HandlersTyped /\ \A s \in Status : After[s] \in Status \union {"end"}
  BY AheadNext DEF TypeOK
<1>1. removed \subseteq removed'
  BY QuietStep, OtherWorkers DEF Next, Quiet
<1>2. \A s \in Status \union {"end"} : Ahead(s) \subseteq Ahead(s)'
  <2>1. Ahead("end") = removed /\ Ahead("end")' = removed'
    BY DEF Ahead
  <2> QED BY <1>1, <2>1, AheadGrows
<1>3. CASE UNCHANGED <<hpc, hop, hdir, hsnap, hseen, hknown>>
  BY <1>0, <1>1, <1>2, <1>3 DEF HandlersTyped
<1>4. ASSUME NEW h \in Handlers, HandlerStep(h) PROVE Listed'
  <2> USE <1>0 DEF HandlersTyped
  <2> DEFINE Same(g) == /\ hpc'[g] = hpc[g] /\ hop'[g] = hop[g] /\ hdir'[g] = hdir[g]
                        /\ hsnap'[g] = hsnap[g] /\ hseen'[g] = hseen[g]
                        /\ hknown'[g] = hknown[g]
             Owes(g) == hop[g] = "list" =>
                 /\ hpc[g] \in {"scan", "entry", "ok"}
                 /\ hpc[g] = "ok" => hknown[g] \ removed \subseteq hseen[g]
                 /\ hpc[g] = "scan" => hknown[g] \subseteq hseen[g] \union Ahead(hdir[g])
                 /\ hpc[g] = "entry" =>
                      /\ hsnap[g] \subseteq Ahead(hdir[g])
                      /\ hknown[g] \subseteq
                           hseen[g] \union hsnap[g] \union Ahead(After[hdir[g]])
  <2>1. \A g \in Handlers \ {h} : Same(g)
    BY <1>4
    DEF HandlerStep, HandlerGoesOn, Request, HGoTo, Advance, StampJob,
        WriteJob, ScanDir, ReadJob, ReadLog, DeleteFile, DeleteLog,
        ListDir, ListEntry, ListNextDir, Reply
  <2>2. \A g \in Handlers \ {h} : Owes(g)'
    BY <1>1, <1>2, <2>1
  <2>3. Owes(h)
    OBVIOUS
  <2>4. ASSUME NEW op \in Ops, NEW j \in accepted \union {0}, Request(h, op, j)
        PROVE  Owes(h)'
    <3>1. /\ hpc'[h] = "scan" /\ hop'[h] = op /\ hdir'[h] = "pending"
          /\ op = "list" => hknown'[h] = accepted'
      BY <2>4 DEF Request, Free, HGoTo, Searched
    <3>2. Ahead("pending")' = accepted'
      BY DEF Ahead
    <3> QED BY <3>1, <3>2
  <2>5. ASSUME ListDir(h) PROVE Owes(h)'
    <3>1. /\ hpc'[h] = "entry" /\ hdir' = hdir /\ hseen' = hseen
          /\ hknown' = hknown /\ hsnap'[h] = dir[hdir[h]] /\ hop[h] = "list"
          /\ hpc[h] = "scan"
      BY <2>5 DEF ListDir, HGoTo
    <3> QED BY <1>2, <2>3, <3>1, AheadNext
  <2>6. ASSUME ListEntry(h) PROVE Owes(h)'
    <3>1. PICK j \in hsnap[h] :
            /\ hsnap' = [hsnap EXCEPT ![h] = @ \ {j}]
            /\ hseen' = [hseen EXCEPT ![h] = @ \union ({j} \intersect dir[hdir[h]])]
      BY <2>6 DEF ListEntry
    <3>2. hpc[h] = "entry" /\ UNCHANGED <<hpc, hop, hdir, hknown>>
      BY <2>6 DEF ListEntry
    <3>3. Ahead(hdir[h]) \subseteq dir[hdir[h]] \union Ahead(After[hdir[h]])
      BY AheadNext
    <3> QED BY <1>2, <2>3, <3>1, <3>2, <3>3
  <2>7. ASSUME ListNextDir(h) PROVE Owes(h)'
    <3>1. /\ hpc[h] = "entry" /\ hsnap[h] = {}
          /\ UNCHANGED <<hop, hsnap, hseen, hknown, removed>>
      BY <2>7 DEF ListNextDir
    <3>2. CASE After[hdir[h]] = "end"
      BY <2>3, <2>7, <3>1, <3>2 DEF ListNextDir, Advance, HGoTo, Ahead
    <3>3. CASE After[hdir[h]] # "end"
      <4>1. hpc'[h] = "scan" /\ hdir'[h] = After[hdir[h]]
        BY <2>7, <3>3 DEF ListNextDir, Advance, HGoTo
      <4> QED BY <1>2, <2>3, <3>1, <4>1
    <3> QED BY <3>2, <3>3
  <2>8. ASSUME \/ StampJob(h) \/ WriteJob(h) \/ ScanDir(h) \/ ReadJob(h) \/ ReadLog(h)
               \/ DeleteFile(h) \/ DeleteLog(h) \/ Reply(h)
        PROVE  Owes(h)'
    <3>1. hop'[h] # "list"
      BY <2>3, <2>8
      DEF StampJob, WriteJob, ScanDir, ReadJob, ReadLog, DeleteFile, DeleteLog,
          Reply, Replies
    <3> QED BY <3>1
  <2>9. Owes(h)'
    BY <1>4, <2>4, <2>5, <2>6, <2>7, <2>8 DEF HandlerStep, HandlerGoesOn
  <2> QED BY <2>2, <2>9
<1>5. ASSUME NEW d \in Daemons, CleanerStep(d) \/ WorkerStep(d)
      PROVE  UNCHANGED <<hpc, hop, hdir, hsnap, hseen, hknown>>
  BY <1>5
  DEF CleanerStep, CleanerGoesOn, CleanerOnly, handlerVars, CleanStart,
      CleanList, CleanEntry, CleanRemove, CleanLog, CleanNext, WorkerStep,
      WorkerGoesOn, ElseUnchanged, MoveWrite, Tick, DrainStop, ReadPendingDir,
      OpenNextEntry, NoMoreEntries, Flock, StatPending, ReadPending, ClaimWrite,
      ClaimRemove, LoadFlow, CreateLog, EngineReturns, MarkWrite, MarkRemove
<1>6. ASSUME NEW d \in Daemons, DaemonStep(d) PROVE Listed'
  BY <1>0, <1>1, <1>2, <1>6
  DEF DaemonStep, Stop, Exit, Start, Crash, handlerVars, HandlersTyped
<1>7. CASE UNCHANGED vars
  BY <1>3, <1>7 DEF vars, handlerVars
<1> QED BY <1>3, <1>4, <1>5, <1>6, <1>7 DEF Next

\* Nothing but a worker that has read a job writes a file for it again.
LEMMA GoneStep ==
  ASSUME TypeOK, Allocated, [Next]_vars, NEW j \in Jobs, Gone(j)
  PROVE  Gone(j)'
<1> USE DEF Gone, AboutToWrite, Present, Moving, Holding
<1>0. FilesTyped /\ WorkersTyped /\ FilesAccepted /\ WorkersAccepted
  BY DEF TypeOK, Allocated
<1>1. CASE Quiet
  BY <1>0, <1>1 DEF Quiet, Status
<1>2. ASSUME NEW w \in Daemons, WorkerStep(w) PROVE Gone(j)'
  <2> USE <1>0 DEF FilesTyped, WorkersTyped
  <2>0. /\ \A v \in Daemons \ {w} : wpc'[v] = wpc[v] /\ wjob'[v] = wjob[v]
        /\ accepted' = accepted
    BY <1>2, OtherWorkers
  <2>1. CASE Tick(w)
    BY <2>0, <2>1 DEF Tick, GoTo, Status
  <2>2. CASE DrainStop(w)
    BY <2>0, <2>2 DEF DrainStop, GoTo, Status
  <2>3. CASE ReadPendingDir(w)
    BY <2>0, <2>3 DEF ReadPendingDir, GoTo, Status
  <2>4. CASE OpenNextEntry(w)
    BY <2>0, <2>4 DEF OpenNextEntry, GoTo, Rest, Status
  <2>5. CASE NoMoreEntries(w)
    BY <2>0, <2>5 DEF NoMoreEntries, GoTo, Forget, Rest, Status
  <2>6. CASE Flock(w)
    BY <2>0, <2>6 DEF Flock, GoTo, Status
  <2>7. CASE StatPending(w)
    BY <2>0, <2>7 DEF StatPending, GoTo, Status
  <2>8. CASE ReadPending(w)
    BY <2>0, <2>8 DEF ReadPending, GoTo, Forget, Status
  <2>9. CASE ClaimWrite(w)
    BY <2>0, <2>9 DEF ClaimWrite, GoTo, Forget, MoveWrite, Put, Status
  <2>10. CASE ClaimRemove(w)
    BY <2>0, <2>10 DEF ClaimRemove, GoTo, Unlinked, Drop, Status
  <2>11. CASE LoadFlow(w)
    BY <2>0, <2>11 DEF LoadFlow, GoTo, Status
  <2>12. CASE CreateLog(w)
    BY <2>0, <2>12 DEF CreateLog, GoTo, Status
  <2>13. CASE EngineReturns(w)
    BY <2>0, <2>13 DEF EngineReturns, GoTo, Status
  <2>14. CASE MarkWrite(w)
    BY <2>0, <2>14 DEF MarkWrite, GoTo, Forget, MoveWrite, Put, Status
  <2>15. CASE MarkRemove(w)
    BY <2>0, <2>15 DEF MarkRemove, GoTo, Forget, Unlinked, Drop, Status
  <2> QED
    BY <1>2, <2>1, <2>2, <2>3, <2>4, <2>5, <2>6, <2>7, <2>8, <2>9, <2>10,
       <2>11, <2>12, <2>13, <2>14, <2>15
    DEF WorkerStep, WorkerGoesOn
<1> QED BY <1>1, <1>2, QuietStep DEF Next

-----------------------------------------------------------------------------
(* The theorems *)

LEMMA InvariantInit == Init => IInv
  BY TypingInit
  DEF Init, IInv, Claimed, ExclusiveExecution, RunOnce, Judged, OneVerdict,
      Settled, Kept, NoJobLost, Logged, DoneHasLog, Searched, NotFoundIsTrue,
      Listed, ListMissesNothing, Claiming, Holding, Moving, Status

\* If removals do not fail, IInv holds in every reachable state, whatever else
\* happens: competing workers, deletions, crashes, failed writes.
THEOREM Invariance ==
  ASSUME "remove" \notin Faults
  PROVE  Spec => []IInv
<1>1. IInv /\ [Next]_vars => IInv'
  BY TypingStep, ClaimedStep, RunOnceStep, JudgedStep, KeptStep, LoggedStep,
     SearchedStep, ListedStep DEF IInv
<1> QED BY InvariantInit, <1>1, PTL DEF Spec

\* No two workers process one job at the same time.
THEOREM MutualExclusion ==
  ASSUME "remove" \notin Faults
  PROVE  Spec => []ExclusiveExecution
<1>1. IInv => ExclusiveExecution
  BY DEF IInv, Claimed
<1> QED BY Invariance, <1>1, PTL

\* No job is executed twice.
THEOREM NoSecondRun ==
  ASSUME "remove" \notin Faults
  PROVE  Spec => AtMostOnce
<1> DEFINE FreshRun == \A w \in Daemons :
                       wpc[w] = "log" /\ wpc'[w] = "exec" => wjob[w] \notin ran
<1>1. IInv => FreshRun
  BY DEF IInv, RunOnce
<1>2. Spec => [][FreshRun]_vars
  BY Invariance, <1>1, PTL DEF Spec
<1> QED BY <1>2 DEF AtMostOnce

\* No job is both done and failed.
THEOREM SingleVerdict ==
  ASSUME "remove" \notin Faults
  PROVE  Spec => []OneVerdict
<1>1. IInv => OneVerdict
  BY DEF IInv, Judged
<1> QED BY Invariance, <1>1, PTL

\* No accepted job disappears unless it is deleted or expires.
THEOREM NothingLost ==
  ASSUME "remove" \notin Faults
  PROVE  Spec => []NoJobLost
<1>1. IInv => NoJobLost
  BY DEF IInv, Kept
<1> QED BY Invariance, <1>1, PTL

\* The log of a done job is there.
THEOREM LogsAvailable ==
  ASSUME "remove" \notin Faults
  PROVE  Spec => []DoneHasLog
<1>1. IInv => DoneHasLog
  BY DEF IInv, Logged
<1> QED BY Invariance, <1>1, PTL

\* The API answers 404 only for a job that was deleted or has expired.
THEOREM HonestNotFound ==
  ASSUME "remove" \notin Faults
  PROVE  Spec => []NotFoundIsTrue
<1>1. IInv => NotFoundIsTrue
  BY DEF IInv, Searched
<1> QED BY Invariance, <1>1, PTL

\* A listing of all the jobs has every job that was there all the time.
THEOREM CompleteListing ==
  ASSUME "remove" \notin Faults
  PROVE  Spec => []ListMissesNothing
<1>1. IInv => ListMissesNothing
  BY DEF IInv, Listed
<1> QED BY Invariance, <1>1, PTL

\* A job removed while no worker had read it never comes back, whatever fails.
THEOREM GoneForGood == Spec => NoResurrection
<1> DEFINE Stays == \A j \in Jobs : Gone(j) => Gone(j)'
<1>1. TypeOK /\ Allocated /\ [Next]_vars => (TypeOK /\ Allocated)'
  BY TypingStep
<1>2. TypeOK /\ Allocated /\ [Next]_vars => Stays
  BY GoneStep
<1>3. Spec => [][Stays]_vars
  <2> HIDE DEF Stays
  <2> QED BY TypingInit, <1>1, <1>2, PTL DEF Spec
<1> QED BY <1>3 DEF NoResurrection

-----------------------------------------------------------------------------
(* A queue where nothing fails *)

Calm == Faults = {} /\ "crash" \notin Ends

\* Without crashes, steps of others leave a worker exactly as it is.
LEMMA CalmStep ==
  ASSUME Calm, TypeOK, Allocated,
         \/ UNCHANGED vars
         \/ \E d \in Daemons : CleanerStep(d) \/ DaemonStep(d)
         \/ \E h \in Handlers : HandlerStep(h)
  PROVE  UNCHANGED workerVars
  BY DEF Calm, vars, workerVars, CleanerStep, CleanerGoesOn, CleanerOnly, CleanStart,
         CleanList, CleanEntry, CleanRemove, CleanLog, CleanNext, DaemonStep,
         Stop, Exit, Crash, Start, HandlerStep, HandlerGoesOn, HandlerOnly,
         Request, StampJob, WriteJob, ScanDir, ReadJob, ReadLog, DeleteFile,
         DeleteLog, ListDir, ListEntry, ListNextDir, Reply

-----------------------------------------------------------------------------
(* Order *)

\* The loop passes an entry that is gone, or whose lock another worker has; and
\* a worker that gives up its lock has found the file gone or removed it.
LEMMA PassedStep ==
  ASSUME Calm, [Next]_vars, TypeOK, Allocated, Passed
  PROVE  Passed'
<1> USE DEF Passed, Behind, Claiming
<1>0. FilesTyped /\ WorkersTyped /\ FilesAccepted /\ WorkersAccepted
  BY DEF TypeOK, Allocated
<1>1. ASSUME \/ UNCHANGED vars
             \/ \E d \in Daemons : CleanerStep(d) \/ DaemonStep(d)
             \/ \E h \in Handlers : HandlerStep(h)
      PROVE  Passed'
  <2>1. UNCHANGED <<wpc, wlist, wjob>>
    BY <1>1, CalmStep DEF workerVars
  <2>2. dir'["pending"] \intersect accepted \subseteq dir["pending"]
    BY <1>1, QuietStep DEF Quiet, Status
  <2> QED BY <1>0, <2>1, <2>2 DEF WorkersAccepted
<1>2. ASSUME NEW w \in Daemons, WorkerStep(w) PROVE Passed'
  <2> USE <1>0 DEF FilesTyped, WorkersTyped, GoTo
  <2>0. \A v \in Daemons \ {w} : /\ wpc'[v] = wpc[v] /\ wjob'[v] = wjob[v]
                                 /\ wlist'[v] = wlist[v]
    BY <1>2
    DEF WorkerStep, WorkerGoesOn, MoveWrite, Forget, Tick, DrainStop,
        ReadPendingDir, OpenNextEntry, NoMoreEntries, Flock, StatPending,
        ReadPending, ClaimWrite, ClaimRemove, LoadFlow, CreateLog, EngineReturns,
        MarkWrite, MarkRemove
  <2>1. CASE Tick(w)
    BY <2>0, <2>1 DEF Tick
  <2>2. CASE DrainStop(w)
    BY <2>0, <2>2 DEF DrainStop
  <2>3. CASE ReadPendingDir(w)
    <3>1. wlist'[w] \subseteq Jobs /\ wjob'[w] = 0
      BY <2>3 DEF ReadPendingDir, Status
    <3>2. Behind(w)' = {}
      BY <3>1 DEF Jobs
    <3> QED BY <2>0, <2>3, <3>2 DEF ReadPendingDir
  <2>4. CASE OpenNextEntry(w)
    BY <2>0, <2>4 DEF OpenNextEntry, Rest, First, Jobs
  <2>5. CASE NoMoreEntries(w)
    BY <2>0, <2>5 DEF NoMoreEntries, Forget
  <2>6. CASE Flock(w)
    BY <2>0, <2>6 DEF Flock, LockFree
  <2>7. CASE StatPending(w)
    BY <2>0, <2>7 DEF StatPending
  <2>8. CASE ReadPending(w)
    BY <2>0, <2>8 DEF ReadPending, Forget
  <2>9. CASE ClaimWrite(w)
    BY <2>0, <2>9 DEF ClaimWrite, MoveWrite, Forget, Put, Status, Calm
  <2>10. CASE ClaimRemove(w)
    BY <2>0, <2>10 DEF ClaimRemove, Unlinked, Drop, Status, Calm
  <2>11. CASE LoadFlow(w)
    BY <2>0, <2>11 DEF LoadFlow
  <2>12. CASE CreateLog(w)
    BY <2>0, <2>12 DEF CreateLog
  <2>13. CASE EngineReturns(w)
    BY <2>0, <2>13 DEF EngineReturns
  <2>14. CASE MarkWrite(w)
    BY <2>0, <2>14 DEF MarkWrite, MoveWrite, Forget, Put, Status, Calm, Holding
  <2>15. CASE MarkRemove(w)
    BY <2>0, <2>15 DEF MarkRemove, Forget, Unlinked, Drop, Status, Calm
  <2> QED
    BY <1>2, <2>1, <2>2, <2>3, <2>4, <2>5, <2>6, <2>7, <2>8, <2>9, <2>10,
       <2>11, <2>12, <2>13, <2>14, <2>15
    DEF WorkerStep, WorkerGoesOn
<1> QED BY <1>1, <1>2 DEF Next
-----------------------------------------------------------------------------
(* Running jobs *)

\* A worker lets go of a running job by removing its file.
LEMMA HeldStep ==
  ASSUME Calm, [Next]_vars, TypeOK, Allocated, RunningIsHeld
  PROVE  RunningIsHeld'
<1> USE DEF RunningIsHeld, Holding
<1>0. FilesTyped /\ WorkersTyped /\ WorkersAccepted
  BY DEF TypeOK, Allocated
<1>1. ASSUME \/ UNCHANGED vars
             \/ \E d \in Daemons : CleanerStep(d) \/ DaemonStep(d)
             \/ \E h \in Handlers : HandlerStep(h)
      PROVE  RunningIsHeld'
  <2>1. UNCHANGED <<wpc, wjob>>
    BY <1>1, CalmStep DEF workerVars
  <2>2. dir'["running"] \subseteq dir["running"]
    BY <1>1, QuietStep DEF Quiet, Status
  <2> QED BY <2>1, <2>2
<1>2. ASSUME NEW w \in Daemons, WorkerStep(w) PROVE RunningIsHeld'
  <2> USE <1>0 DEF FilesTyped, WorkersTyped, WorkersAccepted, GoTo
  <2>0. \A v \in Daemons \ {w} : wpc'[v] = wpc[v] /\ wjob'[v] = wjob[v]
    BY <1>2, OtherWorkers
  <2>1. CASE Tick(w)
    BY <2>0, <2>1 DEF Tick
  <2>2. CASE DrainStop(w)
    BY <2>0, <2>2 DEF DrainStop
  <2>3. CASE ReadPendingDir(w)
    BY <2>0, <2>3 DEF ReadPendingDir
  <2>4. CASE OpenNextEntry(w)
    BY <2>0, <2>4 DEF OpenNextEntry, Rest
  <2>5. CASE NoMoreEntries(w)
    BY <2>0, <2>5 DEF NoMoreEntries, Forget, Rest
  <2>6. CASE Flock(w)
    BY <2>0, <2>6 DEF Flock, LockFree
  <2>7. CASE StatPending(w)
    BY <2>0, <2>7 DEF StatPending
  <2>8. CASE ReadPending(w)
    BY <2>0, <2>8 DEF ReadPending, Forget
  <2>9. CASE ClaimWrite(w)
    BY <2>0, <2>9 DEF ClaimWrite, MoveWrite, Forget, Put, Status, Calm
  <2>10. CASE ClaimRemove(w)
    BY <2>0, <2>10 DEF ClaimRemove, Unlinked, Drop, Status, Calm
  <2>11. CASE LoadFlow(w)
    BY <2>0, <2>11 DEF LoadFlow
  <2>12. CASE CreateLog(w)
    BY <2>0, <2>12 DEF CreateLog
  <2>13. CASE EngineReturns(w)
    BY <2>0, <2>13 DEF EngineReturns
  <2>14. CASE MarkWrite(w)
    BY <2>0, <2>14 DEF MarkWrite, MoveWrite, Forget, Put, Status, Calm
  <2>15. CASE MarkRemove(w)
    BY <2>0, <2>15 DEF MarkRemove, Forget, Unlinked, Drop, Status, Calm
  <2> QED
    BY <1>2, <2>1, <2>2, <2>3, <2>4, <2>5, <2>6, <2>7, <2>8, <2>9, <2>10,
       <2>11, <2>12, <2>13, <2>14, <2>15
    DEF WorkerStep, WorkerGoesOn
<1> QED BY <1>1, <1>2 DEF Next

-----------------------------------------------------------------------------
(* Logs *)

\* Who removes the file of a settled job goes on to remove the log.
LEMMA UnloggingStep ==
  ASSUME Calm, TypeOK,
         \/ UNCHANGED vars
         \/ \E d \in Daemons : CleanerStep(d) \/ DaemonStep(d)
         \/ \E h \in Handlers : HandlerStep(h),
         NEW j \in log'
  PROVE  /\ j \in log
         /\ Unlogging(j) => Unlogging(j)'
         /\ j \in Settled => Unlogging(j)' \/ j \in Settled'
<1> DEFINE Goal == /\ j \in log
                   /\ Unlogging(j) => Unlogging(j)'
                   /\ j \in Settled => Unlogging(j)' \/ j \in Settled'
<1> USE DEF Unlogging, Settled
<1>0. FilesTyped /\ HandlersTyped /\ CleanersTyped
  BY DEF TypeOK
<1>1. CASE UNCHANGED vars
  BY <1>1 DEF vars, handlerVars, cleanerVars
<1>2. ASSUME NEW h \in Handlers, HandlerStep(h) PROVE Goal
  <2> USE <1>0 DEF HandlersTyped, FilesTyped, HGoTo
  <2>1. UNCHANGED <<cpc, cjob>> /\ \A g \in Handlers \ {h} :
                                   hpc'[g] = hpc[g] /\ hjob'[g] = hjob[g]
    BY <1>2
    DEF HandlerOnly, cleanerVars, HandlerStep, HandlerGoesOn, Advance, Request,
        StampJob, WriteJob, ScanDir, ReadJob, ReadLog, DeleteFile,
        DeleteLog, ListDir, ListEntry, ListNextDir, Reply
  <2>2. CASE DeleteFile(h)
    <3>1. /\ hpc[h] # "unlog" /\ log' = log /\ hjob' = hjob
          /\ \/ hpc'[h] = "unlog" /\ dir' = Drop(hdir[h], hjob[h])
             \/ dir' = dir
      BY <2>2 DEF DeleteFile
    <3>2. \A k \in Settled \ Settled' : hpc'[h] = "unlog" /\ hjob'[h] = k
      BY <3>1 DEF Drop, Status
    <3> QED BY <2>1, <3>1, <3>2
  <2>3. CASE DeleteLog(h)
    BY <2>1, <2>3 DEF DeleteLog, Calm
  <2>4. CASE WriteJob(h)
    BY <2>1, <2>4 DEF WriteJob, Put, Status
  <2>5. CASE ~DeleteFile(h) /\ ~DeleteLog(h) /\ ~WriteJob(h)
    <3>1. UNCHANGED <<dir, log>> /\ hpc[h] # "unlog"
      BY <1>2, <2>5
      DEF HandlerStep, HandlerGoesOn, Request, StampJob, Free, Replies,
          ScanDir, ReadJob, ReadLog, ListDir, ListEntry, ListNextDir, Reply
    <3> QED BY <2>1, <3>1
  <2> QED BY <2>2, <2>3, <2>4, <2>5
<1>3. ASSUME NEW d \in Daemons, CleanerStep(d) PROVE Goal
  <2> USE <1>0 DEF CleanersTyped, FilesTyped, CGoTo
  <2>1. UNCHANGED <<hpc, hjob>> /\ \A c \in Daemons \ {d} :
                                   cpc'[c] = cpc[c] /\ cjob'[c] = cjob[c]
    BY <1>3
    DEF CleanerOnly, handlerVars, CleanerStep, CleanerGoesOn, CleanStart,
        CleanList, CleanEntry, CleanRemove, CleanLog, CleanNext
  <2>2. CASE CleanRemove(d)
    <3>1. /\ cpc[d] # "unlog" /\ log' = log
          /\ \/ cpc'[d] = "unlog" /\ dir' = Drop(cdir[d], cjob[d]) /\ cjob' = cjob
             \/ dir' = dir
      BY <2>2 DEF CleanRemove
    <3>2. \A k \in Settled \ Settled' : cpc'[d] = "unlog" /\ cjob'[d] = k
      BY <3>1 DEF Drop, Status
    <3> QED BY <2>1, <3>1, <3>2
  <2>3. CASE CleanLog(d)
    BY <2>1, <2>3 DEF CleanLog, Calm
  <2>4. CASE ~CleanRemove(d) /\ ~CleanLog(d)
    <3>1. UNCHANGED <<dir, log>> /\ cpc[d] # "unlog"
      BY <1>3, <2>4
      DEF CleanerStep, CleanerGoesOn, CleanStart, CleanList, CleanEntry, CleanNext
    <3> QED BY <2>1, <3>1
  <2> QED BY <2>2, <2>3, <2>4
<1>4. ASSUME NEW d \in Daemons, DaemonStep(d) PROVE Goal
  BY <1>4 DEF Calm, DaemonStep, Stop, Exit, Crash, Start, DaemonOnly, handlerVars,
              cleanerVars
<1> QED BY <1>1, <1>2, <1>3, <1>4

\* A log comes with the run of its job, which ends in a verdict.
LEMMA LogsOwnedStep ==
  ASSUME Calm, [Next]_vars, TypeOK, Allocated, LogsOwned
  PROVE  LogsOwned'
<1> USE DEF LogsOwned, Settled
<1>0. FilesTyped /\ WorkersTyped /\ WorkersAccepted
  BY DEF TypeOK, Allocated
<1>1. ASSUME \/ UNCHANGED vars
             \/ \E d \in Daemons : CleanerStep(d) \/ DaemonStep(d)
             \/ \E h \in Handlers : HandlerStep(h)
      PROVE  LogsOwned'
  <2>1. UNCHANGED <<wpc, wjob>>
    BY <1>1, CalmStep DEF workerVars
  <2> QED BY <1>1, <2>1, UnloggingStep
<1>2. ASSUME NEW w \in Daemons, WorkerStep(w) PROVE LogsOwned'
  <2> USE <1>0 DEF FilesTyped, WorkersTyped, WorkersAccepted, GoTo
  <2>0. /\ \A v \in Daemons \ {w} : wpc'[v] = wpc[v] /\ wjob'[v] = wjob[v]
        /\ \A j : Unlogging(j)' <=> Unlogging(j)
    BY <1>2, OtherWorkers DEF Unlogging
  <2>1. CASE Tick(w)
    BY <2>0, <2>1 DEF Tick
  <2>2. CASE DrainStop(w)
    BY <2>0, <2>2 DEF DrainStop
  <2>3. CASE ReadPendingDir(w)
    BY <2>0, <2>3 DEF ReadPendingDir
  <2>4. CASE OpenNextEntry(w)
    BY <2>0, <2>4 DEF OpenNextEntry, Rest
  <2>5. CASE NoMoreEntries(w)
    BY <2>0, <2>5 DEF NoMoreEntries, Forget, Rest
  <2>6. CASE Flock(w)
    BY <2>0, <2>6 DEF Flock, LockFree
  <2>7. CASE StatPending(w)
    BY <2>0, <2>7 DEF StatPending
  <2>8. CASE ReadPending(w)
    BY <2>0, <2>8 DEF ReadPending, Forget
  <2>9. CASE ClaimWrite(w)
    BY <2>0, <2>9 DEF ClaimWrite, MoveWrite, Forget, Put, Status, Calm
  <2>10. CASE ClaimRemove(w)
    BY <2>0, <2>10 DEF ClaimRemove, Unlinked, Drop, Status, Calm
  <2>11. CASE LoadFlow(w)
    BY <2>0, <2>11 DEF LoadFlow
  <2>12. CASE CreateLog(w)
    BY <2>0, <2>12 DEF CreateLog
  <2>13. CASE EngineReturns(w)
    BY <2>0, <2>13 DEF EngineReturns
  <2>14. CASE MarkWrite(w)
    BY <2>0, <2>14 DEF MarkWrite, MoveWrite, Forget, Put, Status, Calm
  <2>15. CASE MarkRemove(w)
    BY <2>0, <2>15 DEF MarkRemove, Forget, Unlinked, Drop, Status, Calm
  <2> QED
    BY <1>2, <2>1, <2>2, <2>3, <2>4, <2>5, <2>6, <2>7, <2>8, <2>9, <2>10,
       <2>11, <2>12, <2>13, <2>14, <2>15
    DEF WorkerStep, WorkerGoesOn
<1> QED BY <1>1, <1>2 DEF Next

-----------------------------------------------------------------------------
(* The theorems *)

\* The three together, and what they rest on: the invariant of a queue where
\* nothing fails.
THEOREM CalmInvariance ==
  ASSUME Faults = {}, "crash" \notin Ends
  PROVE  Spec => [](TypeOK /\ Allocated /\ CalmInv)
<1> DEFINE Inv == TypeOK /\ Allocated /\ CalmInv
<1> USE DEF Calm
<1>1. Init => Inv
  <2>1. Init => TypeOK /\ Allocated
    BY TypingInit
  <2>2. Init => CalmInv
    BY DEF Init, CalmInv, Passed, Behind, LogsOwned, RunningIsHeld, Claiming, Status
  <2> QED BY <2>1, <2>2
<1>2. Inv /\ [Next]_vars => Inv'
  BY TypingStep, PassedStep, LogsOwnedStep, HeldStep DEF CalmInv
<1> QED
  <2> HIDE DEF Inv
  <2>1. Spec => []Inv
    BY <1>1, <1>2, PTL DEF Spec
  <2> QED BY <2>1 DEF Inv

\* Jobs are claimed in the order they came, but for those that another worker
\* is claiming.
THEOREM ClaimsInOrder ==
  ASSUME Faults = {}, "crash" \notin Ends
  PROVE  Spec => []FifoClaim
<1>1. CalmInv => FifoClaim
  BY DEF CalmInv, Passed, Behind, FifoClaim, Claiming
<1> QED BY CalmInvariance, <1>1, PTL

\* A running job has its worker: a stop leaves none behind.
THEOREM RunningJobsHeld ==
  ASSUME Faults = {}, "crash" \notin Ends
  PROVE  Spec => []RunningIsHeld
<1>1. CalmInv => RunningIsHeld
  BY DEF CalmInv
<1> QED BY CalmInvariance, <1>1, PTL

\* No log outlives its job.
THEOREM LogsGoWithJobs ==
  ASSUME Faults = {}, "crash" \notin Ends
  PROVE  Spec => []NoOrphanLog
<1>1. CalmInv => NoOrphanLog
  BY DEF CalmInv, LogsOwned, Unlogging, NoOrphanLog, Settled, Present, Status, Holding
<1> QED BY CalmInvariance, <1>1, PTL
=============================================================================
