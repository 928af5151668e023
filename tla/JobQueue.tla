------------------------------ MODULE JobQueue ------------------------------
(***************************************************************************)
(* The file-based job queue (internal/queue/queue.go), the worker and the  *)
(* cleanup routine that serve it (internal/queue/worker.go), the API       *)
(* handlers that read and change it (internal/server/server.go) and the    *)
(* life of the daemon around them (cmd/yafe/main.go).                      *)
(*                                                                         *)
(* The queue is four directories, one per status.  No lock protects them:  *)
(* apart from one flock on a pending file, every operation is a series of  *)
(* file-system calls that other operations interleave with.  Each such     *)
(* call is one action.  A job is its file name: job numbers are ordered as *)
(* the "<CreatedAt>-<ID>.json" names are.  "Write the temporary file, then *)
(* rename it" is one step, because nothing ever looks at a ".tmp" name.    *)
(***************************************************************************)
EXTENDS Naturals

CONSTANTS
  MaxJobs,    \* bound: jobs ever created
  Daemons,    \* processes serving the same queue directory
  Handlers,   \* requests (or cron callbacks) in flight at one time
  Home,       \* the daemon each handler belongs to
  Ops,        \* the operations that handlers perform
  Retention,  \* daemon -> the statuses with a cleanup retention > 0
  Faults,     \* the file-system calls that may fail
  Ends,       \* the ways a daemon may end
  MaxEnds     \* bound: daemon ends in one behaviour

Jobs == 1..MaxJobs
Status == {"pending", "running", "done", "failed"}

ASSUME BoundsAssumption == MaxJobs \in Nat /\ MaxEnds \in Nat
ASSUME HomeAssumption   == Home \in [Handlers -> Daemons]
ASSUME OptionsAssumption ==
  /\ Ops \subseteq {"enqueue", "delete", "get", "logs", "list"}
  /\ Retention \in [Daemons -> SUBSET {"done", "failed"}]
  /\ Faults \subseteq {"write", "remove"}
  /\ Ends \subseteq {"stop", "crash"}

VARIABLES
  dir,       \* status -> the jobs with a file in that directory
  log,       \* the jobs with a log file
  next,      \* the next job number, i.e. the clock and the ID generator
  wpc,       \* worker: where it is
  wlist,     \* worker: the pending directory as listed by Dequeue
  wjob,      \* worker: the entry it is at (0: none)
  wout,      \* worker: the outcome to record
  cpc,       \* cleanup: where it is
  cdir,      \* cleanup: the directory being cleaned
  clist,     \* cleanup: entries still to visit
  cjob,      \* cleanup: the expired entry being removed (0: none)
  hpc,       \* handler: where it is
  hop,       \* handler: its operation
  hjob,      \* handler: the job it is about (0: none)
  hdir,      \* handler: the directory its search has reached
  hsnap,     \* handler: entries of that directory still to read (list)
  hseen,     \* handler: jobs read so far (list)
  up,        \* daemon: "up", "stopping" or "down"
  ends,      \* daemon ends so far
  accepted,  \* history: jobs whose pending file was written
  removed,   \* history: jobs some copy of which was deleted or expired
  ran,       \* history: jobs whose execution was started
  hknown     \* history: jobs accepted when the handler's list began

workerVars  == <<wpc, wlist, wjob, wout>>
cleanerVars == <<cpc, cdir, clist, cjob>>
handlerVars == <<hpc, hop, hjob, hdir, hsnap, hseen, hknown>>
daemonVars  == <<up, ends>>
vars == <<dir, log, next, workerVars, cleanerVars, handlerVars, daemonVars,
          accepted, removed, ran>>

-----------------------------------------------------------------------------
(* The files *)

Put(status, j)  == [dir EXCEPT ![status] = @ \union {j}]
Drop(status, j) == [dir EXCEPT ![status] = @ \ {j}]

\* The directory searched after each one: the order of JobStatusValues.
\* (A definition commented "Mutant:" is a slip that the mutant checks put in
\* the place of the definition after it; the specification never uses it.)
\* Mutant: the same enumeration with "running" last.
AfterRunningLast == [pending |-> "done", done |-> "failed",
                     failed |-> "running", running |-> "end"]
After == [pending |-> "running", running |-> "done",
          done |-> "failed", failed |-> "end"]

\* Entries come out of ReadDir and sort.Slice by name.
First(entries, j) == j \in entries /\ \A k \in entries : j <= k

-----------------------------------------------------------------------------
Init ==
  /\ dir = [s \in Status |-> {}] /\ log = {} /\ next = 1
  /\ wpc = [w \in Daemons |-> "idle"] /\ wlist = [w \in Daemons |-> {}]
  /\ wjob = [w \in Daemons |-> 0] /\ wout = [w \in Daemons |-> "none"]
  /\ cpc = [d \in Daemons |-> "idle"] /\ cdir = [d \in Daemons |-> "done"]
  /\ clist = [d \in Daemons |-> {}] /\ cjob = [d \in Daemons |-> 0]
  /\ hpc = [h \in Handlers |-> "idle"] /\ hop = [h \in Handlers |-> "none"]
  /\ hjob = [h \in Handlers |-> 0] /\ hdir = [h \in Handlers |-> "pending"]
  /\ hsnap = [h \in Handlers |-> {}] /\ hseen = [h \in Handlers |-> {}]
  /\ hknown = [h \in Handlers |-> {}]
  /\ up = [d \in Daemons |-> "up"] /\ ends = 0
  /\ accepted = {} /\ removed = {} /\ ran = {}

-----------------------------------------------------------------------------
(* The worker: drainQueue, processNext, Dequeue, tryClaimJob, moveJob.     *)

\* What a worker step of the claim or of a run leaves alone.
ElseUnchanged == UNCHANGED <<next, cleanerVars, handlerVars, daemonVars,
                             accepted, removed>>

GoTo(w, pc) == wpc' = [wpc EXCEPT ![w] = pc]

\* Dequeue or processNext returns: its locals are gone.
Forget(w, pc) ==
  /\ GoTo(w, pc)
  /\ wlist' = [wlist EXCEPT ![w] = {}]
  /\ wjob'  = [wjob  EXCEPT ![w] = 0]
  /\ wout'  = [wout  EXCEPT ![w] = "none"]

\* Mutant: the loop waits for the ticker only.
TickAlways(w) ==
  /\ wpc[w] = "idle" /\ up[w] # "down"
  /\ GoTo(w, "drain")
  /\ UNCHANGED <<dir, log, ran, wlist, wjob, wout>> /\ ElseUnchanged
Tick(w) ==
  /\ wpc[w] = "idle" /\ up[w] = "up"
  /\ GoTo(w, "drain")
  /\ UNCHANGED <<dir, log, ran, wlist, wjob, wout>> /\ ElseUnchanged

\* drainQueue looks at the context before every job.
DrainStop(w) ==
  /\ wpc[w] = "drain" /\ up[w] = "stopping"
  /\ GoTo(w, "idle")
  /\ UNCHANGED <<dir, log, ran, wlist, wjob, wout>> /\ ElseUnchanged

ReadPendingDir(w) ==
  /\ wpc[w] = "drain" /\ up[w] = "up"
  /\ GoTo(w, "next")
  /\ wlist' = [wlist EXCEPT ![w] = dir["pending"]]
  /\ UNCHANGED <<dir, log, ran, wjob, wout>> /\ ElseUnchanged

\* The entries that Dequeue's loop has not reached yet.
\* Mutant: the loop starts at the second entry.
RestButFirst(w) == {j \in wlist[w] : j > wjob[w] /\ ~First(wlist[w], j)}
Rest(w) == {j \in wlist[w] : j > wjob[w]}

\* os.Open of the next entry; one that is gone is skipped.
\* Mutant: the entries are visited in no particular order.
OpenAnyEntry(w) ==
  /\ wpc[w] = "next"
  /\ \E j \in Rest(w) :
       /\ wjob' = [wjob EXCEPT ![w] = j]
       /\ GoTo(w, IF j \in dir["pending"] THEN "lock" ELSE "next")
  /\ UNCHANGED <<dir, log, ran, wlist, wout>> /\ ElseUnchanged
OpenNextEntry(w) ==
  /\ wpc[w] = "next"
  /\ \E j \in Rest(w) :
       /\ First(Rest(w), j)
       /\ wjob' = [wjob EXCEPT ![w] = j]
       /\ GoTo(w, IF j \in dir["pending"] THEN "lock" ELSE "next")
  /\ UNCHANGED <<dir, log, ran, wlist, wout>> /\ ElseUnchanged

NoMoreEntries(w) ==
  /\ wpc[w] = "next" /\ Rest(w) = {}
  /\ Forget(w, "idle")
  /\ UNCHANGED <<dir, log, ran>> /\ ElseUnchanged

\* The flock is held from here to tryClaimJob's return.
Claiming == {"stat", "read", "move", "unlink"}
\* Mutant: the lock is not exclusive.
SharedLock(w) == wpc[w] = "lock"
LockFree(w) ==
  \A v \in Daemons \ {w} : wpc[v] \in Claiming => wjob[v] # wjob[w]

Flock(w) ==
  /\ wpc[w] = "lock"
  /\ GoTo(w, IF LockFree(w) THEN "stat" ELSE "next")
  /\ UNCHANGED <<dir, log, ran, wlist, wjob, wout>> /\ ElseUnchanged

\* Mutant: no second look at the path; the open descriptor is read instead.
StatAndReadDescriptor(w) ==
  /\ wpc[w] = "stat"
  /\ GoTo(w, "move")
  /\ UNCHANGED <<dir, log, ran, wlist, wjob, wout>> /\ ElseUnchanged
StatPending(w) ==
  /\ wpc[w] = "stat"
  /\ GoTo(w, IF wjob[w] \in dir["pending"] THEN "read" ELSE "next")
  /\ UNCHANGED <<dir, log, ran, wlist, wjob, wout>> /\ ElseUnchanged

\* If the file went away since the Stat, the error ends the whole drain.
ReadPending(w) ==
  /\ wpc[w] = "read"
  /\ \/ /\ wjob[w] \in dir["pending"]
        /\ GoTo(w, "move")
        /\ UNCHANGED <<wlist, wjob, wout>>
     \/ /\ wjob[w] \notin dir["pending"]
        /\ Forget(w, "idle")
  /\ UNCHANGED <<dir, log, ran>> /\ ElseUnchanged

\* moveJob writes the new file first ...
MoveWrite(w, from, to, status) ==
  /\ wpc[w] = from
  /\ \/ /\ dir' = Put(status, wjob[w])
        /\ GoTo(w, to)
        /\ UNCHANGED <<wlist, wjob, wout>>
     \/ /\ "write" \in Faults   \* the error reaches drainQueue
        /\ Forget(w, "idle")
        /\ UNCHANGED dir
  /\ UNCHANGED <<log, ran>> /\ ElseUnchanged

\* ... and removes the old one last; a failure is only logged, a file that is
\* already gone is no failure.
Unlinked(w, status) ==
  \/ dir' = Drop(status, wjob[w])
  \/ "remove" \in Faults /\ UNCHANGED dir

\* Mutant: the old file is removed and the new one never written.
ClaimUnwritten(w) ==
  /\ wpc[w] = "move"
  /\ dir' = Drop("pending", wjob[w])
  /\ GoTo(w, "unlink")
  /\ UNCHANGED <<wlist, wjob, wout, log, ran>> /\ ElseUnchanged
ClaimWrite(w) == MoveWrite(w, "move", "unlink", "running")

\* With the file out of pending, Dequeue returns.
\* Mutant: the old file is never removed.
ClaimKeepsPending(w) ==
  /\ wpc[w] = "unlink"
  /\ GoTo(w, "load") /\ wlist' = [wlist EXCEPT ![w] = {}]
  /\ UNCHANGED <<dir, wjob, wout, log, ran>> /\ ElseUnchanged
ClaimRemove(w) ==
  /\ wpc[w] = "unlink"
  /\ Unlinked(w, "pending")
  /\ GoTo(w, "load") /\ wlist' = [wlist EXCEPT ![w] = {}]
  /\ UNCHANGED <<wjob, wout, log, ran>> /\ ElseUnchanged

\* processNext: the flow's file may be gone or no longer parse.
LoadFlow(w) ==
  /\ wpc[w] = "load"
  /\ \/ GoTo(w, "log") /\ UNCHANGED wout
     \/ GoTo(w, "mark") /\ wout' = [wout EXCEPT ![w] = "failed"]
  /\ UNCHANGED <<dir, log, ran, wlist, wjob>> /\ ElseUnchanged

\* os.Create of the log; the engine runs only if it succeeds.
\* Mutant: a job whose log cannot be created runs all the same.
RunWithoutLog(w) ==
  /\ wpc[w] = "log"
  /\ \/ log' = log \union {wjob[w]}
     \/ "write" \in Faults /\ UNCHANGED log
  /\ ran' = ran \union {wjob[w]}
  /\ GoTo(w, "exec")
  /\ UNCHANGED <<dir, wlist, wjob, wout>> /\ ElseUnchanged
CreateLog(w) ==
  /\ wpc[w] = "log"
  /\ \/ /\ log' = log \union {wjob[w]}
        /\ ran' = ran \union {wjob[w]}
        /\ GoTo(w, "exec")
        /\ UNCHANGED wout
     \/ /\ "write" \in Faults
        /\ GoTo(w, "mark") /\ wout' = [wout EXCEPT ![w] = "failed"]
        /\ UNCHANGED <<log, ran>>
  /\ UNCHANGED <<dir, wlist, wjob>> /\ ElseUnchanged

\* engine.Run returns, with an error or without; it does return when the
\* context is canceled, and the job is then marked like any other.
\* Mutant: a run cut short by the shutdown is not recorded.
AbandonOnStop(w) ==
  /\ wpc[w] = "exec"
  /\ \/ /\ up[w] = "stopping" /\ Forget(w, "idle")
     \/ /\ up[w] = "up" /\ GoTo(w, "mark")
        /\ \E v \in {"done", "failed"} : wout' = [wout EXCEPT ![w] = v]
        /\ UNCHANGED <<wlist, wjob>>
  /\ UNCHANGED <<dir, log, ran>> /\ ElseUnchanged
\* Mutant: a failed run is recorded under the wrong status.
EngineReturnsRunning(w) ==
  /\ wpc[w] = "exec"
  /\ GoTo(w, "mark")
  /\ \E v \in {"done", "running"} : wout' = [wout EXCEPT ![w] = v]
  /\ UNCHANGED <<dir, log, ran, wlist, wjob>> /\ ElseUnchanged
EngineReturns(w) ==
  /\ wpc[w] = "exec"
  /\ GoTo(w, "mark")
  /\ \E v \in {"done", "failed"} : wout' = [wout EXCEPT ![w] = v]
  /\ UNCHANGED <<dir, log, ran, wlist, wjob>> /\ ElseUnchanged

\* MarkDone, MarkFailed.
MarkWrite(w) == MoveWrite(w, "mark", "unmark", wout[w])

MarkRemove(w) ==
  /\ wpc[w] = "unmark"
  /\ Unlinked(w, "running")
  /\ Forget(w, "drain")
  /\ UNCHANGED <<log, ran>> /\ ElseUnchanged

WorkerGoesOn(w) ==   \* every step but waking up
  \/ DrainStop(w) \/ ReadPendingDir(w) \/ OpenNextEntry(w) \/ NoMoreEntries(w)
  \/ Flock(w) \/ StatPending(w) \/ ReadPending(w) \/ ClaimWrite(w)
  \/ ClaimRemove(w) \/ LoadFlow(w) \/ CreateLog(w) \/ EngineReturns(w)
  \/ MarkWrite(w) \/ MarkRemove(w)
WorkerStep(w) == Tick(w) \/ WorkerGoesOn(w)

-----------------------------------------------------------------------------
(* The API handlers and the scheduler's enqueue.  A request that the server *)
(* accepts in the instant between the cancellation and Shutdown stands for  *)
(* one accepted just before the cancellation.                               *)

HandlerOnly == UNCHANGED <<workerVars, cleanerVars, daemonVars, ran>>
HGoTo(h, pc) == hpc' = [hpc EXCEPT ![h] = pc]
Free(h) == hpc[h] = "idle" /\ up[Home[h]] = "up"

\* Enqueue: the name and the time stamp are taken before the file is written.
StampJob(h) ==
  /\ Free(h) /\ "enqueue" \in Ops /\ next <= MaxJobs
  /\ HGoTo(h, "write")
  /\ hop' = [hop EXCEPT ![h] = "enqueue"]
  /\ hjob' = [hjob EXCEPT ![h] = next]
  /\ next' = next + 1
  /\ UNCHANGED <<dir, log, accepted, removed, hdir, hsnap, hseen, hknown>>
  /\ HandlerOnly

WriteJob(h) ==
  /\ hpc[h] = "write"
  /\ \/ /\ dir' = Put("pending", hjob[h])
        /\ accepted' = accepted \union {hjob[h]}
        /\ HGoTo(h, "ok")
     \/ /\ "write" \in Faults
        /\ HGoTo(h, "error")
        /\ UNCHANGED <<dir, accepted>>
  /\ UNCHANGED <<log, next, removed, hop, hjob, hdir, hsnap, hseen, hknown>>
  /\ HandlerOnly

\* Every other request names a job that was once accepted, or lists them all.
Request(h, op, j) ==
  /\ Free(h) /\ op \in Ops
  /\ \/ op \in {"delete", "get", "logs"} /\ j \in accepted
     \/ op = "list" /\ j = 0
  /\ HGoTo(h, "scan")
  /\ hop' = [hop EXCEPT ![h] = op]
  /\ hjob' = [hjob EXCEPT ![h] = j]
  /\ hknown' = [hknown EXCEPT ![h] = IF op = "list" THEN accepted ELSE {}]
  /\ UNCHANGED <<dir, log, next, accepted, removed, hdir, hsnap, hseen>>
  /\ HandlerOnly

\* On to the next directory, or out of the loop.
Advance(h) ==
  IF After[hdir[h]] = "end"
  THEN HGoTo(h, IF hop[h] = "list" THEN "ok" ELSE "notfound") /\ UNCHANGED hdir
  ELSE HGoTo(h, "scan") /\ hdir' = [hdir EXCEPT ![h] = After[hdir[h]]]

\* ReadDir of one status, in GetJob or DeleteJob.
ScanDir(h) ==
  /\ hpc[h] = "scan" /\ hop[h] # "list"
  /\ IF hjob[h] \in dir[hdir[h]] THEN HGoTo(h, "hit") /\ UNCHANGED hdir
                                 ELSE Advance(h)
  /\ UNCHANGED <<dir, log, next, accepted, removed, hop, hjob, hsnap, hseen, hknown>>
  /\ HandlerOnly

\* GetJob reads what it found.  Its "continue searching" never happens:
\* os.IsNotExist does not look through the error that readJob wraps.
ReadJob(h) ==
  /\ hpc[h] = "hit" /\ hop[h] \in {"get", "logs"}
  /\ HGoTo(h, CASE hjob[h] \notin dir[hdir[h]] -> "error"
                [] hjob[h] \in dir[hdir[h]] /\ hop[h] = "get" -> "ok"
                [] OTHER -> IF hdir[h] \in {"pending", "running"}
                            THEN "tooearly" ELSE "readlog")
  /\ UNCHANGED <<dir, log, next, accepted, removed, hop, hjob, hdir, hsnap, hseen, hknown>>
  /\ HandlerOnly

ReadLog(h) ==
  /\ hpc[h] = "readlog"
  /\ HGoTo(h, IF hjob[h] \in log THEN "ok" ELSE "nolog")
  /\ UNCHANGED <<dir, log, next, accepted, removed, hop, hjob, hdir, hsnap, hseen, hknown>>
  /\ HandlerOnly

DeleteFile(h) ==
  /\ hpc[h] = "hit" /\ hop[h] = "delete"
  /\ \/ /\ hjob[h] \in dir[hdir[h]]
        /\ dir' = Drop(hdir[h], hjob[h])
        /\ removed' = removed \union {hjob[h]}
        /\ HGoTo(h, "unlog")
     \/ /\ hjob[h] \notin dir[hdir[h]] \/ "remove" \in Faults
        /\ HGoTo(h, "error")
        /\ UNCHANGED <<dir, removed>>
  /\ UNCHANGED <<log, next, accepted, hop, hjob, hdir, hsnap, hseen, hknown>>
  /\ HandlerOnly

\* Mutant: the log is left behind.
DeleteKeepsLog(h) ==
  /\ hpc[h] = "unlog"
  /\ HGoTo(h, "ok")
  /\ UNCHANGED <<dir, log, next, accepted, removed, hop, hjob, hdir, hsnap, hseen, hknown>>
  /\ HandlerOnly
DeleteLog(h) ==
  /\ hpc[h] = "unlog"
  /\ log' = log \ {hjob[h]} \/ ("remove" \in Faults /\ UNCHANGED log)
  /\ HGoTo(h, "ok")
  /\ UNCHANGED <<dir, next, accepted, removed, hop, hjob, hdir, hsnap, hseen, hknown>>
  /\ HandlerOnly

\* ListJobs of one status: ReadDir, then one read per entry; an entry that is
\* gone is skipped.
ListDir(h) ==
  /\ hpc[h] = "scan" /\ hop[h] = "list"
  /\ HGoTo(h, "entry")
  /\ hsnap' = [hsnap EXCEPT ![h] = dir[hdir[h]]]
  /\ UNCHANGED <<dir, log, next, accepted, removed, hop, hjob, hdir, hseen, hknown>>
  /\ HandlerOnly

ListEntry(h) ==
  /\ hpc[h] = "entry"
  /\ \E j \in hsnap[h] :
       /\ First(hsnap[h], j)
       /\ hsnap' = [hsnap EXCEPT ![h] = @ \ {j}]
       /\ hseen' = [hseen EXCEPT ![h] = @ \union ({j} \intersect dir[hdir[h]])]
  /\ UNCHANGED <<dir, log, next, accepted, removed, hpc, hop, hjob, hdir, hknown>>
  /\ HandlerOnly

ListNextDir(h) ==
  /\ hpc[h] = "entry" /\ hsnap[h] = {}
  /\ Advance(h)
  /\ UNCHANGED <<dir, log, next, accepted, removed, hop, hjob, hsnap, hseen, hknown>>
  /\ HandlerOnly

Replies == {"ok", "notfound", "error", "tooearly", "nolog"}

Reply(h) ==
  /\ hpc[h] \in Replies
  /\ HGoTo(h, "idle")
  /\ hop' = [hop EXCEPT ![h] = "none"] /\ hjob' = [hjob EXCEPT ![h] = 0]
  /\ hdir' = [hdir EXCEPT ![h] = "pending"]
  /\ hseen' = [hseen EXCEPT ![h] = {}] /\ hknown' = [hknown EXCEPT ![h] = {}]
  /\ UNCHANGED <<dir, log, next, accepted, removed, hsnap>>
  /\ HandlerOnly

HandlerGoesOn(h) ==   \* every step but a new request
  \/ WriteJob(h) \/ ScanDir(h) \/ ReadJob(h) \/ ReadLog(h) \/ DeleteFile(h)
  \/ DeleteLog(h) \/ ListDir(h) \/ ListEntry(h) \/ ListNextDir(h) \/ Reply(h)
HandlerStep(h) ==
  \/ StampJob(h) \/ HandlerGoesOn(h)
  \/ \E op \in Ops, j \in accepted \union {0} : Request(h, op, j)

-----------------------------------------------------------------------------
(* The cleanup routine: RunCleanup, cleanupStatus.                         *)

CleanerOnly == UNCHANGED <<next, workerVars, handlerVars, daemonVars,
                           accepted, ran>>
CGoTo(d, pc) == cpc' = [cpc EXCEPT ![d] = pc]

CleanStart(d) ==
  /\ cpc[d] = "idle" /\ up[d] = "up" /\ Retention[d] # {}
  /\ CGoTo(d, "list")
  /\ UNCHANGED <<dir, log, removed, cdir, clist, cjob>> /\ CleanerOnly

\* A status without a retention is skipped.
CleanList(d) ==
  /\ cpc[d] = "list"
  /\ CGoTo(d, "entry")
  /\ clist' = [clist EXCEPT ![d] = IF cdir[d] \in Retention[d] THEN dir[cdir[d]]
                                                               ELSE {}]
  /\ UNCHANGED <<dir, log, removed, cdir, cjob>> /\ CleanerOnly

\* The job is read; it may have ended before the cutoff or not.
CleanEntry(d) ==
  /\ cpc[d] = "entry"
  /\ \E j \in clist[d] :
       /\ First(clist[d], j)
       /\ clist' = [clist EXCEPT ![d] = @ \ {j}]
       /\ \/ /\ j \in dir[cdir[d]]
             /\ CGoTo(d, "remove") /\ cjob' = [cjob EXCEPT ![d] = j]
          \/ UNCHANGED <<cpc, cjob>>
  /\ UNCHANGED <<dir, log, removed, cdir>> /\ CleanerOnly

CleanRemove(d) ==
  /\ cpc[d] = "remove"
  /\ \/ /\ cjob[d] \in dir[cdir[d]]
        /\ dir' = Drop(cdir[d], cjob[d])
        /\ removed' = removed \union {cjob[d]}
        /\ CGoTo(d, "unlog")
        /\ UNCHANGED cjob
     \/ /\ cjob[d] \notin dir[cdir[d]] \/ "remove" \in Faults
        /\ CGoTo(d, "entry")
        /\ cjob' = [cjob EXCEPT ![d] = 0]
        /\ UNCHANGED <<dir, removed>>
  /\ UNCHANGED <<log, cdir, clist>> /\ CleanerOnly

CleanLog(d) ==
  /\ cpc[d] = "unlog"
  /\ log' = log \ {cjob[d]} \/ ("remove" \in Faults /\ UNCHANGED log)
  /\ CGoTo(d, "entry")
  /\ cjob' = [cjob EXCEPT ![d] = 0]
  /\ UNCHANGED <<dir, removed, cdir, clist>> /\ CleanerOnly

\* From the done jobs on to the failed ones, then back to sleep.
CleanNext(d) ==
  /\ cpc[d] = "entry" /\ clist[d] = {}
  /\ IF cdir[d] = "done"
     THEN CGoTo(d, "list") /\ cdir' = [cdir EXCEPT ![d] = "failed"]
     ELSE CGoTo(d, "idle") /\ cdir' = [cdir EXCEPT ![d] = "done"]
  /\ UNCHANGED <<dir, log, removed, clist, cjob>> /\ CleanerOnly

CleanerGoesOn(d) ==
  \/ CleanList(d) \/ CleanEntry(d) \/ CleanRemove(d) \/ CleanLog(d) \/ CleanNext(d)
CleanerStep(d) == CleanStart(d) \/ CleanerGoesOn(d)

-----------------------------------------------------------------------------
(* The daemon.  serve waits for the requests, then for the cron callbacks,  *)
(* then for the worker and with it the cleanup routine.                     *)

DaemonOnly == UNCHANGED <<dir, log, next, accepted, removed, ran>>

Stop(d) ==
  /\ "stop" \in Ends /\ up[d] = "up" /\ ends < MaxEnds
  /\ up' = [up EXCEPT ![d] = "stopping"] /\ ends' = ends + 1
  /\ UNCHANGED <<workerVars, cleanerVars, handlerVars>> /\ DaemonOnly

Exit(d) ==
  /\ up[d] = "stopping" /\ wpc[d] = "idle" /\ cpc[d] = "idle"
  /\ \A h \in Handlers : Home[h] = d => hpc[h] = "idle"
  /\ up' = [up EXCEPT ![d] = "down"]
  /\ UNCHANGED <<ends, workerVars, cleanerVars, handlerVars>> /\ DaemonOnly

\* The process dies: a crash, a kill, or serve returning an error (a listener
\* that fails, a request that outlives the 30 s of Shutdown) without waiting
\* for the worker.  Only the files remain.
Crash(d) ==
  /\ "crash" \in Ends /\ up[d] # "down" /\ ends < MaxEnds
  /\ up' = [up EXCEPT ![d] = "down"] /\ ends' = ends + 1
  /\ Forget(d, "idle")
  /\ cpc' = [cpc EXCEPT ![d] = "idle"] /\ cdir' = [cdir EXCEPT ![d] = "done"]
  /\ clist' = [clist EXCEPT ![d] = {}] /\ cjob' = [cjob EXCEPT ![d] = 0]
  /\ LET Keep(f, v) == [h \in Handlers |-> IF Home[h] = d THEN v ELSE f[h]]
     IN  /\ hpc' = Keep(hpc, "idle") /\ hop' = Keep(hop, "none")
         /\ hjob' = Keep(hjob, 0) /\ hdir' = Keep(hdir, "pending")
         /\ hsnap' = Keep(hsnap, {}) /\ hseen' = Keep(hseen, {})
         /\ hknown' = Keep(hknown, {})
  /\ DaemonOnly

\* Nothing is recovered: serve only makes sure that the directories exist.
Start(d) ==
  /\ up[d] = "down"
  /\ up' = [up EXCEPT ![d] = "up"]
  /\ UNCHANGED <<ends, workerVars, cleanerVars, handlerVars>> /\ DaemonOnly

DaemonStep(d) == Stop(d) \/ Exit(d) \/ Crash(d) \/ Start(d)

-----------------------------------------------------------------------------
Next ==
  \/ \E d \in Daemons : WorkerStep(d) \/ CleanerStep(d) \/ DaemonStep(d)
  \/ \E h \in Handlers : HandlerStep(h)

Spec == Init /\ [][Next]_vars

\* The ticker fires, the engine's runs end, requests are carried through, and
\* a daemon told to stop gets to the end of serve.  Nobody has to send a
\* request, stop a daemon or start it again.
FairSpec ==
  /\ Spec
  /\ \A d \in Daemons : /\ WF_vars(WorkerStep(d))
                        /\ WF_vars(CleanerGoesOn(d))
                        /\ WF_vars(Exit(d))
  /\ \A h \in Handlers : WF_vars(HandlerGoesOn(h))

-----------------------------------------------------------------------------
(* Properties *)

WorkerPc == {"idle", "drain", "next", "lock", "load", "log", "exec", "mark",
             "unmark"} \union Claiming
HandlerPc == {"idle", "write", "scan", "hit", "readlog", "unlog", "entry"}
               \union Replies

\* Every variable has its type; jobs are numbers the clock has already given.
FilesTyped ==
  /\ dir \in [Status -> SUBSET Jobs] /\ log \subseteq Jobs
  /\ accepted \subseteq Jobs /\ removed \subseteq Jobs /\ ran \subseteq Jobs
WorkersTyped ==
  /\ wpc \in [Daemons -> WorkerPc] /\ wlist \in [Daemons -> SUBSET Jobs]
  /\ wjob \in [Daemons -> Jobs \union {0}]
  /\ wout \in [Daemons -> {"none", "done", "failed"}]
CleanersTyped ==
  /\ cpc \in [Daemons -> {"idle", "list", "entry", "remove", "unlog"}]
  /\ cdir \in [Daemons -> {"done", "failed"}]
  /\ clist \in [Daemons -> SUBSET Jobs] /\ cjob \in [Daemons -> Jobs \union {0}]
HandlersTyped ==
  /\ hpc \in [Handlers -> HandlerPc]
  /\ hop \in [Handlers -> {"none", "enqueue", "delete", "get", "logs", "list"}]
  /\ hjob \in [Handlers -> Jobs \union {0}] /\ hdir \in [Handlers -> Status]
  /\ hsnap \in [Handlers -> SUBSET Jobs] /\ hseen \in [Handlers -> SUBSET Jobs]
  /\ hknown \in [Handlers -> SUBSET Jobs]
TypeOK ==
  /\ next \in 1..(MaxJobs + 1) /\ ends \in 0..MaxEnds
  /\ up \in [Daemons -> {"up", "stopping", "down"}]
  /\ FilesTyped /\ WorkersTyped /\ CleanersTyped /\ HandlersTyped

Present == UNION {dir[s] : s \in Status}   \* jobs with a file anywhere
Holding == {"load", "log", "exec", "mark", "unmark"}

\* Two workers on one directory never process the same job at the same time:
\* the flock, the Stat and the read together make the claim exclusive, even
\* though the lock is gone as soon as the claim is made.
ExclusiveExecution ==
  \A v, w \in Daemons :
    wpc[v] \in Holding /\ wpc[w] \in Holding /\ wjob[v] = wjob[w] => v = w

\* A flow is never executed twice for one job, not even when a daemon dies
\* halfway through a claim and the job is claimed again.
AtMostOnce ==
  [][\A w \in Daemons :
       wpc[w] = "log" /\ wpc'[w] = "exec" => wjob[w] \notin ran]_vars

\* No job ends up both done and failed.
OneVerdict == dir["done"] \intersect dir["failed"] = {}

\* A job that was accepted is always in some directory, also in the middle of
\* a move and across a crash, until somebody deletes it or it expires.
NoJobLost == accepted \ removed \subseteq Present

\* A job whose last file is removed while no worker has got as far as reading
\* it is gone for good: whatever was listed, opened or locked before that, no
\* later step writes a file for it again.
AboutToWrite(w, j) ==
  wjob[w] = j /\ wpc[w] \in {"move", "unlink"} \union Holding
Gone(j) == j \in accepted \ Present /\ \A w \in Daemons : ~AboutToWrite(w, j)
NoResurrection == [][\A j \in Jobs : Gone(j) => Gone(j)']_vars

\* First in, first out: when a worker has claimed a job, every older job of
\* the same listing is gone from pending or in the hands of another worker
\* (no crash and no fault assumed).
FifoClaim ==
  \A w \in Daemons : wpc[w] = "unlink" =>
    \A j \in wlist[w] : j < wjob[w] /\ j \in dir["pending"] =>
      \E v \in Daemons \ {w} : wpc[v] \in Claiming /\ wjob[v] = j

\* The log of a job that is done is there until the job is deleted or expires.
DoneHasLog == dir["done"] \ removed \subseteq log

\* No log outlives its job, but for the moment between the two removals and
\* while a worker still runs the job (no crash and no fault assumed).
NoOrphanLog ==
  \A j \in log \ Present :
    \/ \E w \in Daemons  : wpc[w] \in Holding /\ wjob[w] = j
    \/ \E h \in Handlers : hpc[h] = "unlog" /\ hjob[h] = j
    \/ \E d \in Daemons  : cpc[d] = "unlog" /\ cjob[d] = j

\* Without crashes and faults every running job has a worker, so that a
\* daemon that was stopped leaves none of its jobs behind in "running".
RunningIsHeld ==
  \A j \in dir["running"] :
    \E w \in Daemons : wjob[w] = j /\ wpc[w] \in {"unlink"} \union Holding

\* The API answers 404 for a job only if the job was deleted or has expired,
\* however it moves between the directories during the search.
NotFoundIsTrue ==
  \A h \in Handlers : hpc[h] = "notfound" => hjob[h] \in removed

\* A listing of all the jobs lacks none that was accepted before it began and
\* not removed before it ended, however the jobs move meanwhile.
ListMissesNothing ==
  \A h \in Handlers :
    hop[h] = "list" /\ hpc[h] = "ok" => hknown[h] \ removed \subseteq hseen[h]

\* Every accepted job is done, failed or removed in the end.
EveryJobSettles ==
  \A j \in Jobs :
    j \in accepted ~> j \in dir["done"] \union dir["failed"] \union removed

\* A daemon that is told to stop does stop: its worker, its cleanup routine
\* and its requests all come to an end.
StopCompletes == \A d \in Daemons : up[d] = "stopping" ~> up[d] = "down"

\* openapi.yaml says of DELETE /api/v1/jobs/{id}: "Deletes a job from the
\* queue regardless of its current status."  A deleted job should stay away.
DeletedIsGone ==
  \A h \in Handlers :
    hop[h] = "delete" /\ hpc[h] = "ok" => hjob[h] \notin Present

\* GetJob's comment: "File may have been moved to another status directory
\* between ReadDir and readJob - continue searching".  Without faults a get
\* should therefore never fail.
GetNeverFails ==
  \A h \in Handlers : hop[h] = "get" => hpc[h] # "error"
=============================================================================
