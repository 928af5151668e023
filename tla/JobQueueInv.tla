---------------------------- MODULE JobQueueInv -----------------------------
(***************************************************************************)
(* The inductive invariant of JobQueue, in the parts that JobQueueProofs    *)
(* proves one after the other.  Allocated holds whatever fails; the other  *)
(* parts need every removal of a file to succeed ("remove" \notin Faults), *)
(* since a claimed job that stays in pending is claimed again.             *)
(***************************************************************************)
EXTENDS JobQueue

Moving  == {"move", "unlink"}
Settled == dir["done"] \union dir["failed"]

\* Files and listings are of accepted jobs; the number of a job about to be
\* written is used by nobody else.
FilesAccepted ==
  /\ \A j \in accepted : j < next
  /\ \A s \in Status : dir[s] \subseteq accepted
  /\ removed \subseteq accepted /\ ran \subseteq accepted
WorkersAccepted ==
  \A w \in Daemons :
    /\ wlist[w] \subseteq accepted
    /\ wpc[w] \in {"lock"} \union Claiming \union Holding => wjob[w] \in accepted
    /\ wpc[w] = "mark" => wout[w] \in {"done", "failed"}
WritersFresh ==
  \A h \in Handlers : hpc[h] = "write" =>
    /\ hjob[h] \in Jobs /\ hjob[h] < next /\ hjob[h] \notin accepted
    /\ \A g \in Handlers \ {h} : hpc[g] = "write" => hjob[g] # hjob[h]
Allocated == FilesAccepted /\ WorkersAccepted /\ WritersFresh

\* The claim is exclusive: by the lock while it is made, by the absence of
\* the pending file once it is made.
Claimed ==
  /\ \A v, w \in Daemons : v # w /\ wpc[v] \in Claiming /\ wpc[w] \in Claiming
       => wjob[v] # wjob[w]
  /\ \A w \in Daemons : wpc[w] \in Holding => wjob[w] \notin dir["pending"]
  /\ \A v, w \in Daemons : wpc[v] \in Holding /\ wpc[w] \in Moving
       => wjob[v] # wjob[w]
  /\ ExclusiveExecution

\* What was run is not claimed again.
RunOnce ==
  /\ ran \intersect dir["pending"] = {}
  /\ \A w \in Daemons : wpc[w] \in Moving \union {"load", "log"} =>
       wjob[w] \notin ran

\* A job that may still get a verdict has none.
Judged ==
  /\ OneVerdict
  /\ dir["pending"] \intersect Settled = {}
  /\ \A w \in Daemons : wpc[w] \in Moving \union (Holding \ {"unmark"}) =>
       wjob[w] \notin Settled

\* The new file is there before the old one goes.
Kept ==
  /\ NoJobLost
  /\ \A w \in Daemons :
       /\ wpc[w] = "unlink" => wjob[w] \in dir["running"] \union removed
       /\ wpc[w] = "unmark" => wjob[w] \in Settled \union removed

\* A job runs, and is done, with its log; logs go after their jobs.
Logged ==
  /\ DoneHasLog
  /\ \A w \in Daemons :
       wpc[w] = "exec" \/ (wpc[w] = "mark" /\ wout[w] = "done") =>
         wjob[w] \in log \union removed
  /\ \A h \in Handlers : hpc[h] = "unlog" => hjob[h] \in removed
  /\ \A d \in Daemons  : cpc[d] = "unlog" => cjob[d] \in removed

\* A search is never ahead of the job: what it has left behind it has left
\* for good.
Ahead(s) ==
  CASE s = "pending" -> accepted
    [] s = "running" -> dir["running"] \union Settled \union removed
    [] s = "done"    -> Settled \union removed
    [] s = "failed"  -> dir["failed"] \union removed
    [] s = "end"     -> removed
Searched ==
  /\ NotFoundIsTrue
  /\ \A h \in Handlers :
       /\ hpc[h] = "idle" => hdir[h] = "pending"
       /\ hpc[h] = "entry" => hop[h] = "list"
  /\ \A h \in Handlers : hpc[h] = "scan" /\ hop[h] # "list" =>
       hjob[h] \in Ahead(hdir[h])

\* So it is with a listing of all the jobs: those it owes and has not read are
\* in the listing it is working on, or ahead of it.
Listed ==
  /\ ListMissesNothing
  /\ \A h \in Handlers : hop[h] = "list" =>
       /\ hpc[h] \in {"scan", "entry", "ok"}
       /\ hpc[h] = "scan" => hknown[h] \subseteq hseen[h] \union Ahead(hdir[h])
       /\ hpc[h] = "entry" =>
            /\ hsnap[h] \subseteq Ahead(hdir[h])
            /\ hknown[h] \subseteq hseen[h] \union hsnap[h] \union Ahead(After[hdir[h]])

IInv == /\ TypeOK /\ Allocated /\ Claimed /\ RunOnce
        /\ Judged /\ Kept /\ Logged /\ Searched /\ Listed

-----------------------------------------------------------------------------
(* What holds of a queue whose daemons do not die and whose calls do not    *)
(* fail ("crash" \notin Ends, Faults = {}).                                 *)

\* An entry that Dequeue's loop has left behind is gone from pending for good,
\* or another worker has its lock.
Behind(w) ==
  {j \in wlist[w] : j < wjob[w] \/ (j = wjob[w] /\ wpc[w] = "next")}
Passed ==
  \A w \in Daemons :
    /\ wpc[w] \in {"idle", "drain"} => wjob[w] = 0
    /\ wpc[w] \in {"next", "lock"} \union Claiming =>
         \A j \in Behind(w) \intersect dir["pending"] :
           \E v \in Daemons \ {w} : wpc[v] \in Claiming /\ wjob[v] = j

\* A log is that of a settled job or of one that is being run, or somebody is
\* about to remove it.
Unlogging(j) ==
  \/ \E h \in Handlers : hpc[h] = "unlog" /\ hjob[h] = j
  \/ \E d \in Daemons  : cpc[d] = "unlog" /\ cjob[d] = j
LogsOwned ==
  \A j \in log \ Settled :
    \/ Unlogging(j)
    \/ \E w \in Daemons : wpc[w] \in {"exec", "mark"} /\ wjob[w] = j

CalmInv == Passed /\ LogsOwned /\ RunningIsHeld

-----------------------------------------------------------------------------
(* What holds of a queue from which nobody deletes ("delete" \notin Ops).    *)

\* Only a settled job has been removed, and the file of a claim stays until
\* its worker removes it.
Expired ==
  /\ \A h \in Handlers : hop[h] # "delete"
  /\ removed \intersect (dir["pending"] \union Settled) = {}
  /\ \A w \in Daemons :
       /\ wpc[w] \in Moving \union (Holding \ {"unmark"}) => wjob[w] \notin removed
       /\ wpc[w] \in Moving => wjob[w] \in dir["pending"]
       /\ wpc[w] \in Holding \ {"unmark"} => wjob[w] \in dir["running"]
=============================================================================
