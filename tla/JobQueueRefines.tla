-------------------------- MODULE JobQueueRefines ---------------------------
(* The files of JobQueue seen as the life of each job.                     *)
EXTENDS JobQueue

\* 0 stands for nobody.
ASSUME NobodyAssumption == 0 \notin Daemons

\* Where a job is, by its files: the earliest directory of its claim, the
\* latest one once it has its verdict.
AbstractStatus ==
  [j \in Jobs |->
     IF j \in dir["done"] THEN "done"
     ELSE IF j \in dir["failed"]  THEN "failed"
     ELSE IF j \in removed        THEN "expired"
     ELSE IF j \in dir["pending"] THEN "pending"
     ELSE IF j \in dir["running"] THEN "running" ELSE "none"]

\* The worker that has claimed the job and not yet written its verdict.
AbstractRunner ==
  [j \in Jobs |->
     IF \E w \in Daemons : wjob[w] = j /\ wpc[w] \in Holding \ {"unmark"}
     THEN CHOOSE w \in Daemons :
            wjob[w] = j /\ wpc[w] \in Holding \ {"unmark"}
     ELSE 0]

Lifecycle == INSTANCE JobLifecycle WITH
  Workers <- Daemons, Nobody <- 0,
  status <- AbstractStatus, runner <- AbstractRunner

\* JobQueue implements JobLifecycle: each file-system call is one step in the
\* life of a job or none.
ImplementsLifecycle == Lifecycle!Spec
=============================================================================
