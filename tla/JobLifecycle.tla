---------------------------- MODULE JobLifecycle ----------------------------
(***************************************************************************)
(* What the queue promises of each job, without directories, listings or   *)
(* locks: a job goes from pending to running to one verdict, one worker    *)
(* runs it, no second worker takes it over, and only a job that has its    *)
(* verdict expires.  JobQueue implements this specification as long as     *)
(* nobody deletes jobs and no removal of a file fails.                     *)
(***************************************************************************)
CONSTANTS Jobs, Workers, Nobody

VARIABLES
  status,   \* job -> where it is in its life
  runner    \* job -> the worker that runs it

vars == <<status, runner>>

Init ==
  /\ status = [j \in Jobs |-> "none"]
  /\ runner = [j \in Jobs |-> Nobody]

Accept(j) ==
  /\ status[j] = "none"
  /\ status' = [status EXCEPT ![j] = "pending"]
  /\ UNCHANGED runner

\* A worker runs one job at a time.
Claim(w, j) ==
  /\ status[j] = "pending"
  /\ \A k \in Jobs : runner[k] # w
  /\ status' = [status EXCEPT ![j] = "running"]
  /\ runner' = [runner EXCEPT ![j] = w]

Finish(w, j) ==
  /\ runner[j] = w
  /\ \E verdict \in {"done", "failed"} :
       status' = [status EXCEPT ![j] = verdict]
  /\ runner' = [runner EXCEPT ![j] = Nobody]

\* The worker dies, or cannot record the verdict: the job stays "running" and
\* nobody runs it any more.
Orphan(w, j) ==
  /\ runner[j] = w
  /\ runner' = [runner EXCEPT ![j] = Nobody]
  /\ UNCHANGED status

Expire(j) ==
  /\ status[j] \in {"done", "failed"}
  /\ status' = [status EXCEPT ![j] = "expired"]
  /\ UNCHANGED runner

Next ==
  \E j \in Jobs :
    \/ Accept(j) \/ Expire(j)
    \/ \E w \in Workers : Claim(w, j) \/ Finish(w, j) \/ Orphan(w, j)

Spec == Init /\ [][Next]_vars
=============================================================================
