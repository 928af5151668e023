-------------------------- MODULE SchedulesRefines --------------------------
(* The files, the cron entries and the calls of Schedules, as far as they   *)
(* concern one schedule, seen as its page in the book of schedules.         *)
EXTENDS SchedulesInv

CONSTANT Watched  \* the schedule

ASSUME WatchedAssumption == Watched \in Names /\ Plain(Watched)

\* What has become of a request, by the call that it makes next: it takes
\* effect when the schedule is written or removed, not when its trigger is.
StageAt == [
  idle |-> "idle", checkflow |-> "asked", checkrename |-> "asked",
  stat |-> "accepted", get |-> "accepted", unmap |-> "accepted",
  save |-> "accepted", remove |-> "accepted", writeflow |-> "accepted",
  removeflow |-> "published", list |-> "moving", rewrite |-> "moving",
  addfunc |-> "ok", map |-> "ok", ok |-> "ok", error |-> "error"]
AbstractStage ==
  [h \in Handlers |-> IF Concerns(h, Watched) THEN StageAt[hpc[h]] ELSE "idle"]

\* What it asks for; what Enable and Disable save is none of it.
RequestOf(h) ==
  IF ~Concerns(h, Watched) THEN None
  ELSE IF hop[h] = "rename" THEN [op |-> "rename", from |-> hfrom[h], to |-> hto[h]]
  ELSE IF hop[h] \in {"create", "update"} THEN [op |-> hop[h], value |-> hval[h]]
  ELSE [op |-> hop[h]]
AbstractAsked == [h \in Handlers |-> RequestOf(h)]

\* A schedule that has been saved has its alarm, though it may have to wait for
\* its cron entry.
Awaits(h, x) == On(h, Watched) /\ hpc[h] = "addfunc" /\ hval[h].spec = x
AbstractAlarms ==
  {x \in Specs : \/ \E e \in cron : e.name = Watched /\ e.spec = x
                 \/ \E h \in Handlers : Awaits(h, x)}

Rings(b) == bpc[b] # "idle" /\ Trim(bname[b]) = Watched
AbstractBell == [b \in Callbacks |-> Rings(b)]
AbstractJob  ==
  [b \in Callbacks |-> IF Rings(b) /\ bpc[b] = "save" THEN bval[b].flow ELSE None]

Book == INSTANCE ScheduleBook WITH
  Callers <- Handlers, Bells <- Callbacks,
  sched <- file[Watched], alarms <- AbstractAlarms, asked <- AbstractAsked,
  stage <- AbstractStage, bell <- AbstractBell, job <- AbstractJob

\* As long as the schedule is orderly, and again from the next start of the daemon
\* on, Schedules implements ScheduleBook: of the calls that an operation makes to
\* the store, the map and the cron library one is the moment at which it takes
\* effect, and a callback leaves no trace in the book.  What is done to other
\* schedules does not show, or is a change of the flows.
ImplementsBook ==
  Book!Init /\ [][(Watched \in raced') \/ Book!Next]_(Book!vars)
=============================================================================
