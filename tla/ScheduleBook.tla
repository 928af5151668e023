---------------------------- MODULE ScheduleBook ----------------------------
(***************************************************************************)
(* What the scheduler promises about one schedule, without files, cron     *)
(* entries or locks: its page in a book of schedules.  A request is        *)
(* accepted or refused, takes effect at one moment or not at all, and is   *)
(* answered with what has become of it.  An enabled schedule has an alarm, *)
(* which only the request or the mishap that takes it away can explain the *)
(* lack of; a bell that rings makes a job of a schedule that asks for it   *)
(* at that moment.  A restart sets the alarm anew.                         *)
(***************************************************************************)
CONSTANTS
  Flows, Specs, None,
  Trim(_),  \* a flow's name without the blanks around it
  Callers,  \* those who make requests
  Bells,    \* alarms that ring at one time
  Faults    \* the calls that may fail

VARIABLES
  sched,    \* the schedule, or None
  flows,    \* the flows that exist
  alarms,   \* the cron expressions that it rings at
  asked,    \* caller -> its request about the schedule, or None
  stage,    \* caller -> what has become of it
  bell,     \* bell -> does it ring?
  job,      \* bell -> the flow that it has made a job of, or None
  up        \* the daemon: "up", "draining", "stopping" or "down"

vars == <<sched, flows, alarms, asked, stage, bell, job, up>>

Schedule == [flow: Flows, spec: Specs, enabled: BOOLEAN]
Requests ==
       [op: {"create", "update"}, value: Schedule]
\union [op: {"delete", "enable", "disable"}]
\union [op: {"rename"}, from: Flows, to: Flows]

Init ==
  /\ sched = None /\ flows = {} /\ alarms = {}
  /\ asked = [c \in Callers |-> None] /\ stage = [c \in Callers |-> "idle"]
  /\ bell = [b \in Bells |-> FALSE] /\ job = [b \in Bells |-> None]
  /\ up = "up"

-----------------------------------------------------------------------------
(* Requests *)

Goes(c, from, to) == stage[c] = from /\ stage' = [stage EXCEPT ![c] = to]
BookKept   == UNCHANGED <<sched, alarms>>
CallerOnly == UNCHANGED <<asked, bell, job, up>>

\* Flows are looked at before anything else.
NeedsFlow(r) == r.op \in {"create", "update", "rename"}
Permitted(r) == IF r.op = "rename"
                THEN Trim(r.from) \in flows /\ Trim(r.to) \notin flows
                ELSE r.value.flow \in flows

Ask(c, r) ==
  /\ up = "up"
  /\ Goes(c, "idle", IF NeedsFlow(r) THEN "asked" ELSE "accepted")
  /\ asked' = [asked EXCEPT ![c] = r]
  /\ BookKept /\ UNCHANGED <<flows, bell, job, up>>

Accept(c) ==
  /\ Goes(c, "asked", "accepted") /\ Permitted(asked[c])
  /\ BookKept /\ UNCHANGED flows /\ CallerOnly

\* A request is refused for a reason or fails by a mishap; the book stays as it
\* is, and says that the request makes no sense if there was no mishap.
Senseless(r) ==
  \/ r.op = "create" /\ sched # None
  \/ r.op \in {"update", "delete", "enable", "disable"} /\ sched = None
  \/ r.op = "rename" /\ Trim(r.from) \notin flows
Mishap(r) == IF r.op = "delete" THEN "remove" \in Faults ELSE "write" \in Faults
Refuse(c) ==
  /\ \/ Goes(c, "asked", "error") /\ ~Permitted(asked[c])
     \/ Goes(c, "accepted", "error") /\ (Senseless(asked[c]) \/ Mishap(asked[c]))
  /\ BookKept /\ UNCHANGED flows /\ CallerOnly

\* On its way an operation that may take the alarm away has done so already.
Disarm(c) ==
  /\ stage[c] = "accepted" /\ asked[c].op \in {"update", "delete", "disable"}
  /\ alarms' = {}
  /\ UNCHANGED <<sched, flows, stage>> /\ CallerOnly

\* The moment at which an operation takes effect, its alarm included.
AlarmsOf(s) == IF s # None /\ s.enabled THEN {s.spec} ELSE {}
Enters(s) == sched' = s /\ alarms' = AlarmsOf(s)

Write(c) ==
  /\ Goes(c, "accepted", "ok") /\ asked[c].op \in {"create", "update"}
  /\ sched = None <=> asked[c].op = "create"
  /\ Enters(asked[c].value)
  /\ UNCHANGED flows /\ CallerOnly

Erase(c) ==
  /\ Goes(c, "accepted", "ok") /\ asked[c].op = "delete" /\ sched # None
  /\ Enters(None)
  /\ UNCHANGED flows /\ CallerOnly

\* What is as it should be is left alone, even if a mishap has cost its alarm.
Switch(c) ==
  LET on == asked[c].op = "enable" IN
  /\ Goes(c, "accepted", "ok") /\ asked[c].op \in {"enable", "disable"}
  /\ sched # None
  /\ \/ sched.enabled # on /\ Enters([sched EXCEPT !.enabled = on])
     \/ sched.enabled = on /\ BookKept
  /\ UNCHANGED flows /\ CallerOnly

\* A flow gets its new name and loses its old one, and the schedule follows
\* unless it could not be written.
Publish(c) ==
  /\ Goes(c, "accepted", "published")
  /\ asked[c].op = "rename" /\ Trim(asked[c].from) \in flows
  /\ flows' = flows \union {Trim(asked[c].to)}
  /\ BookKept /\ CallerOnly

Retire(c) ==
  /\ Goes(c, "published", "moving")
  /\ \/ flows' = flows \ {Trim(asked[c].from)}
     \/ "remove" \in Faults /\ UNCHANGED flows
  /\ BookKept /\ CallerOnly

Refers(f) == sched # None /\ sched.flow = f
Move(c) ==
  /\ stage[c] = "moving" /\ Refers(asked[c].from)
  /\ sched' = [sched EXCEPT !.flow = asked[c].to]
  /\ UNCHANGED <<alarms, flows, stage>> /\ CallerOnly

Complete(c) ==
  /\ Goes(c, "moving", "ok")
  /\ "write" \in Faults \/ ~Refers(asked[c].from)
  /\ BookKept /\ UNCHANGED flows /\ CallerOnly

Reply(c) ==
  /\ stage[c] \in {"ok", "error"}
  /\ stage' = [stage EXCEPT ![c] = "idle"]
  /\ asked' = [asked EXCEPT ![c] = None]
  /\ BookKept /\ UNCHANGED <<flows, bell, job, up>>

CallerStep(c) ==
  \/ \E r \in Requests : Ask(c, r)
  \/ Accept(c) \/ Refuse(c) \/ Disarm(c) \/ Write(c) \/ Erase(c) \/ Switch(c)
  \/ Publish(c) \/ Retire(c) \/ Move(c) \/ Complete(c) \/ Reply(c)

ChangeFlows ==
  /\ up = "up"
  /\ \E f \in Flows : flows' = flows \union {f} \/ flows' = flows \ {f}
  /\ BookKept /\ UNCHANGED stage /\ CallerOnly

-----------------------------------------------------------------------------
(* Bells and the daemon *)

BellOnly == BookKept /\ UNCHANGED <<flows, asked, stage, up>>

Ring(b) ==
  /\ ~bell[b] /\ up \in {"up", "draining"} /\ alarms # {}
  /\ bell' = [bell EXCEPT ![b] = TRUE]
  /\ UNCHANGED job /\ BellOnly

\* A job is made only of what the schedule says now.
Wanted == sched # None /\ sched.enabled /\ Trim(sched.flow) \in flows
CreateJob(b) ==
  /\ bell[b] /\ job[b] = None /\ Wanted
  /\ job' = [job EXCEPT ![b] = sched.flow]
  /\ UNCHANGED bell /\ BellOnly

Fall(b) ==
  /\ bell[b]
  /\ job[b] # None \/ ~Wanted \/ "write" \in Faults
  /\ bell' = [bell EXCEPT ![b] = FALSE] /\ job' = [job EXCEPT ![b] = None]
  /\ BellOnly

DaemonOnly == UNCHANGED <<sched, flows>>

Stop ==
  /\ up = "up" /\ up' = "draining"
  /\ DaemonOnly /\ UNCHANGED <<alarms, asked, stage, bell, job>>

StopCron ==
  /\ up = "draining" /\ \A c \in Callers : stage[c] = "idle"
  /\ up' = "stopping"
  /\ DaemonOnly /\ UNCHANGED <<alarms, asked, stage, bell, job>>

Exit ==
  /\ up = "stopping" /\ \A b \in Bells : ~bell[b]
  /\ up' = "down" /\ alarms' = {}
  /\ DaemonOnly /\ UNCHANGED <<asked, stage, bell, job>>

\* Requests and bells are cut short; what has taken effect stays.
Crash ==
  /\ up # "down" /\ up' = "down" /\ alarms' = {}
  /\ asked' = [c \in Callers |-> None] /\ stage' = [c \in Callers |-> "idle"]
  /\ bell' = [b \in Bells |-> FALSE] /\ job' = [b \in Bells |-> None]
  /\ DaemonOnly

Start ==
  /\ up = "down" /\ up' = "up" /\ alarms' = AlarmsOf(sched)
  /\ DaemonOnly /\ UNCHANGED <<asked, stage, bell, job>>

Next ==
  \/ \E c \in Callers : CallerStep(c)
  \/ \E b \in Bells : CreateJob(b) \/ Fall(b) \/ Ring(b)
  \/ ChangeFlows \/ Stop \/ StopCron \/ Exit \/ Crash \/ Start

Spec == Init /\ [][Next]_vars
=============================================================================
