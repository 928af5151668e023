----------------------- MODULE SchedulesRefinesProofs ------------------------
(***************************************************************************)
(* Schedules implements ScheduleBook: what it does to a schedule, as long  *)
(* as the schedule is orderly, are steps of the book.  Any number of       *)
(* schedules, requests and callbacks, operations that overlap on other     *)
(* schedules, failing calls, stops and crashes are all in.                 *)
(***************************************************************************)
EXTENDS SchedulesProofs, SchedulesRefines

-----------------------------------------------------------------------------
(* The mapping *)

\* The stage of a request at each of its calls.
LEMMA StageValues ==
  /\ StageAt["idle"] = "idle" /\ StageAt["checkflow"] = "asked"
  /\ StageAt["checkrename"] = "asked" /\ StageAt["stat"] = "accepted"
  /\ StageAt["get"] = "accepted" /\ StageAt["unmap"] = "accepted"
  /\ StageAt["save"] = "accepted" /\ StageAt["remove"] = "accepted"
  /\ StageAt["writeflow"] = "accepted" /\ StageAt["removeflow"] = "published"
  /\ StageAt["list"] = "moving" /\ StageAt["rewrite"] = "moving"
  /\ StageAt["addfunc"] = "ok" /\ StageAt["map"] = "ok" /\ StageAt["ok"] = "ok"
  /\ StageAt["error"] = "error"
BY DEF StageAt

\* A step of a request is seen at that request only ...
StageOf(h) == IF Concerns(h, Watched) THEN StageAt[hpc[h]] ELSE "idle"

LEMMA RequestSeen ==
  ASSUME TypeOK, NEW h \in Handlers, HandlerStep(h)
  PROVE  /\ AbstractStage[h] = StageOf(h)
         /\ AbstractStage' = [AbstractStage EXCEPT ![h] = StageOf(h)']
         /\ AbstractAsked[h] = RequestOf(h)
         /\ AbstractAsked' = [AbstractAsked EXCEPT ![h] = RequestOf(h)']
         /\ UNCHANGED <<AbstractBell, AbstractJob, up>>
<1>1. OthersKept(h) /\ UNCHANGED <<callbackVars, daemonVars>>
  BY OneRequest
<1>2. \A g \in Handlers \ {h} : StageOf(g)' = StageOf(g) /\ RequestOf(g)' = RequestOf(g)
  BY <1>1 DEF OthersKept, Concerns, StageOf, RequestOf
<1>3. /\ AbstractStage = [g \in Handlers |-> StageOf(g)]
      /\ AbstractStage' = [g \in Handlers |-> StageOf(g)']
  BY DEF AbstractStage, StageOf
<1>4. AbstractStage' = [AbstractStage EXCEPT ![h] = StageOf(h)']
  BY <1>2, <1>3
<1>5. AbstractAsked' = [AbstractAsked EXCEPT ![h] = RequestOf(h)']
  BY <1>2 DEF AbstractAsked
<1>6. UNCHANGED <<AbstractBell, AbstractJob, up>>
  BY <1>1 DEF callbackVars, daemonVars, AbstractBell, AbstractJob, Rings
<1> QED
  BY <1>3, <1>4, <1>5, <1>6 DEF AbstractAsked

\* ... and while it is about the schedule it asks for the same.
LEMMA RequestKept ==
  ASSUME NEW h \in Handlers, Concerns(h, Watched), hpc'[h] # "idle",
         UNCHANGED requestVars,
         hop[h] \in {"create", "update"} => hval'[h] = hval[h]
  PROVE  Concerns(h, Watched)' /\ RequestOf(h)' = RequestOf(h)
BY DEF Concerns, RequestOf, requestVars

LEMMA RequestFields ==
  ASSUME NEW h \in Handlers, Concerns(h, Watched)
  PROVE  /\ RequestOf(h).op = hop[h]
         /\ hop[h] \in {"create", "update"} => RequestOf(h).value = hval[h]
         /\ hop[h] = "rename" => RequestOf(h).from = hfrom[h] /\ RequestOf(h).to = hto[h]
BY DEF RequestOf

LEMMA StageKept ==
  ASSUME NEW h \in Handlers, NEW s, AbstractStage[h] = s,
         AbstractStage' = [AbstractStage EXCEPT ![h] = s]
  PROVE  AbstractStage' = AbstractStage
BY DEF AbstractStage

LEMMA AskedKept ==
  ASSUME NEW h \in Handlers, NEW r, AbstractAsked[h] = r,
         AbstractAsked' = [AbstractAsked EXCEPT ![h] = r]
  PROVE  AbstractAsked' = AbstractAsked
BY DEF AbstractAsked

LEMMA Going ==
  ASSUME NEW h \in Handlers, HandlerGoesOn(h)
  PROVE  HandlerStep(h) /\ hpc[h] # "idle"
BY DEF HandlerStep, HandlerGoesOn, CheckFlow, StatSchedule, GetSchedule, RemoveEntry,
       SaveSchedule, AddFunc, MapEntry, DeleteSchedule, CheckRename, WriteFlow,
       RemoveFlow, ListSchedules, RewriteSchedule, RewriteDone, Reply, Replies

-----------------------------------------------------------------------------
(* The alarms of the schedule *)

Waiting(h) == On(h, Watched) /\ hpc[h] = "addfunc"

LEMMA AlarmsSame ==
  ASSUME Triggers(Watched)' = Triggers(Watched),
         \A h \in Handlers, x \in Specs : Awaits(h, x)' <=> Awaits(h, x)
  PROVE  AbstractAlarms' = AbstractAlarms
<1>1. \A x : (\E e \in cron : e.name = Watched /\ e.spec = x) <=>
             (\E e \in Triggers(Watched) : e.spec = x)
  BY DEF Triggers
<1>2. \A x : (\E e \in cron' : e.name = Watched /\ e.spec = x) <=>
             (\E e \in Triggers(Watched)' : e.spec = x)
  BY DEF Triggers
<1>3. \A x \in Specs : x \in AbstractAlarms' <=> x \in AbstractAlarms
  BY <1>1, <1>2 DEF AbstractAlarms
<1>4. AbstractAlarms \subseteq Specs /\ AbstractAlarms' \subseteq Specs
  BY DEF AbstractAlarms
<1> QED
  BY <1>3, <1>4

\* A step of a request that is not about the triggers, before or after.
LEMMA AlarmsKept ==
  ASSUME NEW h \in Handlers, OthersKept(h), Triggers(Watched)' = Triggers(Watched),
         ~Waiting(h), ~Waiting(h)'
  PROVE  AbstractAlarms' = AbstractAlarms
<1>1. \A g \in Handlers, x \in Specs : Awaits(g, x)' <=> Awaits(g, x)
  BY DEF Awaits, Waiting, On, OthersKept
<1> QED
  BY <1>1, AlarmsSame

\* What the alarms are.
LEMMA AlarmsNone ==
  ASSUME Triggers(Watched) = {}, \A h \in Handlers : ~Waiting(h)
  PROVE  AbstractAlarms = {}
BY DEF AbstractAlarms, Triggers, Waiting, Awaits
LEMMA AlarmsNoneNext ==
  ASSUME Triggers(Watched)' = {}, \A h \in Handlers : ~Waiting(h)'
  PROVE  AbstractAlarms' = {}
BY DEF AbstractAlarms, Triggers, Waiting, Awaits

LEMMA AlarmsMapped ==
  ASSUME NEW i, NEW x \in Specs,
         Triggers(Watched)' = {[name |-> Watched, id |-> i, spec |-> x]},
         \A h \in Handlers : ~Waiting(h)'
  PROVE  AbstractAlarms' = {x}
<1>1. \A y : (\E e \in cron' : e.name = Watched /\ e.spec = y) <=>
             (\E e \in Triggers(Watched)' : e.spec = y)
  BY DEF Triggers
<1>2. \A y : (\E e \in Triggers(Watched)' : e.spec = y) <=> y = x
  OBVIOUS
<1> QED
  BY <1>1, <1>2 DEF AbstractAlarms, Waiting, Awaits

LEMMA AlarmsAwaited ==
  ASSUME NEW h \in Handlers, Triggers(Watched) = {}, Waiting(h),
         hval[h].spec \in Specs, \A g \in Handlers \ {h} : ~Waiting(g)
  PROVE  AbstractAlarms = {hval[h].spec}
BY DEF AbstractAlarms, Triggers, Waiting, Awaits
LEMMA AlarmsAwaitedNext ==
  ASSUME NEW h \in Handlers, Triggers(Watched)' = {}, Waiting(h)',
         hval'[h].spec \in Specs, \A g \in Handlers \ {h} : ~Waiting(g)'
  PROVE  AbstractAlarms' = {hval'[h].spec}
BY DEF AbstractAlarms, Triggers, Waiting, Awaits

-----------------------------------------------------------------------------
(* Operations on the schedule *)

Unturned == UNCHANGED Book!vars

\* The answer, to a rename as well.
LEMMA AnswerMapped ==
  ASSUME TypeOK, NEW h \in Handlers, Reply(h), Concerns(h, Watched)
  PROVE  Book!CallerStep(h)
<1>1. /\ AbstractStage[h] = StageOf(h)
      /\ AbstractStage' = [AbstractStage EXCEPT ![h] = StageOf(h)']
      /\ AbstractAsked' = [AbstractAsked EXCEPT ![h] = RequestOf(h)']
      /\ UNCHANGED <<AbstractBell, AbstractJob, up>> /\ OthersKept(h)
  BY RequestSeen, OneRequest DEF HandlerStep, HandlerGoesOn
<1>2. /\ hpc[h] \in {"ok", "error"} /\ hpc'[h] = "idle"
      /\ UNCHANGED <<file, flows, cron>>
  BY DEF Reply, HGoTo, Replies, TypeOK, HandlersTyped
<1>3. ~Concerns(h, Watched)' /\ ~Waiting(h) /\ ~Waiting(h)'
  BY <1>2 DEF Concerns, Waiting
<1>4. RequestOf(h)' = None /\ AbstractAlarms' = AbstractAlarms
  BY <1>1, <1>2, <1>3, AlarmsKept DEF RequestOf, Triggers
<1>5. StageOf(h) \in {"ok", "error"} /\ StageOf(h)' = "idle"
  BY <1>2, <1>3, StageValues DEF StageOf
<1>6. Book!Reply(h)
  BY <1>1, <1>2, <1>4, <1>5 DEF Book!Reply, Book!BookKept
<1> QED
  BY <1>6 DEF Book!CallerStep

\* The step of an operation that is under way on the schedule.
Operating(h) == HandlerGoesOn(h) /\ On(h, Watched) /\ up # "down"

\* What is known before and after such a step.
LEMMA OperationFacts ==
  ASSUME TypeOK, InOrder(Watched), NEW h \in Handlers, Operating(h)
  PROVE  /\ hop[h] \in DOMAIN Calls /\ hpc[h] \in Calls[hop[h]] \union Replies
         /\ hop[h] # "rename" /\ hpc[h] # "idle" /\ Concerns(h, Watched)
         /\ hname[h] = Watched /\ Trim(hname[h]) = Watched /\ Saved(h) = Watched
         /\ OthersKept(h) /\ HalfwayOf(h, Watched) /\ InformedOf(h, Watched)
         /\ \A g \in Handlers \ {h} : ~Waiting(g) /\ ~Waiting(g)'
<1>1. OthersKept(h)
  BY Going, OneRequest DEF Operating
<1>2. /\ hop[h] \in DOMAIN Calls /\ hpc[h] \in Calls[hop[h]] \union Replies
      /\ Separate(h, Watched) /\ OperationAt(h, Watched)
  BY UnderWay, WatchedAssumption DEF Operating
<1>3. /\ hop[h] # "rename" /\ hpc[h] # "idle" /\ hname[h] = Watched
      /\ Trim(hname[h]) = Watched /\ Saved(h) = Watched /\ Concerns(h, Watched)
  BY WatchedAssumption DEF Operating, On, Plain, Saved, Concerns
<1>4. \A g \in Handlers \ {h} : ~Waiting(g)
  BY <1>2, WatchedAssumption DEF Separate, Waiting, On, Concerns, Plain
<1>5. \A g \in Handlers \ {h} : ~Waiting(g)'
  BY <1>1, <1>4 DEF OthersKept, Waiting, On
<1> QED
  BY <1>1, <1>2, <1>3, <1>4, <1>5 DEF OperationAt

\* The calls that look: at most they refuse, or find that there is nothing to do.
LEMMA LookMapped ==
  ASSUME TypeOK, InOrder(Watched), NEW h \in Handlers, Operating(h),
         CheckFlow(h) \/ StatSchedule(h) \/ GetSchedule(h)
  PROVE  Book!CallerStep(h) \/ Unturned
<1> USE DEF Unturned, Book!vars, Book!Goes, Book!BookKept, Book!CallerOnly, HGoTo
<1>1. /\ AbstractStage[h] = StageOf(h)
      /\ AbstractStage' = [AbstractStage EXCEPT ![h] = StageOf(h)']
      /\ AbstractAsked[h] = RequestOf(h)
      /\ AbstractAsked' = [AbstractAsked EXCEPT ![h] = RequestOf(h)']
      /\ UNCHANGED <<AbstractBell, AbstractJob, up>>
  BY RequestSeen, Going DEF Operating
<1>2. /\ hop[h] \in DOMAIN Calls /\ hpc[h] \in Calls[hop[h]] \union Replies
      /\ OthersKept(h) /\ hpc \in [Handlers -> HandlerPc]
      /\ Concerns(h, Watched) /\ hop[h] # "rename"
      /\ hname[h] = Watched /\ Trim(hname[h]) = Watched
  BY OperationFacts DEF TypeOK, HandlersTyped
<1>3. UNCHANGED <<file, flows, cron, requestVars>>
  BY DEF CheckFlow, StatSchedule, GetSchedule
<1>4. hpc'[h] \in {"error", "stat", "get", "save", "ok", "unmap"}
  BY <1>2, CallsMade DEF CheckFlow, StatSchedule, GetSchedule, AfterGet, Replies
<1>5. /\ Concerns(h, Watched)' /\ StageOf(h) = StageAt[hpc[h]]
      /\ StageOf(h)' = StageAt[hpc'[h]] /\ AbstractAsked' = AbstractAsked
  <2>1. hop[h] \in {"create", "update"} => hval'[h] = hval[h]
    BY <1>2, CallsMade DEF CheckFlow, StatSchedule, GetSchedule, Replies
  <2>2. Concerns(h, Watched)' /\ RequestOf(h)' = RequestOf(h)
    BY <1>2, <1>3, <1>4, <2>1, RequestKept
  <2> QED
    BY <1>1, <1>2, <2>2, AskedKept DEF StageOf
<1>6. AbstractAlarms' = AbstractAlarms
  <2>1. ~Waiting(h) /\ ~Waiting(h)'
    BY <1>4 DEF Waiting, CheckFlow, StatSchedule, GetSchedule
  <2> QED
    BY <1>2, <1>3, <2>1, AlarmsKept DEF Triggers
<1>7. AbstractAsked[h].op = hop[h]
  BY <1>1, <1>2, RequestFields
<1>8. ASSUME hpc[h] = "checkflow" PROVE Book!CallerStep(h) \/ Unturned
  <2>1. CheckFlow(h) /\ hop[h] \in {"create", "update"}
    BY <1>2, <1>8, CallsMade DEF CheckFlow, StatSchedule, GetSchedule, Replies
  <2>2. AbstractStage[h] = "asked" /\ AbstractAsked[h].value = hval[h]
    BY <1>1, <1>2, <1>5, <1>8, <2>1, StageValues, RequestFields
  <2>3. Book!Permitted(AbstractAsked[h]) <=> hval[h].flow \in flows
    BY <1>7, <2>1, <2>2 DEF Book!Permitted
  <2>4. CASE hval[h].flow \in flows
    <3>1. AbstractStage' = [AbstractStage EXCEPT ![h] = "accepted"]
      BY <1>1, <1>2, <1>5, <2>1, <2>4, StageValues DEF CheckFlow
    <3>2. Book!Accept(h)
      BY <1>1, <1>3, <1>5, <1>6, <2>2, <2>3, <2>4, <3>1 DEF Book!Accept
    <3> QED
      BY <3>2 DEF Book!CallerStep
  <2>5. CASE hval[h].flow \notin flows
    <3>1. AbstractStage' = [AbstractStage EXCEPT ![h] = "error"]
      BY <1>1, <1>2, <1>5, <2>1, <2>5, StageValues DEF CheckFlow
    <3>2. Book!Refuse(h)
      BY <1>1, <1>3, <1>5, <1>6, <2>2, <2>3, <2>5, <3>1 DEF Book!Refuse
    <3> QED
      BY <3>2 DEF Book!CallerStep
  <2> QED
    BY <2>4, <2>5
<1>9. ASSUME hpc[h] \in {"stat", "get"}, hpc'[h] \in {"get", "save", "unmap"}
      PROVE  Unturned
  <2>0. StageAt[hpc[h]] = "accepted" /\ StageAt[hpc'[h]] = "accepted"
    BY <1>9, StageValues
  <2>1. /\ AbstractStage[h] = "accepted"
        /\ AbstractStage' = [AbstractStage EXCEPT ![h] = "accepted"]
    BY <1>1, <1>5, <2>0
  <2>2. AbstractStage' = AbstractStage
    BY <2>1, StageKept
  <2> QED
    BY <1>1, <1>3, <1>5, <1>6, <2>2
\* What is there already, or is not there, ends an operation.
<1>10. ASSUME hpc[h] \in {"stat", "get"}, hpc'[h] = "error",
              \/ hop[h] = "create" /\ Exists(Watched)
              \/ hop[h] \in {"update", "enable", "disable"} /\ ~Exists(Watched)
       PROVE  Book!CallerStep(h)
  <2>1. /\ AbstractStage[h] = "accepted"
        /\ AbstractStage' = [AbstractStage EXCEPT ![h] = "error"]
    BY <1>1, <1>5, <1>10, StageValues
  <2>2. Book!Senseless(AbstractAsked[h])
    BY <1>7, <1>10 DEF Book!Senseless, Exists
  <2>3. Book!Refuse(h)
    BY <1>1, <1>3, <1>5, <1>6, <2>1, <2>2 DEF Book!Refuse
  <2> QED
    BY <2>3 DEF Book!CallerStep
<1>11. ASSUME StatSchedule(h) PROVE Book!CallerStep(h) \/ Unturned
  <2>1. hpc[h] = "stat" /\ hop[h] = "create"
    BY <1>2, <1>11, CallsMade DEF StatSchedule, Replies
  <2>2. hpc'[h] = "save" \/ (hpc'[h] = "error" /\ Exists(Watched))
    BY <1>2, <1>11 DEF StatSchedule
  <2> QED
    BY <1>9, <1>10, <2>1, <2>2
<1>12. ASSUME GetSchedule(h) PROVE Book!CallerStep(h) \/ Unturned
  <2>1. hpc[h] = "get" /\ hop[h] \in {"update", "enable", "disable"}
    BY <1>2, <1>12, CallsMade DEF GetSchedule, Replies
  <2>2. \/ hpc'[h] = "error" /\ ~Exists(Watched)
        \/ hpc'[h] = AfterGet[hop[h]]
        \/ hpc'[h] = "ok" /\ Exists(Watched) /\ hop[h] # "update"
             /\ file[Watched].enabled = (hop[h] = "enable")
    BY <1>2, <1>12 DEF GetSchedule, Exists
  <2>3. CASE hpc'[h] = "ok" /\ Exists(Watched) /\ hop[h] # "update"
             /\ file[Watched].enabled = (hop[h] = "enable")
    <3>1. /\ AbstractStage[h] = "accepted"
          /\ AbstractStage' = [AbstractStage EXCEPT ![h] = "ok"]
      BY <1>1, <1>5, <2>1, <2>3, StageValues
    <3>2. Book!Switch(h)
      BY <1>1, <1>3, <1>5, <1>6, <1>7, <2>1, <2>3, <3>1 DEF Book!Switch, Exists
    <3> QED
      BY <3>2 DEF Book!CallerStep
  <2> QED
    BY <1>9, <1>10, <2>1, <2>2, <2>3 DEF AfterGet
<1> QED
  BY <1>8, <1>11, <1>12 DEF CheckFlow

\* The calls that change the file, the map or the cron library, and the answer.
LEMMA ChangeMapped ==
  ASSUME TypeOK, InOrder(Watched), InOrder(Watched)', NEW h \in Handlers, Operating(h),
         \/ RemoveEntry(h) \/ SaveSchedule(h) \/ AddFunc(h) \/ MapEntry(h)
         \/ DeleteSchedule(h) \/ Reply(h)
  PROVE  Book!CallerStep(h) \/ Unturned
<1> USE DEF Unturned, Book!vars, Book!Goes, Book!BookKept, Book!CallerOnly, HGoTo
<1>1. /\ AbstractStage[h] = StageOf(h)
      /\ AbstractStage' = [AbstractStage EXCEPT ![h] = StageOf(h)']
      /\ AbstractAsked[h] = RequestOf(h)
      /\ AbstractAsked' = [AbstractAsked EXCEPT ![h] = RequestOf(h)']
      /\ UNCHANGED <<AbstractBell, AbstractJob, up>>
  BY RequestSeen, Going DEF Operating
<1>2. /\ hop[h] \in DOMAIN Calls /\ hpc[h] \in Calls[hop[h]] \union Replies
      /\ OthersKept(h) /\ hpc \in [Handlers -> HandlerPc]
      /\ Concerns(h, Watched) /\ hpc[h] # "idle" /\ hop[h] # "rename"
      /\ hname[h] = Watched /\ Trim(hname[h]) = Watched /\ Saved(h) = Watched
      /\ \A g \in Handlers \ {h} : ~Waiting(g) /\ ~Waiting(g)'
      /\ HalfwayOf(h, Watched) /\ InformedOf(h, Watched)
  BY OperationFacts DEF TypeOK, HandlersTyped
<1>3. /\ file \in [Names -> Schedule \union {None}] /\ Watched \in Names
      /\ hop[h] \in {"create", "update"} => hval[h] \in Schedule
      /\ Changing(h) => hval[h] \in Schedule /\ hval[h].enabled = (hop[h] = "enable")
  BY <1>2, CallsMade, WatchedAssumption DEF TypeOK, HandlersReady
<1>4. AbstractAsked[h].op = hop[h]
  BY <1>1, <1>2, RequestFields
<1>5. ASSUME ~Reply(h)
      PROVE  /\ flows' = flows /\ AbstractAsked' = AbstractAsked
             /\ On(h, Watched)' /\ HalfwayOf(h, Watched)'
             /\ StageOf(h) = StageAt[hpc[h]] /\ StageOf(h)' = StageAt[hpc'[h]]
  <2>1. UNCHANGED <<flows, requestVars, hval>> /\ hpc'[h] # "idle"
    BY <1>2, <1>5
    DEF RemoveEntry, SaveSchedule, AddFunc, MapEntry, DeleteSchedule
  <2>2. Concerns(h, Watched)' /\ RequestOf(h)' = RequestOf(h)
    BY <1>2, <2>1, RequestKept
  <2>3. On(h, Watched)'
    BY <1>2, <2>1 DEF On, requestVars
  <2>4. HalfwayOf(h, Watched)'
    BY <2>3 DEF InOrder, OperationAt
  <2> QED
    BY <1>1, <1>2, <2>1, <2>2, <2>3, <2>4, AskedKept DEF StageOf
<1>6. ASSUME cron' = cron, ~Waiting(h), ~Waiting(h)'
      PROVE  AbstractAlarms' = AbstractAlarms
  BY <1>2, <1>6, AlarmsKept DEF Triggers
<1>7. ASSUME RemoveEntry(h) PROVE Book!CallerStep(h)
  <2>1. /\ hpc[h] = "unmap" /\ hpc'[h] \in {"save", "remove"} /\ file' = file
        /\ hop[h] \in {"update", "delete", "disable"}
    BY <1>2, <1>7, CallsMade DEF RemoveEntry, Replies
  <2>2. ~Reply(h)
    BY <2>1 DEF Reply, Replies
  <2>3. AbstractAlarms' = {}
    <3>1. Triggers(Watched)' = {} /\ ~Waiting(h)'
      BY <1>5, <2>1, <2>2 DEF HalfwayOf, Cleared, Waiting
    <3>2. \A g \in Handlers : ~Waiting(g)'
      BY <1>2, <3>1
    <3> QED
      BY <3>1, <3>2, AlarmsNoneNext
  <2>4. StageAt[hpc[h]] = "accepted" /\ StageAt[hpc'[h]] = "accepted"
    BY <2>1, StageValues
  <2>5. AbstractStage[h] = "accepted" /\ AbstractStage' = AbstractStage
    BY <1>1, <1>5, <2>2, <2>4, StageKept
  <2>6. Book!Disarm(h)
    BY <1>1, <1>4, <1>5, <2>1, <2>2, <2>3, <2>5 DEF Book!Disarm
  <2> QED
    BY <2>6 DEF Book!CallerStep
\* The moment at which Create, Update, Enable and Disable take effect.
<1>8. ASSUME SaveSchedule(h) PROVE Book!CallerStep(h)
  <2>1. /\ hpc[h] = "save" /\ hop[h] \in {"create", "update", "enable", "disable"}
        /\ UNCHANGED <<cron, hval>> /\ Cleared(Watched)
    BY <1>2, <1>8, CallsMade DEF SaveSchedule, Replies, HalfwayOf
  <2>2. /\ UNCHANGED <<flows, AbstractAsked>> /\ On(h, Watched)'
        /\ StageOf(h) = StageAt[hpc[h]] /\ StageOf(h)' = StageAt[hpc'[h]]
    BY <1>5, <2>1 DEF Reply, Replies
  <2>3. AbstractStage[h] = "accepted" /\ hval[h] \in Schedule
    BY <1>1, <1>3, <2>1, <2>2, StageValues DEF Changing
  <2>4. CASE file' = [file EXCEPT ![Watched] = hval[h]]
             /\ hpc' = [hpc EXCEPT ![h] = IF hval[h].enabled THEN "addfunc" ELSE "ok"]
    <3>1. hpc'[h] = IF hval[h].enabled THEN "addfunc" ELSE "ok"
      BY <1>2, <2>4
    <3>2. AbstractStage' = [AbstractStage EXCEPT ![h] = "ok"]
      <4>1. StageAt[hpc'[h]] = "ok"
        BY <3>1, StageValues
      <4> QED
        BY <1>1, <2>2, <4>1
    <3>3. AbstractAlarms' = Book!AlarmsOf(hval[h])
      <4>1. hval[h] # None /\ hval[h].spec \in Specs /\ Triggers(Watched)' = {}
        BY <2>1, <2>3, NoneAssumption DEF Schedule, Cleared, Triggers
      <4>2. CASE hval[h].enabled
        <5>1. Waiting(h)'
          BY <2>2, <3>1, <4>2 DEF Waiting
        <5>2. AbstractAlarms' = {hval'[h].spec}
          BY <1>2, <2>1, <4>1, <5>1, AlarmsAwaitedNext
        <5> QED
          BY <2>1, <4>1, <4>2, <5>2 DEF Book!AlarmsOf
      <4>3. CASE ~hval[h].enabled
        <5>1. \A g \in Handlers : ~Waiting(g)'
          BY <1>2, <3>1, <4>3 DEF Waiting
        <5>2. AbstractAlarms' = {}
          BY <4>1, <5>1, AlarmsNoneNext
        <5> QED
          BY <4>3, <5>2 DEF Book!AlarmsOf
      <4> QED
        BY <4>2, <4>3
    <3>4. Book!Enters(hval[h])
      BY <1>3, <2>4, <3>3 DEF Book!Enters
    <3>5. CASE hop[h] \in {"create", "update"}
      <4>1. AbstractAsked[h].value = hval[h]
        BY <1>1, <1>2, <3>5, RequestFields
      <4>2. file[Watched] = None <=> hop[h] = "create"
        BY <1>2, <2>1, <3>5 DEF InformedOf, Exists
      <4>3. Book!Write(h)
        BY <1>1, <1>4, <2>2, <2>3, <3>2, <3>4, <3>5, <4>1, <4>2 DEF Book!Write
      <4> QED
        BY <4>3 DEF Book!CallerStep
    <3>6. CASE hop[h] \in {"enable", "disable"}
      <4> DEFINE on == hop[h] = "enable"
      <4>1. /\ file[Watched] # None /\ file[Watched] \in Schedule
            /\ hval[h] = Flipped(file[Watched]) /\ hval[h].enabled = on
        BY <1>2, <1>3, <2>1, <3>6 DEF InformedOf, Exists, Changing
      <4>2. file[Watched].enabled # on
        BY <4>1, FlippedFields DEF Schedule
      <4>3. hval[h] = [file[Watched] EXCEPT !.enabled = on]
        BY <4>1, <4>2 DEF Flipped, Schedule
      <4>4. Book!Switch(h)
        BY <1>1, <1>4, <2>2, <2>3, <3>2, <3>4, <3>6, <4>1, <4>2, <4>3
        DEF Book!Switch
      <4> QED
        BY <4>4 DEF Book!CallerStep
    <3> QED
      BY <2>1, <3>5, <3>6
  <2>5. CASE "write" \in Faults /\ hpc' = [hpc EXCEPT ![h] = "error"] /\ file' = file
    <3>1. hpc'[h] = "error" /\ AbstractStage' = [AbstractStage EXCEPT ![h] = "error"]
      BY <1>1, <1>2, <2>2, <2>5, StageValues
    <3>2. AbstractAlarms' = AbstractAlarms
      BY <1>6, <2>1, <3>1 DEF Waiting
    <3>3. Book!Mishap(AbstractAsked[h])
      BY <1>4, <2>1, <2>5 DEF Book!Mishap
    <3>4. Book!Refuse(h)
      BY <1>1, <2>2, <2>3, <2>5, <3>1, <3>2, <3>3 DEF Book!Refuse
    <3> QED
      BY <3>4 DEF Book!CallerStep
  <2> QED
    BY <1>2, <1>8, <2>4, <2>5 DEF SaveSchedule
\* The cron entry that the alarm had to wait for.
<1>9. ASSUME AddFunc(h) PROVE Unturned
  <2>1. PICK i \in EntryIds :
          cron' = cron \union {[name |-> Watched, id |-> i, spec |-> hval[h].spec]}
    BY <1>2, <1>9 DEF AddFunc
  <2>2. /\ hpc[h] = "addfunc" /\ hpc'[h] = "map" /\ UNCHANGED <<file, hval>>
        /\ Cleared(Watched) /\ Waiting(h) /\ ~Waiting(h)'
    BY <1>2, <1>9 DEF AddFunc, HalfwayOf, Waiting, Operating
  <2>3. ~Reply(h)
    BY <2>2 DEF Reply, Replies
  <2>4. hval[h].spec \in Specs
    BY <1>2, <1>3, <2>2, CallsMade DEF Changing, Schedule, Replies
  <2>5. AbstractAlarms = {hval[h].spec}
    BY <1>2, <2>2, <2>4, AlarmsAwaited DEF Cleared
  <2>6. Triggers(Watched)' = {[name |-> Watched, id |-> i, spec |-> hval[h].spec]}
    BY <2>1, <2>2 DEF Cleared, Triggers
  <2>7. \A g \in Handlers : ~Waiting(g)'
    BY <1>2, <2>2
  <2>8. AbstractAlarms' = {hval[h].spec}
    BY <2>4, <2>6, <2>7, AlarmsMapped
  <2>9. AbstractStage' = AbstractStage
    <3>1. StageAt[hpc[h]] = "ok" /\ StageAt[hpc'[h]] = "ok"
      BY <2>2, StageValues
    <3> QED
      BY <1>1, <1>5, <2>3, <3>1, StageKept
  <2> QED
    BY <1>1, <1>5, <2>2, <2>3, <2>5, <2>8, <2>9
<1>10. ASSUME MapEntry(h) PROVE Unturned
  <2>1. hpc[h] = "map" /\ hpc'[h] = "ok" /\ UNCHANGED <<file, cron>> /\ ~Reply(h)
    BY <1>2, <1>10 DEF MapEntry, Reply, Replies
  <2>2. AbstractAlarms' = AbstractAlarms
    BY <1>6, <2>1 DEF Waiting
  <2>3. StageAt[hpc[h]] = "ok" /\ StageAt[hpc'[h]] = "ok"
    BY <2>1, StageValues
  <2>4. AbstractStage' = AbstractStage
    BY <1>1, <1>5, <2>1, <2>3, StageKept
  <2> QED
    BY <1>1, <1>5, <2>1, <2>2, <2>4
\* The moment at which Delete takes effect, if it does.
<1>11. ASSUME DeleteSchedule(h) PROVE Book!CallerStep(h)
  <2>1. /\ hpc[h] = "remove" /\ hop[h] = "delete" /\ cron' = cron
        /\ hpc'[h] \in {"ok", "error"} /\ ~Waiting(h) /\ ~Waiting(h)'
    BY <1>2, <1>11, CallsMade DEF DeleteSchedule, Replies, Waiting
  <2>2. /\ UNCHANGED <<flows, AbstractAsked>>
        /\ StageOf(h) = StageAt[hpc[h]] /\ StageOf(h)' = StageAt[hpc'[h]]
    BY <1>5, <2>1 DEF Reply, Replies
  <2>3. AbstractAlarms' = AbstractAlarms /\ AbstractAlarms = {}
    <3>1. Triggers(Watched) = {} /\ \A g \in Handlers : ~Waiting(g)
      BY <1>2, <2>1 DEF HalfwayOf, Cleared
    <3> QED
      BY <1>6, <2>1, <3>1, AlarmsNone
  <2>4. AbstractStage[h] = "accepted"
    BY <1>1, <2>1, <2>2, StageValues
  <2>5. CASE /\ Exists(Watched) /\ file' = [file EXCEPT ![Watched] = None]
             /\ hpc'[h] = "ok"
    <3>1. AbstractStage' = [AbstractStage EXCEPT ![h] = "ok"]
      BY <1>1, <2>2, <2>5, StageValues
    <3>2. Book!Enters(None)
      BY <1>3, <2>3, <2>5 DEF Book!Enters, Book!AlarmsOf
    <3>3. Book!Erase(h)
      BY <1>1, <1>4, <2>1, <2>2, <2>4, <2>5, <3>1, <3>2 DEF Book!Erase, Exists
    <3> QED
      BY <3>3 DEF Book!CallerStep
  <2>6. CASE /\ ~Exists(Watched) \/ "remove" \in Faults
             /\ file' = file /\ hpc'[h] = "error"
    <3>1. AbstractStage' = [AbstractStage EXCEPT ![h] = "error"]
      BY <1>1, <2>2, <2>6, StageValues
    <3>2. Book!Senseless(AbstractAsked[h]) \/ Book!Mishap(AbstractAsked[h])
      BY <1>4, <2>1, <2>6 DEF Book!Senseless, Book!Mishap, Exists
    <3>3. Book!Refuse(h)
      BY <1>1, <2>2, <2>3, <2>4, <2>6, <3>1, <3>2 DEF Book!Refuse
    <3> QED
      BY <3>3 DEF Book!CallerStep
  <2> QED
    BY <1>2, <1>11, <2>5, <2>6 DEF DeleteSchedule
<1>12. ASSUME Reply(h) PROVE Book!CallerStep(h)
  BY <1>2, <1>12, AnswerMapped
<1> QED
  BY <1>7, <1>8, <1>9, <1>10, <1>11, <1>12

-----------------------------------------------------------------------------
(* Renames, new requests, and those about other schedules *)

LEMMA RenameMapped ==
  ASSUME TypeOK, Renaming, InOrder(Watched), NEW h \in Handlers,
         hop[h] = "rename", HandlerGoesOn(h)
  PROVE  Book!CallerStep(h) \/ Unturned
<1> USE DEF Unturned, Book!vars, Book!Goes, Book!BookKept, Book!CallerOnly, HGoTo
<1>1. /\ AbstractStage[h] = StageOf(h)
      /\ AbstractStage' = [AbstractStage EXCEPT ![h] = StageOf(h)']
      /\ AbstractAsked[h] = RequestOf(h)
      /\ AbstractAsked' = [AbstractAsked EXCEPT ![h] = RequestOf(h)']
      /\ UNCHANGED <<AbstractBell, AbstractJob, up>>
      /\ OthersKept(h) /\ hpc[h] # "idle"
  BY RequestSeen, OneRequest, Going
<1>2. /\ hpc[h] \in {"checkrename", "writeflow", "removeflow", "list", "rewrite"}
                      \union Replies
      /\ hpc \in [Handlers -> HandlerPc]
      /\ file \in [Names -> Schedule \union {None}] /\ Watched \in Names
      /\ RenameAt(h, Watched) /\ Concerns(h, Watched)
  BY <1>1, CallsMade, WatchedAssumption
  DEF TypeOK, HandlersTyped, HandlersReady, InOrder, Concerns
<1>3. /\ AbstractAsked[h].op = "rename" /\ AbstractAsked[h].from = hfrom[h]
      /\ AbstractAsked[h].to = hto[h] /\ StageOf(h) = StageAt[hpc[h]]
  BY <1>1, <1>2, RequestFields DEF StageOf
\* A rename changes no trigger.
<1>4. ASSUME UNCHANGED <<cron, requestVars>>,
             hpc'[h] \in {"writeflow", "removeflow", "list", "rewrite", "ok", "error"}
      PROVE  /\ UNCHANGED <<AbstractAlarms, AbstractAsked>>
             /\ StageOf(h)' = StageAt[hpc'[h]]
  <2>1. Concerns(h, Watched)' /\ RequestOf(h)' = RequestOf(h)
    BY <1>2, <1>4, RequestKept
  <2>2. AbstractAlarms' = AbstractAlarms
    <3>1. ~Waiting(h) /\ ~Waiting(h)'
      BY <1>4 DEF Waiting, On, requestVars
    <3> QED
      BY <1>1, <1>4, <3>1, AlarmsKept DEF Triggers
  <2> QED
    BY <1>1, <2>1, <2>2, AskedKept DEF StageOf
<1>5. ASSUME CheckRename(h) PROVE Book!CallerStep(h)
  <2> DEFINE free == Trim(hfrom[h]) \in flows /\ Trim(hto[h]) \notin flows
  <2>1. /\ hpc[h] = "checkrename" /\ UNCHANGED <<file, flows, cron, requestVars>>
        /\ hpc'[h] = IF free THEN "writeflow" ELSE "error"
    BY <1>2, <1>5 DEF CheckRename
  <2>2. /\ UNCHANGED <<AbstractAlarms, AbstractAsked>>
        /\ StageOf(h)' = StageAt[hpc'[h]]
    BY <1>4, <2>1
  <2>3. Book!Permitted(AbstractAsked[h]) <=> free
    BY <1>3 DEF Book!Permitted
  <2>4. CASE free
    <3>1. Book!Accept(h)
      BY <1>1, <1>3, <2>1, <2>2, <2>3, <2>4, StageValues DEF Book!Accept
    <3> QED
      BY <3>1 DEF Book!CallerStep
  <2>5. CASE ~free
    <3>1. Book!Refuse(h)
      BY <1>1, <1>3, <2>1, <2>2, <2>3, <2>5, StageValues DEF Book!Refuse
    <3> QED
      BY <3>1 DEF Book!CallerStep
  <2> QED
    BY <2>4, <2>5
<1>6. ASSUME WriteFlow(h) PROVE Book!CallerStep(h)
  <2>1. hpc[h] = "writeflow" /\ UNCHANGED <<file, cron, requestVars>>
        /\ AbstractStage[h] = "accepted"
    BY <1>1, <1>3, <1>6, StageValues DEF WriteFlow
  <2>2. CASE /\ Trim(hfrom[h]) \in flows /\ flows' = flows \union {Trim(hto[h])}
             /\ hpc' = [hpc EXCEPT ![h] = "removeflow"]
    <3>1. /\ hpc'[h] = "removeflow" /\ UNCHANGED <<AbstractAlarms, AbstractAsked>>
          /\ StageOf(h)' = StageAt[hpc'[h]]
      BY <1>2, <1>4, <2>1, <2>2
    <3>2. Book!Publish(h)
      BY <1>1, <1>3, <2>1, <2>2, <3>1, StageValues DEF Book!Publish
    <3> QED
      BY <3>2 DEF Book!CallerStep
  <2>3. CASE /\ Trim(hfrom[h]) \notin flows \/ "write" \in Faults
             /\ hpc' = [hpc EXCEPT ![h] = "error"] /\ flows' = flows
    <3>1. /\ hpc'[h] = "error" /\ UNCHANGED <<AbstractAlarms, AbstractAsked>>
          /\ StageOf(h)' = StageAt[hpc'[h]]
      BY <1>2, <1>4, <2>1, <2>3
    <3>2. Book!Senseless(AbstractAsked[h]) \/ Book!Mishap(AbstractAsked[h])
      BY <1>3, <2>3 DEF Book!Senseless, Book!Mishap
    <3>3. Book!Refuse(h)
      BY <1>1, <2>1, <2>3, <3>1, <3>2, StageValues DEF Book!Refuse
    <3> QED
      BY <3>3 DEF Book!CallerStep
  <2> QED
    BY <1>6, <2>2, <2>3 DEF WriteFlow
<1>7. ASSUME RemoveFlow(h) PROVE Book!CallerStep(h)
  <2>1. /\ hpc[h] = "removeflow" /\ hpc'[h] = "list"
        /\ UNCHANGED <<file, cron, requestVars>>
    BY <1>2, <1>7 DEF RemoveFlow
  <2>2. /\ UNCHANGED <<AbstractAlarms, AbstractAsked>>
        /\ StageOf(h)' = StageAt[hpc'[h]]
    BY <1>4, <2>1
  <2>3. flows' = flows \ {Trim(hfrom[h])} \/ ("remove" \in Faults /\ flows' = flows)
    BY <1>7 DEF RemoveFlow
  <2>4. Book!Retire(h)
    BY <1>1, <1>3, <2>1, <2>2, <2>3, StageValues DEF Book!Retire
  <2> QED
    BY <2>4 DEF Book!CallerStep
<1>8. ASSUME hpc[h] \in {"list", "rewrite"}, hpc'[h] = "rewrite",
             UNCHANGED <<cron, requestVars>>
      PROVE  /\ AbstractStage[h] = "moving"
             /\ UNCHANGED <<AbstractStage, AbstractAlarms, AbstractAsked>>
  <2>1. StageAt[hpc[h]] = "moving" /\ StageAt[hpc'[h]] = "moving"
    BY <1>8, StageValues
  <2> QED
    BY <1>1, <1>3, <1>4, <1>8, <2>1, StageKept
<1>9. ASSUME ListSchedules(h) PROVE Unturned
  <2>1. /\ hpc[h] = "list" /\ hpc'[h] = "rewrite"
        /\ UNCHANGED <<file, flows, cron, requestVars>>
    BY <1>2, <1>9 DEF ListSchedules
  <2> QED
    BY <1>1, <1>8, <2>1
\* Other schedules are rewritten as well.
<1>10. ASSUME RewriteSchedule(h) PROVE Book!CallerStep(h) \/ Unturned
  <2>1. PICK r \in hlist[h] : RewriteSchedule(h)!2!(r)
    BY <1>10 DEF RewriteSchedule
  <2>2. /\ hpc[h] = "rewrite" /\ hpc'[h] = "rewrite"
        /\ UNCHANGED <<flows, cron, requestVars>>
    BY <1>10 DEF RewriteSchedule
  <2>3. AbstractStage[h] = "moving"
        /\ UNCHANGED <<AbstractStage, AbstractAlarms, AbstractAsked>>
    BY <1>8, <2>2
  <2>4. r.name \in Names /\ r.old \in Schedule /\ r.old.flow = hfrom[h]
    BY <2>2 DEF Renaming, TypeOK, HandlersTyped
  <2>5. CASE r.name = Watched /\ file' = [file EXCEPT ![r.name] = Moved(r.old, hto[h])]
    <3>1. r.old = file[Watched]
      BY <1>2, <2>2, <2>5 DEF RenameAt
    <3>2. file'[Watched] = [file[Watched] EXCEPT !.flow = hto[h]]
      BY <1>2, <2>5, <3>1 DEF Moved
    <3>3. Book!Refers(hfrom[h])
      BY <2>4, <3>1, NoneAssumption DEF Book!Refers
    <3>4. Book!Move(h)
      BY <1>1, <1>3, <2>2, <2>3, <3>2, <3>3 DEF Book!Move
    <3> QED
      BY <3>4 DEF Book!CallerStep
  <2>6. CASE ~(r.name = Watched /\ file' = [file EXCEPT ![r.name] = Moved(r.old, hto[h])])
    <3>1. file'[Watched] = file[Watched]
      BY <1>2, <2>1, <2>4, <2>6
    <3> QED
      BY <1>1, <2>2, <2>3, <3>1
  <2> QED
    BY <2>5, <2>6
<1>11. ASSUME RewriteDone(h) PROVE Book!CallerStep(h)
  <2>1. /\ hpc[h] = "rewrite" /\ hlist[h] = {} /\ hpc'[h] = "ok"
        /\ UNCHANGED <<file, flows, cron, requestVars>>
    BY <1>2, <1>11 DEF RewriteDone
  <2>2. /\ UNCHANGED <<AbstractAlarms, AbstractAsked>>
        /\ StageOf(h)' = StageAt[hpc'[h]]
    BY <1>4, <2>1
  <2>3. "write" \in Faults \/ ~Book!Refers(hfrom[h])
    BY <1>2, <2>1 DEF RenameAt, Exists, Book!Refers
  <2>4. Book!Complete(h)
    BY <1>1, <1>3, <2>1, <2>2, <2>3, StageValues DEF Book!Complete
  <2> QED
    BY <2>4 DEF Book!CallerStep
<1>12. ASSUME Reply(h) PROVE Book!CallerStep(h)
  BY <1>2, <1>12, AnswerMapped
<1> QED
  BY <1>2, <1>5, <1>6, <1>7, <1>9, <1>10, <1>11, <1>12
  DEF HandlerGoesOn, CheckFlow, StatSchedule, GetSchedule, RemoveEntry,
      SaveSchedule, AddFunc, MapEntry, DeleteSchedule, Replies

\* A request that is about another schedule does not show.
LEMMA ElsewhereUnturned ==
  ASSUME TypeOK, NEW h \in Handlers, HandlerStep(h),
         ~Concerns(h, Watched), ~Concerns(h, Watched)',
         ScheduleKept(Watched), UNCHANGED flows
  PROVE  Unturned
<1>1. /\ AbstractStage[h] = StageOf(h)
      /\ AbstractStage' = [AbstractStage EXCEPT ![h] = StageOf(h)']
      /\ AbstractAsked[h] = RequestOf(h)
      /\ AbstractAsked' = [AbstractAsked EXCEPT ![h] = RequestOf(h)']
      /\ UNCHANGED <<AbstractBell, AbstractJob, up>> /\ OthersKept(h)
  BY RequestSeen, OneRequest
<1>2. /\ StageOf(h) = "idle" /\ StageOf(h)' = "idle"
      /\ RequestOf(h) = None /\ RequestOf(h)' = None
  BY DEF StageOf, RequestOf
<1>3. UNCHANGED <<AbstractStage, AbstractAsked>>
  BY <1>1, <1>2, StageKept, AskedKept
<1>4. ~Waiting(h) /\ ~Waiting(h)'
  BY WatchedAssumption DEF Waiting, On, Concerns, Plain
<1>5. AbstractAlarms' = AbstractAlarms
  BY <1>1, <1>4, AlarmsKept DEF ScheduleKept
<1> QED
  BY <1>1, <1>3, <1>5 DEF Unturned, Book!vars, ScheduleKept

LEMMA NewRequestMapped ==
  ASSUME TypeOK, NEW h \in Handlers,
         \/ \E op \in Ops, n \in Names, s \in Schedule \union {None} :
              Request(h, op, n, s)
         \/ \E from, to \in Flows : RequestRename(h, from, to)
  PROVE  Book!CallerStep(h) \/ Unturned
<1> USE DEF Book!Goes, Book!BookKept
<1>1. /\ AbstractStage[h] = StageOf(h)
      /\ AbstractStage' = [AbstractStage EXCEPT ![h] = StageOf(h)']
      /\ AbstractAsked' = [AbstractAsked EXCEPT ![h] = RequestOf(h)']
      /\ UNCHANGED <<AbstractBell, AbstractJob, up>> /\ OthersKept(h)
  BY RequestSeen, OneRequest DEF HandlerStep
<1>2. /\ hpc[h] = "idle" /\ up = "up" /\ UNCHANGED <<file, flows, cron, entries, damaged>>
      /\ HandlersTyped
  BY DEF Request, RequestRename, TypeOK
<1>3. AbstractStage[h] = "idle" /\ ~Concerns(h, Watched) /\ ~Waiting(h)
  BY <1>1, <1>2 DEF StageOf, Concerns, Waiting
<1>4. ASSUME ~Waiting(h)' PROVE AbstractAlarms' = AbstractAlarms
  BY <1>1, <1>2, <1>3, <1>4, AlarmsKept DEF Triggers
<1>5. ASSUME NEW op \in Ops, NEW n \in Names, NEW s \in Schedule \union {None},
             Request(h, op, n, s)
      PROVE  Book!CallerStep(h) \/ Unturned
  <2>1. /\ hop'[h] = op /\ hname'[h] = n /\ hval'[h] = s /\ hpc'[h] = FirstCall[op]
        /\ op \in {"create", "update", "delete", "enable", "disable"}
        /\ op \in {"create", "update"} => s \in Schedule
    BY <1>2, <1>5, OptionsAssumption DEF Request, HandlersTyped, HGoTo
  <2>2. /\ op \in {"create", "update"} => hpc'[h] = "checkflow"
        /\ op \notin {"create", "update"} => hpc'[h] \in {"get", "unmap"}
    BY <2>1 DEF FirstCall
  <2>3. CASE Trim(n) # Watched
    <3>1. ~Concerns(h, Watched)'
      BY <2>1, <2>3 DEF Concerns
    <3>2. ScheduleKept(Watched) /\ UNCHANGED flows
      BY <1>2 DEF ScheduleKept, Triggers
    <3> QED
      BY <1>3, <1>5, <3>1, <3>2, ElsewhereUnturned DEF HandlerStep
  <2>4. CASE Trim(n) = Watched
    <3>1. Concerns(h, Watched)' /\ ~Waiting(h)' /\ StageOf(h)' = StageAt[hpc'[h]]
      BY <2>1, <2>2, <2>4 DEF Concerns, Waiting, StageOf
    <3> DEFINE r == RequestOf(h)'
    <3>2. r \in Book!Requests /\ r.op = op
      <4>1. CASE op \in {"create", "update"}
        <5>1. r = [op |-> op, value |-> s]
          BY <2>1, <3>1, <4>1 DEF RequestOf
        <5> QED
          BY <2>1, <4>1, <5>1 DEF Book!Requests, Book!Schedule, Schedule
      <4>2. CASE op \notin {"create", "update"}
        <5>1. r = [op |-> op]
          BY <2>1, <3>1, <4>2 DEF RequestOf
        <5> QED
          BY <2>1, <4>2, <5>1 DEF Book!Requests
      <4> QED
        BY <4>1, <4>2
    <3>3. StageAt[hpc'[h]] = IF Book!NeedsFlow(r) THEN "asked" ELSE "accepted"
      BY <2>1, <2>2, <3>2, StageValues DEF Book!NeedsFlow
    <3>4. Book!Ask(h, r)
      BY <1>1, <1>2, <1>3, <1>4, <3>1, <3>3 DEF Book!Ask
    <3> QED
      BY <3>2, <3>4 DEF Book!CallerStep
  <2> QED
    BY <2>3, <2>4
<1>6. ASSUME NEW from \in Flows, NEW to \in Flows, RequestRename(h, from, to)
      PROVE  Book!CallerStep(h)
  <2>1. /\ hop'[h] = "rename" /\ hfrom'[h] = from /\ hto'[h] = to
        /\ hpc'[h] = "checkrename"
    BY <1>2, <1>6 DEF RequestRename, HandlersTyped, HGoTo
  <2>2. Concerns(h, Watched)' /\ ~Waiting(h)' /\ StageOf(h)' = StageAt[hpc'[h]]
    BY <2>1 DEF Concerns, Waiting, StageOf
  <2> DEFINE r == RequestOf(h)'
  <2>3. r = [op |-> "rename", from |-> from, to |-> to]
    BY <2>1, <2>2 DEF RequestOf
  <2>4. r \in Book!Requests /\ Book!NeedsFlow(r)
    BY <2>3 DEF Book!Requests, Book!NeedsFlow
  <2>5. Book!Ask(h, r)
    BY <1>1, <1>2, <1>3, <1>4, <2>1, <2>2, <2>4, StageValues DEF Book!Ask
  <2> QED
    BY <2>4, <2>5 DEF Book!CallerStep
<1> QED
  BY <1>5, <1>6

-----------------------------------------------------------------------------
(* Callbacks, flows and the daemon *)

\* A step that leaves requests and cron entries alone.
LEMMA RequestsUnseen ==
  ASSUME UNCHANGED <<cron, handlerVars>>
  PROVE  UNCHANGED <<AbstractStage, AbstractAsked, AbstractAlarms>>
BY DEF handlerVars, requestVars, AbstractStage, AbstractAsked, RequestOf,
       AbstractAlarms, Awaits, On, Concerns

\* What callback b shows of itself.
JobOf(b) == IF Rings(b) /\ bpc[b] = "save" THEN bval[b].flow ELSE None

LEMMA CallbackSeen ==
  ASSUME TypeOK, InOrder(Watched), Watched \notin raced', NEW b \in Callbacks,
         CallbackGoesOn(b) \/ \E n \in Names : Fire(b, n)
  PROVE  Book!CreateJob(b) \/ Book!Fall(b) \/ Book!Ring(b) \/ Unturned
<1> USE DEF Unturned, Book!vars, Book!BellOnly, Book!BookKept, BGoTo, BEnd
<1>1. /\ CallbacksTyped /\ Watched \in Names /\ Plain(Watched) /\ cron \subseteq Entry
      /\ bpc[b] # "idle" /\ Trim(bname[b]) = Watched =>
           bname[b] = Watched /\ CallbackAt(b, Watched)
  BY WatchedAssumption DEF TypeOK, InOrder, ApartAt
<1>2. UNCHANGED <<file[Watched], flows, up>>
      /\ UNCHANGED <<AbstractStage, AbstractAsked, AbstractAlarms>>
  <2>1. CallbackOnly
    BY DEF CallbackGoesOn, Fire, Reload, EnqueueJob, SaveLastRun
  <2> QED
    BY <1>1, <2>1, NoTrace, RequestsUnseen DEF CallbackOnly, daemonVars
<1>3. \A c \in Callbacks \ {b} : Rings(c)' = Rings(c) /\ JobOf(c)' = JobOf(c)
  <2>1. \A c \in Callbacks \ {b} :
          bpc'[c] = bpc[c] /\ bname'[c] = bname[c] /\ bval'[c] = bval[c]
    BY <1>1 DEF CallbacksTyped, CallbackGoesOn, Fire, Reload, EnqueueJob, SaveLastRun
  <2> QED
    BY <2>1 DEF Rings, JobOf
<1>4. /\ AbstractBell = [c \in Callbacks |-> Rings(c)]
      /\ AbstractBell' = [c \in Callbacks |-> Rings(c)']
      /\ AbstractJob = [c \in Callbacks |-> JobOf(c)]
      /\ AbstractJob' = [c \in Callbacks |-> JobOf(c)']
  BY DEF AbstractBell, AbstractJob, JobOf
<1>5. ASSUME Rings(b)' = Rings(b) PROVE AbstractBell' = AbstractBell
  <2>1. \A c \in Callbacks : Rings(c)' = Rings(c)
    BY <1>3, <1>5
  <2> QED
    BY <1>4, <2>1
<1>6. ASSUME JobOf(b)' = JobOf(b) PROVE AbstractJob' = AbstractJob
  BY <1>3, <1>4, <1>6
<1>7. AbstractJob' = [AbstractJob EXCEPT ![b] = JobOf(b)'] /\ AbstractJob[b] = JobOf(b)
  BY <1>3, <1>4
<1>8. ASSUME NEW x \in BOOLEAN, Rings(b)' = x
      PROVE  AbstractBell' = [AbstractBell EXCEPT ![b] = x]
  BY <1>3, <1>4, <1>8
<1> USE DEF CallbacksTyped
<1>9. ASSUME NEW n \in Names, Fire(b, n) PROVE Book!Ring(b) \/ Unturned
  <2>1. bpc[b] = "idle" /\ bpc'[b] = "get" /\ bname'[b] = n /\ ~Rings(b)
    BY <1>1, <1>9 DEF Fire, Rings
  <2>2. JobOf(b) = None /\ JobOf(b)' = None
    BY <2>1 DEF JobOf
  <2>3. CASE Trim(n) # Watched
    <3>1. Rings(b)' = Rings(b)
      BY <2>1, <2>3 DEF Rings
    <3> QED
      BY <1>2, <1>5, <1>6, <2>2, <3>1
  <2>4. CASE Trim(n) = Watched
    <3>1. n = Watched
      BY <1>9, <2>4 DEF Fire, Racing, Plain
    <3>2. PICK e \in cron : e.name = Watched
      BY <1>9, <3>1 DEF Fire, Triggers
    <3>3. AbstractAlarms # {}
      BY <1>1, <3>2 DEF AbstractAlarms, Entry
    <3>4. Rings(b)' = TRUE
      BY <2>1, <2>4 DEF Rings
    <3>5. ~AbstractBell[b] /\ AbstractBell' = [AbstractBell EXCEPT ![b] = TRUE]
      BY <1>4, <1>8, <2>1, <3>4
    <3>6. up \in {"up", "draining"}
      BY <1>9 DEF Fire
    <3> QED
      BY <1>2, <1>6, <2>2, <3>3, <3>5, <3>6 DEF Book!Ring
  <2> QED
    BY <2>3, <2>4
\* A callback about another schedule does not show.
<1>10. ASSUME CallbackGoesOn(b), ~Rings(b) PROVE Unturned
  <2>1. ~Rings(b)'
    BY <1>1, <1>10
    DEF CallbackGoesOn, Reload, EnqueueJob, SaveLastRun, Rings
  <2>2. JobOf(b) = None /\ JobOf(b)' = None
    BY <1>10, <2>1 DEF JobOf
  <2>3. AbstractBell' = AbstractBell /\ AbstractJob' = AbstractJob
    <3>1. Rings(b)' = Rings(b)
      BY <1>10, <2>1 DEF Rings
    <3> QED
      BY <1>5, <1>6, <2>2, <3>1
  <2> QED
    BY <1>2, <2>3
\* A callback that ends.
<1>11. ASSUME Rings(b), BEnd(b),
              \/ AbstractJob[b] # None \/ "write" \in Faults
              \/ ~Book!Wanted
       PROVE  Book!Fall(b)
  <2>1. bpc'[b] = "idle"
    BY <1>1, <1>11
  <2>2. Rings(b)' = FALSE /\ JobOf(b)' = None
    BY <2>1 DEF Rings, JobOf
  <2>3. AbstractBell[b] /\ AbstractBell' = [AbstractBell EXCEPT ![b] = FALSE]
    BY <1>4, <1>8, <1>11, <2>2
  <2> QED
    BY <1>2, <1>7, <1>11, <2>2, <2>3 DEF Book!Fall
<1>12. ASSUME Rings(b)
       PROVE  /\ bname[b] = Watched /\ Trim(bname[b]) = Watched
              /\ Exists(Watched) /\ file[Watched].enabled
              /\ bpc[b] \in {"enqueue", "save"} => bval[b] = file[Watched]
  BY <1>1, <1>12 DEF Rings, CallbackAt
<1>13. ASSUME Reload(b), Rings(b) PROVE Unturned
  <2>1. bpc[b] = "get" /\ bpc'[b] = "enqueue" /\ bname'[b] = bname[b]
    BY <1>1, <1>12, <1>13 DEF Reload
  <2>2. Rings(b)' = Rings(b) /\ JobOf(b) = None /\ JobOf(b)' = None
    BY <2>1 DEF Rings, JobOf
  <2> QED
    BY <1>2, <1>5, <1>6, <2>2
<1>14. ASSUME EnqueueJob(b), Rings(b) PROVE Book!CreateJob(b) \/ Book!Fall(b)
  <2>1. /\ bpc[b] = "enqueue" /\ bval[b] = file[Watched] /\ JobOf(b) = None
        /\ file[Watched] # None /\ file[Watched].enabled
    BY <1>12, <1>14 DEF EnqueueJob, Exists, JobOf
  <2>2. Book!Wanted <=> Trim(bval[b].flow) \in flows
    BY <2>1 DEF Book!Wanted
  <2>3. CASE Trim(bval[b].flow) \in flows /\ bpc' = [bpc EXCEPT ![b] = "save"]
             /\ UNCHANGED <<bname, bval>>
    <3>1. bpc'[b] = "save" /\ bname'[b] = bname[b] /\ bval'[b] = bval[b]
      BY <1>1, <2>3
    <3>2. Rings(b)' = Rings(b) /\ JobOf(b)' = file[Watched].flow
      BY <1>12, <1>14, <2>1, <3>1 DEF Rings, JobOf
    <3>3. AbstractBell[b] /\ AbstractBell' = AbstractBell
      BY <1>4, <1>5, <1>14, <3>2
    <3> QED
      BY <1>2, <1>7, <2>1, <2>2, <2>3, <3>2, <3>3 DEF Book!CreateJob
  <2>4. CASE (Trim(bval[b].flow) \notin flows \/ "write" \in Faults) /\ BEnd(b)
    BY <1>11, <1>14, <2>1, <2>2, <2>4
  <2> QED
    BY <1>14, <2>3, <2>4 DEF EnqueueJob
<1>15. ASSUME SaveLastRun(b), Rings(b) PROVE Book!Fall(b)
  <2>1. bpc[b] = "save" /\ BEnd(b) /\ bval[b] \in Schedule
    BY <1>1, <1>15 DEF SaveLastRun
  <2>2. AbstractJob[b] # None
    BY <1>7, <1>15, <2>1, NoneAssumption DEF JobOf, Schedule
  <2> QED
    BY <1>11, <1>15, <2>1, <2>2
<1> QED
  BY <1>9, <1>10, <1>13, <1>14, <1>15 DEF CallbackGoesOn

\* Flows and ends of the daemon show as they are, whatever has happened before.
LEMMA DaemonSeen ==
  ASSUME TypeOK, AtRest, DaemonStep \/ FlowStep
  PROVE  \/ Book!ChangeFlows \/ Book!Stop \/ Book!StopCron \/ Book!Exit
         \/ Book!Crash \/ Book!Start
<1> USE DEF Book!DaemonOnly
<1>1. /\ hpc \in [Handlers -> HandlerPc] /\ CallbacksTyped
      /\ file \in [Names -> Schedule \union {None}] /\ Watched \in Names
  BY WatchedAssumption DEF TypeOK, HandlersTyped
<1>2. UNCHANGED callbackVars => UNCHANGED <<AbstractBell, AbstractJob>>
  BY DEF callbackVars, AbstractBell, AbstractJob, Rings
<1>3. CASE FlowStep
  <2>1. PICK f \in Flows : AddFlow(f) \/ DeleteFlow(f)
    BY <1>3 DEF FlowStep
  <2>2. /\ up = "up" /\ UNCHANGED <<file, cron, handlerVars, callbackVars, up>>
        /\ flows' = flows \union {Trim(f)} \/ flows' = flows \ {Trim(f)}
    BY <2>1 DEF AddFlow, DeleteFlow, FlowsOnly, daemonVars
  <2> QED
    BY <1>2, <2>2, TrimsFlow, RequestsUnseen
    DEF Book!ChangeFlows, Book!BookKept, Book!CallerOnly
<1>4. CASE Stop
  BY <1>2, <1>4, RequestsUnseen DEF Stop, Book!Stop
<1>5. CASE StopCron
  <2>1. \A h \in Handlers : AbstractStage[h] = "idle"
    BY <1>5 DEF StopCron, AbstractStage, Concerns
  <2> QED
    BY <1>2, <1>5, <2>1, RequestsUnseen DEF StopCron, Book!StopCron
\* Without a daemon there is no trigger and nobody to wait for one.
<1>6. ASSUME cron' = {}, \A h \in Handlers : hpc'[h] = "idle"
      PROVE  AbstractAlarms' = {}
  BY <1>6 DEF AbstractAlarms, Awaits
<1>7. ASSUME UNCHANGED handlerVars PROVE UNCHANGED <<AbstractStage, AbstractAsked>>
  BY <1>7 DEF handlerVars, requestVars, AbstractStage, AbstractAsked, RequestOf, Concerns
<1>8. CASE Exit
  <2>1. /\ UNCHANGED <<handlerVars, callbackVars, file, flows>>
        /\ up = "stopping" /\ up' = "down" /\ cron' = {}
        /\ \A b \in Callbacks : bpc[b] = "idle"
    BY <1>8 DEF Exit, LoseEntries
  <2>2. \A h \in Handlers : hpc'[h] = "idle"
    BY <2>1 DEF AtRest, handlerVars
  <2>3. \A b \in Callbacks : ~AbstractBell[b]
    BY <2>1 DEF AbstractBell, Rings
  <2> QED
    BY <1>2, <1>6, <1>7, <2>1, <2>2, <2>3 DEF Book!Exit
<1>9. CASE Crash
  <2>1. /\ \A h \in Handlers : hpc'[h] = "idle"
        /\ \A b \in Callbacks : bpc'[b] = "idle"
        /\ up # "down" /\ up' = "down" /\ cron' = {} /\ UNCHANGED <<file, flows>>
    BY <1>9 DEF Crash, LoseEntries
  <2>2. /\ AbstractStage' = [h \in Handlers |-> "idle"]
        /\ AbstractAsked' = [h \in Handlers |-> None]
    BY <2>1 DEF AbstractStage, AbstractAsked, RequestOf, Concerns
  <2>3. \A b \in Callbacks : Rings(b)' = FALSE
    BY <2>1 DEF Rings
  <2>4. /\ AbstractBell' = [b \in Callbacks |-> FALSE]
        /\ AbstractJob' = [b \in Callbacks |-> None]
    BY <2>3 DEF AbstractBell, AbstractJob
  <2> QED
    BY <1>6, <2>1, <2>2, <2>4 DEF Book!Crash
<1>10. CASE Start
  <2>1. PICK i \in EntryIds :
          cron' = {[name |-> n, id |-> i, spec |-> file[n].spec] :
                     n \in {m \in Names : Exists(m) /\ file[m].enabled}}
    BY <1>10 DEF Start
  <2>2. up = "down" /\ up' = "up" /\ UNCHANGED <<file, flows, handlerVars, callbackVars>>
    BY <1>10 DEF Start
  <2>3. \A h \in Handlers : ~Waiting(h)'
    BY <2>2 DEF AtRest, handlerVars, Waiting
  <2>4. AbstractAlarms' = Book!AlarmsOf(file[Watched])
    <3>1. CASE Exists(Watched) /\ file[Watched].enabled
      <4> DEFINE e == [name |-> Watched, id |-> i, spec |-> file[Watched].spec]
      <4>1. e \in cron' /\ e.name = Watched
        BY <1>1, <2>1, <3>1
      <4>2. \A d \in cron' : d.name = Watched => d = e
        BY <2>1
      <4>3. Triggers(Watched)' = {e}
        BY <4>1, <4>2 DEF Triggers
      <4>4. file[Watched].spec \in Specs
        BY <1>1, <3>1 DEF Exists, Schedule
      <4>5. AbstractAlarms' = {file[Watched].spec}
        BY <2>3, <4>3, <4>4, AlarmsMapped
      <4> QED
        BY <3>1, <4>5 DEF Book!AlarmsOf, Exists
    <3>2. CASE ~(Exists(Watched) /\ file[Watched].enabled)
      <4>1. Triggers(Watched)' = {}
        BY <2>1, <3>2 DEF Triggers
      <4>2. AbstractAlarms' = {}
        BY <2>3, <4>1, AlarmsNoneNext
      <4> QED
        BY <3>2, <4>2 DEF Book!AlarmsOf, Exists
    <3> QED
      BY <3>1, <3>2
  <2> QED
    BY <1>2, <1>7, <2>2, <2>4 DEF Book!Start
<1> QED
  BY <1>3, <1>4, <1>5, <1>8, <1>9, <1>10 DEF DaemonStep

-----------------------------------------------------------------------------
(* The theorem *)

\* A step of a request, while the schedule stays orderly.
LEMMA HandlerMaps ==
  ASSUME TypeOK, AtRest, Renaming, InOrder(Watched), InOrder(Watched)',
         NEW h \in Handlers, HandlerStep(h)
  PROVE  Book!CallerStep(h) \/ Unturned
<1>1. CASE HandlerGoesOn(h)
  <2>1. hpc[h] # "idle" /\ up # "down" /\ Watched \in Names /\ Plain(Watched)
    BY <1>1, Going, HandlerAtRest, WatchedAssumption
  <2>2. CASE hop[h] = "rename"
    BY <1>1, <2>2, RenameMapped
  <2>3. CASE hop[h] # "rename" /\ Concerns(h, Watched)
    <3>1. Operating(h)
      BY <1>1, <2>1, <2>3 DEF Operating, On, InOrder, ApartAt
    <3>2. hpc[h] \notin {"checkrename", "writeflow", "removeflow", "list", "rewrite"}
      BY <3>1, OperationFacts, CallsMade DEF Replies
    <3> QED
      BY <1>1, <3>1, <3>2, LookMapped, ChangeMapped
      DEF HandlerGoesOn, CheckRename, WriteFlow, RemoveFlow, ListSchedules,
          RewriteSchedule, RewriteDone
  <2>4. CASE ~Concerns(h, Watched)
    BY <1>1, <2>1, <2>4, ElsewhereKept, ElsewhereUnturned
  <2> QED
    BY <2>2, <2>3, <2>4
<1> QED
  BY <1>1, NewRequestMapped DEF HandlerStep

LEMMA StepMaps ==
  ASSUME IInv, TypeOK', InOrder(Watched)', [Next]_vars, Watched \notin raced'
  PROVE  Book!Next \/ Unturned
<1>1. TypeOK /\ AtRest /\ Renaming
  BY DEF IInv
<1>2. CASE DaemonStep \/ FlowStep
  BY <1>1, <1>2, DaemonSeen DEF Book!Next
<1>3. CASE UNCHANGED vars
  <2>1. UNCHANGED <<AbstractBell, AbstractJob>>
    BY <1>3 DEF vars, callbackVars, AbstractBell, AbstractJob, Rings
  <2> QED
    BY <1>3, <2>1, RequestsUnseen DEF vars, daemonVars, Unturned, Book!vars
<1>4. ASSUME ~Start PROVE InOrder(Watched)
  <2>1. Watched \in Orderly
    BY <1>4, RacedGrows, WatchedAssumption DEF Orderly
  <2> QED
    BY <2>1 DEF IInv
<1>5. ASSUME ~Start, NEW h \in Handlers, HandlerStep(h) PROVE Book!Next \/ Unturned
  BY <1>1, <1>4, <1>5, HandlerMaps DEF Book!Next
<1>6. ASSUME ~Start, NEW b \in Callbacks,
             CallbackGoesOn(b) \/ \E n \in Names : Fire(b, n)
      PROVE  Book!Next \/ Unturned
  BY <1>1, <1>4, <1>6, CallbackSeen DEF Book!Next
<1> QED
  BY <1>2, <1>3, <1>5, <1>6, Steps DEF DaemonStep

LEMMA InitMaps == Init => Book!Init
<1> SUFFICES ASSUME Init PROVE Book!Init
  OBVIOUS
<1>1. file[Watched] = None /\ flows = {} /\ up = "up"
  BY WatchedAssumption DEF Init
<1>2. AbstractAlarms = {}
  BY DEF Init, AbstractAlarms, Awaits
<1>3. /\ AbstractAsked = [h \in Handlers |-> None]
      /\ AbstractStage = [h \in Handlers |-> "idle"]
  BY DEF Init, AbstractAsked, AbstractStage, RequestOf, Concerns
<1>4. \A b \in Callbacks : Rings(b) = FALSE
  BY DEF Init, Rings
<1>5. /\ AbstractBell = [b \in Callbacks |-> FALSE]
      /\ AbstractJob = [b \in Callbacks |-> None]
  BY <1>4 DEF AbstractBell, AbstractJob
<1> QED
  BY <1>1, <1>2, <1>3, <1>5 DEF Book!Init

\* The scheduler keeps the page of each schedule in the book, as long as the schedule
\* is orderly and again from the next start on: a request takes effect at one moment
\* between its being asked and its answer, or not at all and is answered so; an alarm
\* is missing only if a request has taken it away; jobs are made of what the page
\* says; a callback that writes its schedule back, a stop, a crash, a restart and what
\* is done to other schedules change nothing in it.
THEOREM SchedulesImplementBook == Spec => ImplementsBook
<1>1. IInv /\ IInv' /\ [Next]_vars => [(Watched \in raced') \/ Book!Next]_(Book!vars)
  <2> SUFFICES ASSUME IInv, IInv', [Next]_vars, Watched \notin raced'
               PROVE  Book!Next \/ Unturned
    BY DEF Unturned
  <2>1. TypeOK' /\ InOrder(Watched)'
    BY WatchedAssumption DEF IInv, Orderly
  <2> QED
    BY <2>1, StepMaps
<1> QED
  BY <1>1, InitMaps, Invariance, PTL DEF Spec, ImplementsBook
=============================================================================
