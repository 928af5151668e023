-------------------------- MODULE SchedulesProofs ---------------------------
(***************************************************************************)
(* Theorems about Schedules for every number of schedules, flows, requests *)
(* and cron callbacks.                                                     *)
(*                                                                         *)
(* Typing comes first, then the parts of IInv that hold whatever happens,  *)
(* then InOrder(n) for one schedule n that is orderly before and after a   *)
(* step: either the step is about n, and nothing else is under way on it,  *)
(* or it leaves alone what InOrder(n) speaks of.                           *)
(***************************************************************************)
EXTENDS SchedulesInv, TLAPS

-----------------------------------------------------------------------------
(* Typing *)

\* What the two changes to a schedule change.
LEMMA FlippedFields ==
  ASSUME NEW s \in Schedule
  PROVE  /\ Flipped(s) \in Schedule
         /\ Flipped(s).enabled = ~s.enabled
         /\ Flipped(s).spec = s.spec /\ Flipped(s).flow = s.flow
BY DEF Flipped, Schedule

LEMMA MovedFields ==
  ASSUME NEW s \in Schedule, NEW f \in Flows
  PROVE  /\ Moved(s, f) \in Schedule /\ Moved(s, f).flow = f
         /\ Moved(s, f).spec = s.spec /\ Moved(s, f).enabled = s.enabled
BY DEF Moved, Schedule

\* Blanks are only ever taken off.
LEMMA Trims ==
  ASSUME NEW n \in Names
  PROVE  Trim(n) \in Names /\ Trim(Trim(n)) = Trim(n)
BY TrimAssumption DEF Plain

LEMMA TrimsFlow ==
  ASSUME NEW f \in Flows
  PROVE  Trim(f) \in Flows
BY TrimAssumption

\* The name that an operation saves its schedule by.
LEMMA SavedNames ==
  ASSUME NEW h \in Handlers, hname[h] \in Names
  PROVE  Saved(h) \in Names /\ Saved(h) \in {hname[h], Trim(hname[h])}
BY Trims DEF Saved

\* A handler between two requests, in terms of the calls its operation makes.
LEMMA CallsMade ==
  /\ DOMAIN Calls = {"create", "update", "delete", "enable", "disable"}
  /\ Calls["create"]  = {"checkflow", "stat", "save", "addfunc", "map"}
  /\ Calls["update"]  = {"checkflow", "get", "unmap", "save", "addfunc", "map"}
  /\ Calls["delete"]  = {"unmap", "remove"}
  /\ Calls["enable"]  = {"get", "save", "addfunc", "map"}
  /\ Calls["disable"] = {"get", "unmap", "save"}
BY DEF Calls

LEMMA FirstCalls ==
  ASSUME NEW op \in Ops \ {"rename"}
  PROVE  /\ op \in DOMAIN Calls /\ FirstCall[op] \in Calls[op]
         /\ FirstCall[op] \notin {"save", "addfunc", "map"}
         /\ op \in {"enable", "disable"} => FirstCall[op] = "get"
BY OptionsAssumption, CallsMade DEF FirstCall

\* A step of a request keeps the types.
LEMMA HandlerTyping ==
  ASSUME TypeOK, NEW h \in Handlers, HandlerStep(h)
  PROVE  TypeOK'
<1> DEFINE Places == /\ file \in [Names -> Schedule \union {None}]
                     /\ flows \subseteq Flows /\ cron \subseteq Entry
                     /\ entries \in [Names -> EntryIds \union {0}]
                     /\ damaged \subseteq Names /\ raced \subseteq Names
           Goal == Places' /\ HandlersTyped' /\ HandlersReady'
<1>1. UNCHANGED <<callbackVars, daemonVars>>
  BY DEF HandlerOnly, HandlerStep, HandlerGoesOn, Request, RequestRename, CheckFlow,
         StatSchedule, GetSchedule, RemoveEntry, SaveSchedule, AddFunc,
         MapEntry, DeleteSchedule, CheckRename, WriteFlow, RemoveFlow,
         ListSchedules, RewriteSchedule, RewriteDone, Reply
<1>2. Places /\ HandlersTyped /\ HandlersReady
  BY DEF TypeOK
<1> USE <1>2, CallsMade
    DEF HandlersTyped, HandlersReady, HGoTo, HandlerPc, Replies,
        requestVars, Changing, HandlerOnly
<1>3. ASSUME NEW op \in Ops, NEW n \in Names, NEW s \in Schedule \union {None},
             Request(h, op, n, s)
      PROVE  Goal
  <2>1. Racing(n, Alone(n)) \subseteq Names
    BY Trims DEF Racing
  <2> QED
    BY <1>3, <2>1, FirstCalls, OptionsAssumption DEF Request
<1>4. ASSUME NEW from \in Flows, NEW to \in Flows, RequestRename(h, from, to)
      PROVE  Goal
  BY <1>4, OptionsAssumption DEF RequestRename
<1>5. ASSUME CheckFlow(h) PROVE Goal
  BY <1>5 DEF CheckFlow
<1>6. ASSUME StatSchedule(h) PROVE Goal
  BY <1>6 DEF StatSchedule
<1>7. ASSUME GetSchedule(h) PROVE Goal
  <2>1. hop[h] \in {"update", "enable", "disable"} /\ Trim(hname[h]) \in Names
    BY <1>7, Trims DEF GetSchedule
  <2>2. AfterGet["update"] = "unmap" /\ AfterGet["enable"] = "save"
        /\ AfterGet["disable"] = "unmap"
    BY DEF AfterGet
  <2>3. ASSUME file[Trim(hname[h])] # None, hop[h] # "update",
               file[Trim(hname[h])].enabled # (hop[h] = "enable")
        PROVE  /\ Flipped(file[Trim(hname[h])]) \in Schedule
               /\ Flipped(file[Trim(hname[h])]).enabled = (hop[h] = "enable")
    <3>1. file[Trim(hname[h])] \in Schedule
      BY <2>1, <2>3
    <3>2. file[Trim(hname[h])].enabled \in BOOLEAN
      BY <3>1 DEF Schedule
    <3> QED
      BY <2>3, <3>1, <3>2, FlippedFields
  <2> QED
    BY <1>7, <2>1, <2>2, <2>3 DEF GetSchedule
<1>8. ASSUME RemoveEntry(h) PROVE Goal
  BY <1>8 DEF RemoveEntry
<1>9. ASSUME SaveSchedule(h) PROVE Goal
  <2>1. /\ hval[h] \in Schedule /\ Saved(h) \in Names
        /\ hop[h] \in {"create", "update", "enable", "disable"}
    BY <1>9, SavedNames DEF SaveSchedule
  <2>2. hop[h] = "disable" => ~hval[h].enabled
    BY <1>9 DEF SaveSchedule
  <2> QED
    BY <1>9, <2>1, <2>2 DEF SaveSchedule
<1>10. ASSUME AddFunc(h) PROVE Goal
  <2>1. hval[h] \in Schedule /\ Saved(h) \in Names
    BY <1>10, SavedNames DEF AddFunc
  <2> QED
    BY <1>10, <2>1 DEF AddFunc, Entry, Schedule
<1>11. ASSUME MapEntry(h) PROVE Goal
  <2>1. Saved(h) \in Names
    BY <1>11, SavedNames DEF MapEntry
  <2> QED
    BY <1>11, <2>1 DEF MapEntry
<1>12. ASSUME DeleteSchedule(h) PROVE Goal
  <2>1. Trim(hname[h]) \in Names
    BY <1>12, Trims DEF DeleteSchedule
  <2> QED
    BY <1>12, <2>1 DEF DeleteSchedule
<1>13. ASSUME CheckRename(h) PROVE Goal
  BY <1>13 DEF CheckRename
<1>14. ASSUME WriteFlow(h) PROVE Goal
  BY <1>14, TrimsFlow DEF WriteFlow
<1>15. ASSUME RemoveFlow(h) PROVE Goal
  BY <1>15 DEF RemoveFlow
<1>16. ASSUME ListSchedules(h) PROVE Goal
  BY <1>16 DEF ListSchedules
<1>17. ASSUME RewriteSchedule(h) PROVE Goal
  <2>1. PICK r \in hlist[h] : RewriteSchedule(h)!2!(r)
    BY <1>17 DEF RewriteSchedule
  <2>2. r.name \in Names /\ r.old \in Schedule /\ hto[h] \in Flows
    BY <1>17 DEF RewriteSchedule
  <2>3. Moved(r.old, hto[h]) \in Schedule
    BY <2>2, MovedFields
  <2> QED
    BY <1>17, <2>1, <2>2, <2>3 DEF RewriteSchedule
<1>18. ASSUME RewriteDone(h) PROVE Goal
  BY <1>18 DEF RewriteDone
<1>19. ASSUME Reply(h) PROVE Goal
  BY <1>19 DEF Reply
<1>20. Goal
  BY <1>3, <1>4, <1>5, <1>6, <1>7, <1>8, <1>9, <1>10, <1>11, <1>12, <1>13,
     <1>14, <1>15, <1>16, <1>17, <1>18, <1>19
  DEF HandlerStep, HandlerGoesOn
<1> QED
  BY <1>1, <1>20
  DEF TypeOK, CallbacksTyped, callbackVars, daemonVars

\* So does a step of a callback ...
LEMMA CallbackTyping ==
  ASSUME TypeOK, NEW b \in Callbacks,
         CallbackGoesOn(b) \/ \E n \in Names : Fire(b, n)
  PROVE  TypeOK'
<1> DEFINE Goal == /\ file' \in [Names -> Schedule \union {None}] /\ CallbacksTyped'
                   /\ damaged' \subseteq Names /\ raced' \subseteq Names
<1>1. CallbackOnly
  BY DEF CallbackGoesOn, Fire, Reload, EnqueueJob, SaveLastRun
<1>2. file \in [Names -> Schedule \union {None}] /\ CallbacksTyped
      /\ damaged \subseteq Names /\ raced \subseteq Names
  BY DEF TypeOK
<1> USE <1>2, NoneAssumption DEF CallbacksTyped, BGoTo, BEnd, Exists, historyVars
<1>3. ASSUME NEW n \in Names, Fire(b, n) PROVE Goal
  <2>1. Racing(n, ~Busy(n)) \subseteq Names
    BY Trims DEF Racing
  <2> QED
    BY <1>3, <2>1 DEF Fire
<1>4. ASSUME Reload(b) PROVE Goal
  <2>1. Trim(bname[b]) \in Names
    BY <1>4, Trims DEF Reload
  <2> QED
    BY <1>4, <2>1 DEF Reload
<1>5. ASSUME EnqueueJob(b) PROVE Goal
  BY <1>5 DEF EnqueueJob
<1>6. ASSUME SaveLastRun(b) PROVE Goal
  <2>1. Trim(bname[b]) \in Names
    BY <1>6, Trims DEF SaveLastRun
  <2> QED
    BY <1>6, <2>1 DEF SaveLastRun
<1>7. Goal
  BY <1>3, <1>4, <1>5, <1>6 DEF CallbackGoesOn
<1> QED
  BY <1>1, <1>7
  DEF CallbackOnly, TypeOK, HandlersTyped, HandlersReady, Changing, handlerVars,
      requestVars, daemonVars

\* ... and of the daemon, or a flow that is added or deleted.
DaemonStep == Stop \/ StopCron \/ Exit \/ Crash \/ Start
FlowStep == \E f \in Flows : AddFlow(f) \/ DeleteFlow(f)

LEMMA DaemonTyping ==
  ASSUME TypeOK, DaemonStep \/ FlowStep
  PROVE  TypeOK'
<1> USE DEF TypeOK, HandlersTyped, HandlersReady, Changing, CallbacksTyped, handlerVars,
            requestVars, callbackVars, daemonVars, historyVars
<1>1. CASE Stop
  BY <1>1, BoundsAssumption DEF Stop
<1>2. CASE StopCron
  BY <1>2 DEF StopCron
<1>3. CASE Exit
  BY <1>3 DEF Exit, LoseEntries
<1>4. CASE Crash
  BY <1>4, BoundsAssumption DEF Crash, LoseEntries, HandlerPc
<1>5. CASE Start
  BY <1>5 DEF Start, Entry, Schedule, Exists
<1>6. CASE FlowStep
  BY <1>6, TrimsFlow DEF FlowStep, AddFlow, DeleteFlow, FlowsOnly
<1> QED
  BY <1>1, <1>2, <1>3, <1>4, <1>5, <1>6 DEF DaemonStep

LEMMA StutterTyping == TypeOK /\ UNCHANGED vars => TypeOK'
BY DEF vars, TypeOK, HandlersTyped, HandlersReady, Changing, CallbacksTyped, handlerVars,
       requestVars, callbackVars, daemonVars, historyVars

LEMMA Steps ==
  Next <=> \/ \E h \in Handlers : HandlerStep(h)
           \/ \E b \in Callbacks : CallbackGoesOn(b) \/ \E n \in Names : Fire(b, n)
           \/ DaemonStep \/ FlowStep
BY DEF Next, DaemonStep, FlowStep

LEMMA InitTyping == Init => TypeOK
BY BoundsAssumption
DEF Init, TypeOK, HandlersTyped, HandlersReady, CallbacksTyped, HandlerPc

\* Type correctness, with what each operation needs at its next call, for
\* every choice of the constants.
THEOREM TypeCorrect == Spec => []TypeOK
<1>1. TypeOK /\ [Next]_vars => TypeOK'
  BY HandlerTyping, CallbackTyping, DaemonTyping, StutterTyping, Steps
<1> QED
  BY <1>1, InitTyping, PTL DEF Spec

-----------------------------------------------------------------------------
(* The map and the cron library                                            *)

\* Requests act on a daemon that is up or draining only.
LEMMA HandlerAtRest ==
  ASSUME TypeOK, AtRest, NEW h \in Handlers, HandlerStep(h)
  PROVE  AtRest' /\ up \in {"up", "draining"} /\ up' = up
<1>1. UNCHANGED <<callbackVars, daemonVars>> /\ (hpc[h] # "idle" \/ up = "up")
  BY DEF HandlerOnly, HandlerStep, HandlerGoesOn, Request, RequestRename, CheckFlow,
         StatSchedule, GetSchedule, RemoveEntry, SaveSchedule, AddFunc,
         MapEntry, DeleteSchedule, CheckRename, WriteFlow, RemoveFlow,
         ListSchedules, RewriteSchedule, RewriteDone, Reply, Replies
<1> QED
  BY <1>1 DEF AtRest, callbackVars, daemonVars, TypeOK

LEMMA CallbackAtRest ==
  ASSUME TypeOK, AtRest, NEW b \in Callbacks,
         CallbackGoesOn(b) \/ \E n \in Names : Fire(b, n)
  PROVE  AtRest' /\ up # "down"
BY DEF AtRest, CallbackGoesOn, Fire, Reload, EnqueueJob, SaveLastRun,
       CallbackOnly, BGoTo, BEnd, handlerVars, daemonVars, requestVars, TypeOK,
       CallbacksTyped

LEMMA DaemonAtRest ==
  ASSUME TypeOK, AtRest, DaemonStep \/ FlowStep
  PROVE  AtRest'
BY DEF AtRest, DaemonStep, FlowStep, Stop, StopCron, Exit, Crash, Start, AddFlow,
       DeleteFlow, FlowsOnly, handlerVars, callbackVars, daemonVars, TypeOK

\* A step that leaves the entries and what is to be mapped alone.
EntriesKept ==
  /\ UNCHANGED <<cron, entries, hid>>
  /\ \A g \in Handlers : hpc'[g] = "map" => hpc[g] = "map" /\ Saved(g)' = Saved(g)

LEMMA MappedKept ==
  ASSUME Mapped, EntriesKept
  PROVE  Mapped'
BY DEF Mapped, LiveEntries, EntriesKept, HasEntry

LEMMA HandlerMapped ==
  ASSUME TypeOK, Mapped, NEW h \in Handlers, HandlerStep(h)
  PROVE  Mapped'
<1> USE DEF HGoTo
<1>1. HandlersTyped /\ HandlersReady /\ cron \subseteq Entry
      /\ entries \in [Names -> EntryIds \union {0}]
  BY DEF TypeOK
<1>2. CASE RemoveEntry(h)
  <2>1. hname[h] \in Names
    BY <1>1, <1>2, CallsMade DEF RemoveEntry, HandlersReady, Replies
  <2>2. \A g \in Handlers : hpc'[g] = "map" => hpc[g] = "map"
    BY <1>1, <1>2 DEF RemoveEntry, HandlersTyped
  <2>3. \A g \in Handlers : hpc[g] = "map" => hid[g] # 0
    BY <1>1, BoundsAssumption DEF HandlersReady, Replies
  <2>4. hid' = hid /\ \A g \in Handlers : Saved(g)' = Saved(g)
    BY <1>2 DEF RemoveEntry, requestVars, Saved
  <2>5. \A n \in Names : \A i :
          /\ i # entries[hname[h]] \/ n # hname[h]
          /\ HasEntry(n, i)
          => HasEntry(n, i)'
    BY <1>2 DEF RemoveEntry, HasEntry
  <2>6. entries' = [entries EXCEPT ![hname[h]] = 0]
    BY <1>2 DEF RemoveEntry
  <2>7. LiveEntries'
    BY <1>1, <2>1, <2>5, <2>6 DEF Mapped, LiveEntries
  <2>8. ASSUME NEW g \in Handlers, hpc'[g] = "map"
        PROVE  /\ HasEntry(Saved(g), hid[g])' /\ (entries[Saved(g)] # hid[g])'
               /\ \A k \in Handlers \ {g} :
                    hpc'[k] = "map" /\ Saved(k)' = Saved(g)' => hid'[k] # hid'[g]
    <3>1. hpc[g] = "map" /\ Saved(g) \in Names
      BY <1>1, <2>2, <2>8, SavedNames DEF HandlersReady, Replies
    <3>2. HasEntry(Saved(g), hid[g]) /\ entries[Saved(g)] # hid[g]
      BY <3>1 DEF Mapped
    <3> QED
      BY <1>1, <2>1, <2>2, <2>3, <2>4, <2>5, <2>6, <3>1, <3>2 DEF Mapped
  <2> QED
    BY <2>7, <2>8 DEF Mapped
<1>3. CASE AddFunc(h)
  <2>1. PICK i \in EntryIds :
          /\ Fresh(Saved(h), i)
          /\ cron' = cron \union
                {[name |-> Saved(h), id |-> i, spec |-> hval[h].spec]}
          /\ hid' = [hid EXCEPT ![h] = i]
    BY <1>3 DEF AddFunc
  <2>2. hpc' = [hpc EXCEPT ![h] = "map"] /\ entries' = entries
        /\ \A g \in Handlers : Saved(g)' = Saved(g)
    BY <1>3 DEF AddFunc, requestVars, Saved
  <2>3. \A n, k : HasEntry(n, k) => HasEntry(n, k)'
    BY <2>1 DEF HasEntry
  <2>4. HasEntry(Saved(h), i)' /\ i # 0 /\ ~HasEntry(Saved(h), i)
    <3> DEFINE e == [name |-> Saved(h), id |-> i, spec |-> hval[h].spec]
    <3>1. e \in cron' /\ e.name = Saved(h) /\ e.id = i
      BY <2>1
    <3>2. HasEntry(Saved(h), i)'
      BY <2>2, <3>1 DEF HasEntry
    <3>3. i # 0
      BY BoundsAssumption
    <3>4. ~HasEntry(Saved(h), i)
      BY <2>1 DEF HasEntry, Fresh, Triggers
    <3> QED
      BY <3>2, <3>3, <3>4
  <2>5. Saved(h) \in Names
    BY <1>1, <1>3, CallsMade, SavedNames DEF AddFunc, HandlersReady, Replies
  <2>6. entries[Saved(h)] # i
    BY <2>4, <2>5 DEF Mapped, LiveEntries
  <2>7. LiveEntries'
    BY <2>2, <2>3 DEF Mapped, LiveEntries
  <2>8. ASSUME NEW g \in Handlers, hpc'[g] = "map"
        PROVE  /\ HasEntry(Saved(g), hid[g])' /\ (entries[Saved(g)] # hid[g])'
               /\ \A k \in Handlers \ {g} :
                    hpc'[k] = "map" /\ Saved(k)' = Saved(g)' => hid'[k] # hid'[g]
    BY <1>1, <2>1, <2>2, <2>3, <2>4, <2>6, <2>8 DEF Mapped, HandlersTyped
  <2> QED
    BY <2>7, <2>8 DEF Mapped
<1>4. CASE MapEntry(h)
  <2>1. hpc[h] = "map" /\ Saved(h) \in Names
    BY <1>1, <1>4, CallsMade, SavedNames DEF MapEntry, HandlersReady, Replies
  <2>2. /\ entries' = [entries EXCEPT ![Saved(h)] = hid[h]]
        /\ hid' = [hid EXCEPT ![h] = 0] /\ hpc' = [hpc EXCEPT ![h] = "ok"]
        /\ cron' = cron /\ \A g \in Handlers : Saved(g)' = Saved(g)
    BY <1>4 DEF MapEntry, requestVars, Saved
  <2>3. HasEntry(Saved(h), hid[h])
        /\ \A n, k : HasEntry(n, k) => HasEntry(n, k)'
    BY <2>1, <2>2 DEF Mapped, HasEntry
  <2>4. LiveEntries'
    BY <1>1, <2>1, <2>2, <2>3 DEF Mapped, LiveEntries
  <2>5. ASSUME NEW g \in Handlers, hpc'[g] = "map"
        PROVE  /\ HasEntry(Saved(g), hid[g])' /\ (entries[Saved(g)] # hid[g])'
               /\ \A k \in Handlers \ {g} :
                    hpc'[k] = "map" /\ Saved(k)' = Saved(g)' => hid'[k] # hid'[g]
    <3>1. hpc[g] = "map" /\ g # h /\ Saved(g) \in Names
      BY <1>1, <2>2, <2>5, SavedNames DEF HandlersTyped, HandlersReady, Replies
    <3> QED
      BY <1>1, <2>1, <2>2, <2>3, <3>1 DEF Mapped, HandlersTyped
  <2> QED
    BY <2>4, <2>5 DEF Mapped
<1>5. CASE ~RemoveEntry(h) /\ ~AddFunc(h) /\ ~MapEntry(h)
  <2> USE <1>1 DEF EntriesKept, HandlersTyped, requestVars, Saved
  <2>1. ASSUME NEW op \in Ops, NEW n \in Names, NEW s \in Schedule \union {None},
               Request(h, op, n, s)
        PROVE  EntriesKept
    BY <2>1, FirstCalls DEF Request
  <2>2. ASSUME GetSchedule(h) PROVE EntriesKept
    <3>1. hop[h] \in {"update", "enable", "disable"}
      BY <2>2, CallsMade DEF GetSchedule, HandlersReady, Replies
    <3>2. AfterGet[hop[h]] # "map"
      BY <3>1 DEF AfterGet
    <3> QED
      BY <2>2, <3>2 DEF GetSchedule
  <2>3. ASSUME \/ CheckFlow(h) \/ StatSchedule(h) \/ SaveSchedule(h)
               \/ DeleteSchedule(h)
        PROVE  EntriesKept
    BY <2>3 DEF CheckFlow, StatSchedule, SaveSchedule, DeleteSchedule
  <2>4. ASSUME \/ CheckRename(h) \/ WriteFlow(h) \/ RemoveFlow(h)
               \/ ListSchedules(h) \/ RewriteSchedule(h) \/ RewriteDone(h)
        PROVE  EntriesKept
    BY <2>4 DEF CheckRename, WriteFlow, RemoveFlow, ListSchedules,
                RewriteSchedule, RewriteDone
  <2>5. ASSUME \/ Reply(h)
               \/ \E from, to \in Flows : RequestRename(h, from, to)
        PROVE  EntriesKept
    BY <2>5 DEF Reply, RequestRename
  <2>6. EntriesKept
    BY <1>5, <2>1, <2>2, <2>3, <2>4, <2>5 DEF HandlerStep, HandlerGoesOn
  <2> QED
    BY <2>6, MappedKept
<1> QED
  BY <1>2, <1>3, <1>4, <1>5

LEMMA CallbackMapped ==
  ASSUME Mapped, NEW b \in Callbacks,
         CallbackGoesOn(b) \/ \E n \in Names : Fire(b, n)
  PROVE  Mapped'
<1>1. EntriesKept
  BY DEF EntriesKept, CallbackGoesOn, Fire, Reload, EnqueueJob, SaveLastRun,
         CallbackOnly, handlerVars, requestVars, Saved
<1> QED
  BY <1>1, MappedKept

LEMMA DaemonMapped ==
  ASSUME TypeOK, AtRest, Mapped, DaemonStep \/ FlowStep
  PROVE  Mapped'
<1>1. CASE Exit \/ Crash
  <2>1. LoseEntries /\ \A h \in Handlers : hpc'[h] # "map"
    BY <1>1 DEF Exit, Crash, AtRest, handlerVars
  <2> QED
    BY <2>1 DEF LoseEntries, Mapped, LiveEntries
<1>2. CASE Start
  <2>1. \A h \in Handlers : hpc'[h] # "map"
    BY <1>2 DEF Start, AtRest, handlerVars
  <2>2. PICK i \in EntryIds :
          /\ cron' = {[name |-> n, id |-> i, spec |-> file[n].spec] :
                        n \in {m \in Names : Exists(m) /\ file[m].enabled}}
          /\ entries' = [n \in Names |->
                           IF Exists(n) /\ file[n].enabled THEN i ELSE 0]
    BY <1>2 DEF Start
  <2>3. ASSUME NEW n \in Names, entries'[n] # 0
        PROVE  HasEntry(n, entries[n])'
    <3> DEFINE e == [name |-> n, id |-> i, spec |-> file[n].spec]
    <3>1. Exists(n) /\ file[n].enabled /\ entries'[n] = i
      BY <2>2, <2>3
    <3>2. e \in cron' /\ e.name = n /\ e.id = i
      BY <2>2, <3>1
    <3> QED
      BY <3>1, <3>2 DEF HasEntry
  <2> QED
    BY <2>1, <2>3 DEF Mapped, LiveEntries
<1>3. CASE Stop \/ StopCron \/ FlowStep
  <2>1. EntriesKept
    BY <1>3 DEF EntriesKept, Stop, StopCron, FlowStep, AddFlow, DeleteFlow,
                FlowsOnly, handlerVars, requestVars, Saved
  <2> QED
    BY <2>1, MappedKept
<1> QED
  BY <1>1, <1>2, <1>3 DEF DaemonStep

LEMMA StutterMapped ==
  ASSUME AtRest, Mapped, UNCHANGED vars
  PROVE  AtRest' /\ Mapped'
<1>1. EntriesKept
  BY DEF EntriesKept, vars, handlerVars, requestVars, Saved
<1> QED
  BY <1>1, MappedKept DEF AtRest, vars, handlerVars, callbackVars, daemonVars

\* The map only points to entries that cron has, whatever overlaps: a schedule
\* that is listed with a next run has one.
THEOREM EntriesAlive == Spec => []LiveEntries
<1> DEFINE I == TypeOK /\ AtRest /\ Mapped
<1>1. Init => I
  BY InitTyping DEF Init, AtRest, Mapped, LiveEntries
<1>2. I /\ [Next]_vars => I'
  BY HandlerTyping, CallbackTyping, DaemonTyping, StutterTyping, Steps,
     HandlerAtRest, CallbackAtRest, DaemonAtRest, HandlerMapped,
     CallbackMapped, DaemonMapped, StutterMapped
<1>3. I => LiveEntries
  BY DEF Mapped
<1> QED
  BY <1>1, <1>2, <1>3, PTL DEF Spec

-----------------------------------------------------------------------------
(* Renames know what they look for                                         *)

LEMMA RenamingHandler ==
  ASSUME TypeOK, Renaming, NEW h \in Handlers, HandlerStep(h)
  PROVE  Renaming'
<1> USE DEF HGoTo, HandlersTyped, requestVars
<1>1. HandlersTyped /\ HandlersReady
  BY DEF TypeOK
<1> DEFINE Kept ==
      \A g \in Handlers : hop'[g] = "rename" =>
        \/ hpc'[g] \notin {"writeflow", "removeflow", "list", "rewrite"}
        \/ /\ hop[g] = "rename" /\ UNCHANGED <<hfrom, hto>>
           /\ hpc[g] \in {"writeflow", "removeflow", "list", "rewrite"}
           /\ hpc'[g] = "rewrite" => hpc[g] = "rewrite" /\ hlist'[g] \subseteq hlist[g]
<1>2. ASSUME Kept PROVE Renaming'
  BY <1>2 DEF Renaming
<1>3. ASSUME NEW op \in Ops, NEW n \in Names, NEW s \in Schedule \union {None},
             Request(h, op, n, s)
      PROVE  Renaming'
  BY <1>1, <1>3, <1>2 DEF Request
<1>4. ASSUME \/ \E from, to \in Flows : RequestRename(h, from, to)
             \/ Reply(h) \/ CheckFlow(h) \/ StatSchedule(h) \/ RemoveEntry(h)
             \/ SaveSchedule(h) \/ AddFunc(h) \/ MapEntry(h) \/ DeleteSchedule(h)
      PROVE  Renaming'
  <2>1. ASSUME \E from, to \in Flows : RequestRename(h, from, to) PROVE Renaming'
    <3>1. PICK from \in Flows, to \in Flows : RequestRename(h, from, to)
      BY <2>1
    <3> QED
      BY <1>1, <3>1 DEF RequestRename, Renaming
  <2>2. ASSUME Reply(h) PROVE Renaming'
    BY <1>1, <2>2 DEF Reply, Renaming
  <2>3. ASSUME \/ CheckFlow(h) \/ StatSchedule(h) \/ RemoveEntry(h)
               \/ SaveSchedule(h) \/ AddFunc(h) \/ MapEntry(h) \/ DeleteSchedule(h)
        PROVE  Kept
    BY <1>1, <2>3 DEF CheckFlow, StatSchedule, RemoveEntry, SaveSchedule, AddFunc,
                      MapEntry, DeleteSchedule
  <2> QED
    BY <1>2, <1>4, <2>1, <2>2, <2>3
<1>5. ASSUME GetSchedule(h) PROVE Renaming'
  <2>1. hop[h] # "rename"
    BY <1>1, <1>5, CallsMade DEF GetSchedule, HandlersReady, Replies
  <2> QED
    BY <1>1, <1>2, <1>5, <2>1 DEF GetSchedule
<1>6. ASSUME CheckRename(h) PROVE Renaming'
  BY <1>1, <1>6 DEF CheckRename, Renaming
<1>7. ASSUME WriteFlow(h) \/ RemoveFlow(h) \/ RewriteDone(h) PROVE Renaming'
  BY <1>1, <1>2, <1>7 DEF WriteFlow, RemoveFlow, RewriteDone
<1>8. ASSUME ListSchedules(h) PROVE Renaming'
  BY <1>1, <1>8 DEF ListSchedules, Renaming
<1>9. ASSUME RewriteSchedule(h) PROVE Renaming'
  BY <1>1, <1>2, <1>9 DEF RewriteSchedule
<1> QED
  BY <1>3, <1>4, <1>5, <1>6, <1>7, <1>8, <1>9 DEF HandlerStep, HandlerGoesOn

LEMMA RenamingStep ==
  ASSUME TypeOK, AtRest, Renaming, [Next]_vars
  PROVE  Renaming'
<1>1. ASSUME UNCHANGED handlerVars PROVE Renaming'
  BY <1>1 DEF handlerVars, requestVars, Renaming
<1>2. ASSUME NEW b \in Callbacks, CallbackGoesOn(b) \/ \E n \in Names : Fire(b, n)
      PROVE  UNCHANGED handlerVars
  BY <1>2 DEF CallbackGoesOn, Fire, Reload, EnqueueJob, SaveLastRun, CallbackOnly
<1>3. ASSUME Stop \/ StopCron \/ Exit \/ Start \/ FlowStep \/ UNCHANGED vars
      PROVE  UNCHANGED handlerVars
  BY <1>3 DEF Stop, StopCron, Exit, Start, FlowStep, AddFlow, DeleteFlow, FlowsOnly,
              vars
<1>4. ASSUME Crash PROVE Renaming'
  BY <1>4 DEF Crash, Renaming
<1> QED
  BY <1>1, <1>2, <1>3, <1>4, RenamingHandler, Steps DEF DaemonStep

-----------------------------------------------------------------------------
(* A step of a request and one schedule                                    *)

OthersKept(h) ==
  \A g \in Handlers \ {h} :
    /\ hpc'[g] = hpc[g] /\ hop'[g] = hop[g] /\ hname'[g] = hname[g]
    /\ hval'[g] = hval[g] /\ hid'[g] = hid[g] /\ hlist'[g] = hlist[g]
    /\ hfrom'[g] = hfrom[g] /\ hto'[g] = hto[g]

\* A request changes nothing of another request, and nothing of callbacks.
LEMMA OneRequest ==
  ASSUME TypeOK, NEW h \in Handlers, HandlerStep(h)
  PROVE  OthersKept(h) /\ UNCHANGED <<callbackVars, daemonVars>>
<1> USE DEF TypeOK, HandlersTyped, OthersKept, HGoTo, requestVars, HandlerOnly
<1> DEFINE Goal == OthersKept(h) /\ UNCHANGED <<callbackVars, daemonVars>>
<1>1. ASSUME \/ \E op \in Ops, n \in Names, s \in Schedule \union {None} :
                  Request(h, op, n, s)
             \/ \E from, to \in Flows : RequestRename(h, from, to)
             \/ Reply(h)
      PROVE  Goal
  BY <1>1 DEF Request, RequestRename, Reply
<1>2. ASSUME \/ CheckFlow(h) \/ StatSchedule(h) \/ GetSchedule(h)
             \/ RemoveEntry(h) \/ SaveSchedule(h) \/ DeleteSchedule(h)
      PROVE  Goal
  BY <1>2 DEF CheckFlow, StatSchedule, GetSchedule, RemoveEntry, SaveSchedule,
              DeleteSchedule
<1>3. ASSUME AddFunc(h) \/ MapEntry(h) PROVE Goal
  BY <1>3 DEF AddFunc, MapEntry
<1>4. ASSUME \/ CheckRename(h) \/ WriteFlow(h) \/ RemoveFlow(h)
             \/ ListSchedules(h) \/ RewriteSchedule(h) \/ RewriteDone(h)
      PROVE  Goal
  BY <1>4 DEF CheckRename, WriteFlow, RemoveFlow, ListSchedules, RewriteSchedule,
              RewriteDone
<1> QED
  BY <1>1, <1>2, <1>3, <1>4 DEF HandlerStep, HandlerGoesOn

\* No other request and no callback is about the schedule.
Separate(h, n) ==
  (\A g \in Handlers \ {h} : ~Concerns(g, n)) /\ ~Triggering(n)

\* What request h owes to the schedule: that it is as it should be.
Owed(h, n) ==
  /\ Concerns(h, n) => hop[h] = "rename" \/ hname[h] = n
  /\ On(h, n) => OperationAt(h, n)
  /\ hop[h] = "rename" => RenameAt(h, n)
  /\ ~Working(h, n) => Settled(n)

LEMMA OneAtATime ==
  ASSUME NEW h \in Handlers, NEW n \in Names, Plain(n), Separate(h, n),
         OthersKept(h), UNCHANGED <<callbackVars, daemonVars>>, Owed(h, n)'
  PROVE  InOrder(n)'
<1>1. UNCHANGED <<bpc, bname, bval, up>>
  BY DEF callbackVars, daemonVars
<1>2. \A g \in Handlers \ {h} : ~Concerns(g, n)'
  BY DEF Separate, OthersKept, Concerns
<1>3. \A g \in Handlers : On(g, n)' => Concerns(g, n)'
  BY DEF On, Concerns, Plain
<1>4. \A b \in Callbacks : ~(bpc'[b] # "idle" /\ Trim(bname'[b]) = n)
  BY <1>1 DEF Separate, Triggering
<1>5. ApartAt(n)'
  BY <1>2, <1>4 DEF ApartAt, Triggering, Owed
<1>6. AgreedAt(n)'
  BY DEF AgreedAt, Owed
<1>7. \A g \in Handlers : On(g, n)' => OperationAt(g, n)'
  BY <1>2, <1>3 DEF Owed
<1>8. \A b \in Callbacks : ~(bpc'[b] # "idle" /\ bname'[b] = n)
  BY <1>4 DEF Plain
<1>9. \A g \in Handlers : hop'[g] = "rename" => RenameAt(g, n)'
  <2> SUFFICES ASSUME NEW g \in Handlers \ {h}, hop'[g] = "rename"
               PROVE  RenameAt(g, n)'
    BY DEF Owed
  <2>1. hpc'[g] = "idle"
    BY <1>2 DEF Concerns
  <2> QED
    BY <2>1 DEF RenameAt
<1> QED
  BY <1>5, <1>6, <1>7, <1>8, <1>9 DEF InOrder

\* A step of a request that is not about the schedule leaves it alone.
ScheduleKept(n) ==
  /\ file'[n] = file[n] /\ entries'[n] = entries[n]
  /\ Triggers(n)' = Triggers(n) /\ (n \in damaged' <=> n \in damaged)

LEMMA SettledKept ==
  ASSUME NEW n \in Names, ScheduleKept(n)
  PROVE  Settled(n)' = Settled(n)
BY DEF ScheduleKept, Settled, Exact, Cleared, Exists

LEMMA Elsewhere ==
  ASSUME NEW h \in Handlers, NEW n \in Names, Plain(n), InOrder(n),
         OthersKept(h), UNCHANGED <<callbackVars, daemonVars>>, ScheduleKept(n),
         ~Concerns(h, n), ~Concerns(h, n)'
  PROVE  InOrder(n)'
<1>1. UNCHANGED <<bpc, bname, bval, up>>
  BY DEF callbackVars, daemonVars
<1>2. \A g \in Handlers :
        /\ Concerns(g, n)' = Concerns(g, n)
        /\ Concerns(g, n) =>
             /\ hpc'[g] = hpc[g] /\ hop'[g] = hop[g] /\ hname'[g] = hname[g]
             /\ hval'[g] = hval[g] /\ hid'[g] = hid[g] /\ hlist'[g] = hlist[g]
             /\ hfrom'[g] = hfrom[g] /\ hto'[g] = hto[g]
  BY DEF OthersKept, Concerns
<1>3. \A g \in Handlers : On(g, n) => Concerns(g, n)
  BY DEF On, Concerns, Plain
<1>4. \A g \in Handlers : On(g, n)' => Concerns(g, n)'
  BY DEF On, Concerns, Plain
<1>5. \A g \in Handlers : On(g, n)' = On(g, n)
  BY <1>2, <1>3, <1>4 DEF On
<1>6. ApartAt(n)'
  BY <1>1, <1>2 DEF InOrder, ApartAt, Busy, Triggering
<1>7. AgreedAt(n)'
  <2>1. \A g \in Handlers : Working(g, n)' = Working(g, n)
    BY <1>2, <1>3, <1>5 DEF Working
  <2> QED
    BY <1>1, <2>1, SettledKept DEF InOrder, AgreedAt
<1>8. ASSUME NEW g \in Handlers, On(g, n)' PROVE OperationAt(g, n)'
  <2>1. OperationAt(g, n) /\ hname[g] = n
    BY <1>5, <1>8 DEF InOrder, On
  <2> QED
    BY <2>1, <1>2, <1>3, <1>5, <1>8
    DEF OperationAt, HalfwayOf, InformedOf, Accomplished, Cleared, Exists, ScheduleKept
<1>9. \A b \in Callbacks : bpc'[b] # "idle" /\ bname'[b] = n => CallbackAt(b, n)'
  BY <1>1 DEF InOrder, CallbackAt, Exists, ScheduleKept
<1>10. ASSUME NEW g \in Handlers, hop'[g] = "rename" PROVE RenameAt(g, n)'
  <2>1. CASE Concerns(g, n)
    <3>1. RenameAt(g, n)
      BY <1>2, <1>10, <2>1 DEF InOrder
    <3> QED
      BY <1>2, <2>1, <3>1 DEF RenameAt, Exists, ScheduleKept
  <2>2. CASE ~Concerns(g, n)
    <3>1. hpc'[g] = "idle"
      BY <1>2, <1>10, <2>2 DEF Concerns
    <3> QED
      BY <3>1 DEF RenameAt
  <2> QED
    BY <2>1, <2>2
<1> QED
  BY <1>6, <1>7, <1>8, <1>9, <1>10 DEF InOrder

\* A request that is about another schedule saves, adds, removes and deletes under
\* names of that schedule only.
LEMMA ElsewhereKept ==
  ASSUME TypeOK, NEW n \in Names, Plain(n),
         NEW h \in Handlers, HandlerGoesOn(h), ~Concerns(h, n)
  PROVE  ScheduleKept(n) /\ ~Concerns(h, n)' /\ UNCHANGED flows
<1>1. HandlersTyped /\ HandlersReady /\ file \in [Names -> Schedule \union {None}]
      /\ entries \in [Names -> EntryIds \union {0}]
  BY DEF TypeOK
<1>2. hpc[h] # "idle"
  BY DEF HandlerGoesOn, CheckFlow, StatSchedule, GetSchedule, RemoveEntry,
         SaveSchedule, AddFunc, MapEntry, DeleteSchedule, CheckRename,
         WriteFlow, RemoveFlow, ListSchedules, RewriteSchedule, RewriteDone,
         Reply, Replies
<1>3. /\ hop[h] # "rename" /\ hname[h] \in Names /\ hop[h] \in DOMAIN Calls
      /\ hpc[h] \in Calls[hop[h]] \union Replies
      /\ Trim(hname[h]) # n /\ hname[h] # n
  BY <1>1, <1>2 DEF Concerns, HandlersReady, Plain
<1>4. Saved(h) # n /\ Saved(h) \in Names
  BY <1>3, SavedNames
<1>5. ~(CheckRename(h) \/ WriteFlow(h) \/ RemoveFlow(h) \/ ListSchedules(h)
        \/ RewriteSchedule(h) \/ RewriteDone(h))
  BY <1>3, CallsMade DEF CheckRename, WriteFlow, RemoveFlow, ListSchedules,
                         RewriteSchedule, RewriteDone, Replies
<1> USE DEF requestVars, HGoTo, HandlersTyped
<1>6. ScheduleKept(n) /\ ~Concerns(h, n)'
  <2>1. ASSUME \/ CheckFlow(h) \/ StatSchedule(h) \/ GetSchedule(h)
        PROVE  ScheduleKept(n) /\ ~Concerns(h, n)'
    BY <1>3, <2>1 DEF CheckFlow, StatSchedule, GetSchedule, ScheduleKept, Triggers,
                      Concerns
  <2>2. ASSUME RemoveEntry(h) PROVE ScheduleKept(n) /\ ~Concerns(h, n)'
    <3>1. Triggers(n)' = Triggers(n)
      BY <1>3, <2>2 DEF RemoveEntry, Triggers
    <3> QED
      BY <1>1, <1>3, <2>2, <3>1 DEF RemoveEntry, ScheduleKept, Concerns
  <2>3. ASSUME SaveSchedule(h) PROVE ScheduleKept(n) /\ ~Concerns(h, n)'
    BY <1>1, <1>3, <1>4, <2>3 DEF SaveSchedule, ScheduleKept, Triggers, Concerns
  <2>4. ASSUME AddFunc(h) PROVE ScheduleKept(n) /\ ~Concerns(h, n)'
    <3>1. PICK i \in EntryIds :
            cron' = cron \union {[name |-> Saved(h), id |-> i, spec |-> hval[h].spec]}
      BY <2>4 DEF AddFunc
    <3>2. Triggers(n)' = Triggers(n)
      BY <1>4, <3>1 DEF Triggers
    <3> QED
      BY <1>3, <2>4, <3>2 DEF AddFunc, ScheduleKept, Concerns
  <2>5. ASSUME MapEntry(h) PROVE ScheduleKept(n) /\ ~Concerns(h, n)'
    BY <1>1, <1>3, <1>4, <2>5 DEF MapEntry, ScheduleKept, Triggers, Concerns
  <2>6. ASSUME DeleteSchedule(h) PROVE ScheduleKept(n) /\ ~Concerns(h, n)'
    BY <1>1, <1>3, Trims, <2>6 DEF DeleteSchedule, ScheduleKept, Triggers, Concerns
  <2>7. ASSUME Reply(h) PROVE ScheduleKept(n) /\ ~Concerns(h, n)'
    BY <1>1, <2>7 DEF Reply, ScheduleKept, Triggers, Concerns
  <2> QED
    BY <1>5, <2>1, <2>2, <2>3, <2>4, <2>5, <2>6, <2>7 DEF HandlerGoesOn
<1> QED
  BY <1>5, <1>6 DEF HandlerGoesOn, CheckFlow, StatSchedule, GetSchedule, RemoveEntry,
                    SaveSchedule, AddFunc, MapEntry, DeleteSchedule, Reply

LEMMA ElsewhereStep ==
  ASSUME TypeOK, NEW n \in Names, Plain(n), InOrder(n),
         NEW h \in Handlers, HandlerGoesOn(h), ~Concerns(h, n)
  PROVE  InOrder(n)'
<1>1. OthersKept(h) /\ UNCHANGED <<callbackVars, daemonVars>>
  BY OneRequest DEF HandlerStep
<1> QED
  BY <1>1, ElsewhereKept, Elsewhere

LEMMA SettledCases ==
  ASSUME NEW n \in Names, Settled(n)
  PROVE  /\ ~(Exists(n) /\ file[n].enabled) => Cleared(n)
         /\ Cleared(n) \/ Triggers(n) = {[name |-> n, id |-> entries[n],
                                         spec |-> file[n].spec]}
BY DEF Settled, Exact, Cleared

\* A request that is not a rename and under way is separate, and the schedule
\* is settled but while the request works on it.
LEMMA UnderWay ==
  ASSUME TypeOK, up # "down", NEW n \in Names, Plain(n), InOrder(n),
         NEW h \in Handlers, On(h, n)
  PROVE  /\ Separate(h, n) /\ OperationAt(h, n)
         /\ hop[h] \in DOMAIN Calls /\ hpc[h] \in Calls[hop[h]] \union Replies
         /\ ~Working(h, n) => Settled(n)
<1>1. hop[h] \in DOMAIN Calls /\ hpc[h] \in Calls[hop[h]] \union Replies
  BY DEF TypeOK, HandlersReady, On
<1>2. \A g \in Handlers : On(g, n) => Concerns(g, n)
  BY DEF On, Concerns, Plain
<1>3. Separate(h, n)
  BY <1>2 DEF Separate, InOrder, ApartAt, Busy
<1>4. \A g \in Handlers \ {h} : ~Working(g, n)
  BY <1>2, <1>3 DEF Separate, Working
<1> QED
  BY <1>1, <1>3, <1>4 DEF InOrder, AgreedAt

LEMMA OperationStep ==
  ASSUME TypeOK, TypeOK', up # "down", NEW n \in Names, Plain(n), InOrder(n),
         NEW h \in Handlers, HandlerGoesOn(h), On(h, n)
  PROVE  InOrder(n)'
<1> DEFINE Goal == Owed(h, n)'
<1>1. /\ Separate(h, n) /\ hpc[h] # "idle" /\ hop[h] # "rename" /\ hname[h] = n
      /\ hop[h] \in DOMAIN Calls /\ hpc[h] \in Calls[hop[h]] \union Replies
      /\ ~Working(h, n) => Settled(n)
      /\ Trim(n) = n /\ Saved(h) = n
  BY UnderWay DEF On, Saved, Plain
<1>2. HalfwayOf(h, n) /\ InformedOf(h, n) /\ (hpc[h] = "ok" => Accomplished(h))
  BY UnderWay DEF OperationAt
<1>3. HandlersTyped /\ HandlersReady /\ HandlersTyped' /\ HandlersReady'
      /\ file \in [Names -> Schedule \union {None}] /\ cron \subseteq Entry
      /\ entries \in [Names -> EntryIds \union {0}] /\ damaged \subseteq Names
  BY DEF TypeOK
<1> USE DEF HGoTo, requestVars
\* What is left to show of an operation that stays on the schedule.
<1>0. ASSUME UNCHANGED requestVars, HalfwayOf(h, n)', InformedOf(h, n)',
             (hpc[h] = "ok" => Accomplished(h))',
             hpc'[h] \in {"save", "addfunc", "map", "remove"} \/ Settled(n)'
      PROVE  Goal
  BY <1>0, <1>1 DEF Owed, OperationAt, Working, On
\* The steps that change nothing but where the request is.
<1>4. ASSUME UNCHANGED <<file, cron, entries, damaged, hid, hlist, requestVars>>,
             NEW pc, hpc' = [hpc EXCEPT ![h] = pc],
             ~Working(h, n), pc \in {"save", "remove"} => Cleared(n),
             pc \notin {"addfunc", "map"},
             pc = "ok" => Accomplished(h)', InformedOf(h, n)'
      PROVE  Goal
  <2>1. hpc'[h] = pc
    BY <1>3, <1>4 DEF HandlersTyped
  <2>2. Settled(n) /\ (Settled(n) => Settled(n)') /\ (Cleared(n) => Cleared(n)')
    BY <1>1, <1>4 DEF Settled, Exact, Cleared, Triggers, Exists
  <2>3. HalfwayOf(h, n)'
    BY <1>4, <2>1, <2>2 DEF HalfwayOf
  <2> QED
    BY <1>0, <1>4, <2>1, <2>2, <2>3
<1>5. ASSUME CheckFlow(h) PROVE Goal
  <2> DEFINE pc == IF hval[h].flow \notin flows THEN "error"
                   ELSE IF hop[h] = "create" THEN "stat" ELSE "get"
  <2>1. ~Working(h, n) /\ hpc' = [hpc EXCEPT ![h] = pc]
    BY <1>5 DEF CheckFlow, Working
  <2>2. InformedOf(h, n)'
    BY <1>3, <1>5 DEF CheckFlow, InformedOf, HandlersTyped
  <2> QED
    BY <1>4, <1>5, <2>1, <2>2 DEF CheckFlow
<1>6. ASSUME StatSchedule(h) PROVE Goal
  <2>1. ~Working(h, n) /\ hop[h] = "create"
    BY <1>1, <1>6, CallsMade DEF StatSchedule, Working, Replies
  <2>2. CASE Exists(n)
    <3>1. hpc' = [hpc EXCEPT ![h] = "error"]
      BY <1>1, <1>6, <2>2 DEF StatSchedule
    <3>2. InformedOf(h, n)'
      BY <1>3, <3>1 DEF InformedOf, HandlersTyped
    <3> QED
      BY <1>4, <1>6, <2>1, <3>1, <3>2 DEF StatSchedule
  <2>3. CASE ~Exists(n)
    <3>1. hpc' = [hpc EXCEPT ![h] = "save"] /\ Cleared(n)
      BY <1>1, <1>6, <2>1, <2>3, SettledCases DEF StatSchedule
    <3>2. InformedOf(h, n)'
      BY <1>3, <1>6, <2>1, <2>3, <3>1 DEF InformedOf, HandlersTyped, StatSchedule, Exists
    <3> QED
      BY <1>4, <1>6, <2>1, <3>1, <3>2 DEF StatSchedule
  <2> QED
    BY <2>2, <2>3
<1>7. ASSUME GetSchedule(h) PROVE Goal
  <2>1. ~Working(h, n) /\ hop[h] \in {"update", "enable", "disable"}
    BY <1>1, <1>7, CallsMade DEF GetSchedule, Working, Replies
  <2>2. AfterGet["update"] = "unmap" /\ AfterGet["enable"] = "save"
        /\ AfterGet["disable"] = "unmap"
    BY DEF AfterGet
  <2>3. /\ UNCHANGED <<file, cron, entries, damaged, hid, hlist, requestVars>>
        /\ hval \in [Handlers -> Schedule \union {None}]
    BY <1>3, <1>7 DEF GetSchedule, HandlersTyped
  <2>4. \/ hpc' = [hpc EXCEPT ![h] = "error"]
        \/ hpc' = [hpc EXCEPT ![h] = "ok"] /\ Accomplished(h) /\ UNCHANGED hval
        \/ /\ hpc' = [hpc EXCEPT ![h] = AfterGet[hop[h]]]
           /\ Exists(n) /\ (hop[h] # "update" => hval'[h] = Flipped(file[n]))
           /\ hop[h] = "enable" => Cleared(n)
    <3>1. CASE file[n] = None
      BY <1>1, <1>7, <3>1 DEF GetSchedule
    <3>2. CASE file[n] # None /\ hop[h] = "update"
      BY <1>1, <1>7, <3>2 DEF GetSchedule, Exists
    <3>3. CASE file[n] # None /\ hop[h] # "update"
               /\ file[n].enabled = (hop[h] = "enable")
      BY <1>1, <1>7, <2>1, <3>3 DEF GetSchedule, Accomplished, Exists
    <3>4. CASE file[n] # None /\ hop[h] # "update"
               /\ file[n].enabled # (hop[h] = "enable")
      <4>1. hpc' = [hpc EXCEPT ![h] = AfterGet[hop[h]]] /\ hval'[h] = Flipped(file[n])
        BY <1>1, <1>7, <2>3, <3>4 DEF GetSchedule
      <4>2. ASSUME hop[h] = "enable" PROVE Cleared(n)
        <5>1. file[n] \in Schedule
          BY <1>3, <3>4
        <5>2. ~file[n].enabled
          BY <3>4, <4>2, <5>1 DEF Schedule
        <5> QED
          BY <1>1, <2>1, <5>2, SettledCases
      <4> QED
        BY <3>4, <4>1, <4>2 DEF Exists
    <3> QED
      BY <3>1, <3>2, <3>3, <3>4
  <2>5. CASE hpc' = [hpc EXCEPT ![h] = "error"]
    <3>1. InformedOf(h, n)'
      BY <1>3, <2>5 DEF InformedOf, HandlersTyped
    <3>2. \A pc : pc = "error" => pc \notin {"save", "remove", "addfunc", "map", "ok"}
      OBVIOUS
    <3> HIDE DEF Goal
    <3> QED
      BY <1>4, <2>1, <2>3, <2>5, <3>1, <3>2
  <2>6. CASE hpc' = [hpc EXCEPT ![h] = "ok"] /\ Accomplished(h) /\ UNCHANGED hval
    <3>1. InformedOf(h, n)' /\ Accomplished(h)'
      BY <1>3, <2>3, <2>6 DEF InformedOf, HandlersTyped, Accomplished, Exists
    <3>2. \A pc : pc = "ok" => pc \notin {"save", "remove", "addfunc", "map"}
      OBVIOUS
    <3> HIDE DEF Goal
    <3> QED
      BY <1>4, <2>1, <2>3, <2>6, <3>1, <3>2
  <2>7. CASE /\ hpc' = [hpc EXCEPT ![h] = AfterGet[hop[h]]]
             /\ Exists(n) /\ (hop[h] # "update" => hval'[h] = Flipped(file[n]))
             /\ hop[h] = "enable" => Cleared(n)
    <3>1. InformedOf(h, n)'
      BY <2>1, <2>3, <2>7 DEF InformedOf, Exists, Flipped
    <3> QED
      BY <1>4, <2>1, <2>2, <2>3, <2>7, <3>1
  <2> QED
    BY <2>4, <2>5, <2>6, <2>7
<1>8. ASSUME RemoveEntry(h) PROVE Goal
  <2>1. /\ cron' = {e \in cron : e.name # n \/ e.id # entries[n]}
        /\ entries' = [entries EXCEPT ![n] = 0]
        /\ UNCHANGED <<file, damaged, hval, hid, hlist, requestVars>>
        /\ hpc'[h] \in {"save", "remove"} /\ hpc[h] = "unmap"
        /\ hop[h] # "create"
    BY <1>1, <1>3, <1>8, CallsMade DEF RemoveEntry, HandlersTyped, Replies
  <2>2. Cleared(n)'
    <3>1. entries'[n] = 0
      BY <1>3, <2>1
    <3>2. \A e \in Triggers(n) : e.id = entries[n]
      BY <1>1, <2>1, SettledCases DEF Working, Cleared
    <3>3. Triggers(n)' = {}
      BY <2>1, <3>2 DEF Triggers
    <3> QED
      BY <3>1, <3>3 DEF Cleared
  <2>3. HalfwayOf(h, n)'
    BY <2>1, <2>2 DEF HalfwayOf
  <2>4. InformedOf(h, n)'
    BY <1>2, <2>1 DEF InformedOf, Exists, Flipped
  <2> QED
    BY <1>0, <2>1, <2>3, <2>4
<1>9. ASSUME SaveSchedule(h) PROVE Goal
  <2>1. Cleared(n) /\ hpc[h] = "save" /\ hval[h] \in Schedule
    BY <1>1, <1>2, <1>3, <1>9, CallsMade
    DEF SaveSchedule, HalfwayOf, HandlersReady, Replies, Changing
  <2>2. Cleared(n)' /\ UNCHANGED <<cron, entries, hval, hid, hlist, requestVars>>
    BY <1>9, <2>1 DEF SaveSchedule, Cleared, Triggers
  <2>3. CASE file' = [file EXCEPT ![n] = hval[h]] /\ hval[h].enabled
             /\ hpc'[h] = "addfunc"
    <3>1. file'[n] = hval[h]
      BY <1>3, <2>3
    <3> QED
      BY <1>0, <2>2, <2>3, <3>1 DEF HalfwayOf, InformedOf
  <2>4. CASE file' = [file EXCEPT ![n] = hval[h]] /\ ~hval[h].enabled
             /\ hpc'[h] = "ok"
    <3>1. file'[n] = hval[h] /\ hval[h] # None
      BY <1>3, <2>1, <2>4, NoneAssumption
    <3>2. Settled(n)'
      BY <2>2, <2>4, <3>1 DEF Settled, Exact, Cleared
    <3>3. Accomplished(h)'
      <4>1. hop[h] # "delete"
        BY <1>1, <2>1, CallsMade DEF Replies
      <4>2. hop[h] # "enable"
        BY <1>1, <1>3, <2>1, <2>4, CallsMade DEF HandlersReady, Changing
      <4> QED
        BY <1>1, <2>2, <2>4, <3>1, <4>1, <4>2, <1>9, <2>1
        DEF Accomplished, Exists, Schedule
    <3> QED
      BY <1>0, <2>2, <2>4, <3>2, <3>3 DEF HalfwayOf, InformedOf
  <2>5. CASE UNCHANGED file /\ damaged' = damaged \union {n} /\ hpc'[h] = "error"
    <3>1. Settled(n)'
      BY <2>2, <2>5 DEF Settled
    <3> QED
      BY <1>0, <2>2, <2>5, <3>1 DEF HalfwayOf, InformedOf
  <2> QED
    BY <1>1, <1>3, <1>9, <2>3, <2>4, <2>5 DEF SaveSchedule, HandlersTyped
<1>10. ASSUME AddFunc(h) PROVE Goal
  <2>1. PICK i \in EntryIds :
          /\ cron' = cron \union {[name |-> n, id |-> i, spec |-> hval[h].spec]}
          /\ hid' = [hid EXCEPT ![h] = i]
    BY <1>1, <1>10 DEF AddFunc
  <2>2. Cleared(n) /\ file[n] = hval[h] /\ hval[h].enabled /\ hpc'[h] = "map"
    BY <1>2, <1>3, <1>10 DEF AddFunc, HalfwayOf, HandlersTyped
  <2>3. UNCHANGED <<file, entries, damaged, hval, hlist, requestVars>> /\ hid'[h] = i
    BY <1>3, <1>10, <2>1 DEF AddFunc, HandlersTyped
  <2>4. Triggers(n)' = {[name |-> n, id |-> i, spec |-> hval[h].spec]}
    BY <2>1, <2>2 DEF Cleared, Triggers
  <2>5. HalfwayOf(h, n)' /\ InformedOf(h, n)'
    BY <2>2, <2>3, <2>4 DEF HalfwayOf, InformedOf, Cleared
  <2> QED
    BY <1>0, <2>2, <2>3, <2>5
<1>11. ASSUME MapEntry(h) PROVE Goal
  <2>1. /\ hpc[h] = "map" /\ file[n] = hval[h] /\ hval[h].enabled
        /\ Triggers(n) = {[name |-> n, id |-> hid[h], spec |-> hval[h].spec]}
    BY <1>2, <1>11 DEF MapEntry, HalfwayOf
  <2>2. hid[h] # 0 /\ hval[h] # None
    BY <1>1, <1>3, <2>1, CallsMade, BoundsAssumption, NoneAssumption
    DEF HandlersReady, Replies, Changing
  <2>3. /\ entries' = [entries EXCEPT ![n] = hid[h]] /\ hpc'[h] = "ok"
        /\ UNCHANGED <<file, cron, damaged, hval, hlist, requestVars>>
    BY <1>1, <1>3, <1>11 DEF MapEntry, HandlersTyped
  <2>4. Settled(n)'
    <3>1. entries'[n] = hid[h] /\ Triggers(n)' = Triggers(n)
      BY <1>3, <2>3 DEF Triggers
    <3> QED
      BY <2>1, <2>2, <2>3, <3>1 DEF Settled, Exact, Exists
  <2>5. Accomplished(h)'
    <3>1. hop[h] \in {"create", "update", "enable"}
      BY <1>1, <2>1, CallsMade DEF Replies
    <3>2. hop[h] = "enable" => hval[h].enabled = TRUE
      BY <1>1, <1>3, <2>1 DEF HandlersReady, Changing
    <3> QED
      BY <1>1, <2>1, <2>2, <2>3, <3>1, <3>2 DEF Accomplished, Exists
  <2> QED
    BY <1>0, <2>3, <2>4, <2>5 DEF HalfwayOf, InformedOf
<1>12. ASSUME DeleteSchedule(h) PROVE Goal
  <2>1. Cleared(n) /\ hpc[h] = "remove" /\ hop[h] = "delete"
    BY <1>1, <1>2, <1>12, CallsMade DEF DeleteSchedule, HalfwayOf, Replies
  <2>2. Cleared(n)' /\ UNCHANGED requestVars
    BY <1>12, <2>1 DEF DeleteSchedule, Cleared, Triggers
  <2>3. CASE file' = [file EXCEPT ![n] = None] /\ hpc'[h] = "ok"
    <3>1. file'[n] = None
      BY <1>3, <2>3
    <3> QED
      BY <1>0, <1>1, <2>1, <2>2, <2>3, <3>1
      DEF HalfwayOf, InformedOf, Accomplished, Settled, Exact, Cleared, Exists
  <2>4. CASE damaged' = damaged \union {n} /\ hpc'[h] = "error"
    BY <1>0, <2>2, <2>4 DEF HalfwayOf, InformedOf, Settled
  <2>5. CASE ~Exists(n) /\ UNCHANGED file /\ hpc'[h] = "error"
    BY <1>0, <2>2, <2>5 DEF HalfwayOf, InformedOf, Settled, Exact, Cleared, Exists
  <2> QED
    BY <1>1, <1>3, <1>12, <2>3, <2>4, <2>5 DEF DeleteSchedule, HandlersTyped
<1>13. ASSUME Reply(h) PROVE Goal
  <2>1. /\ hpc'[h] = "idle" /\ hop'[h] = "none" /\ ~Working(h, n)
        /\ UNCHANGED <<file, cron, entries, damaged>>
    BY <1>3, <1>13 DEF Reply, HandlersTyped, Working, Replies
  <2>2. Settled(n)'
    BY <1>1, <2>1 DEF Settled, Exact, Cleared, Triggers, Exists
  <2> QED
    BY <2>1, <2>2 DEF Owed, On, Concerns
<1>14. hpc[h] \notin {"checkrename", "writeflow", "removeflow", "list", "rewrite"}
  BY <1>1, CallsMade DEF Replies
<1>15. Goal
  BY <1>5, <1>6, <1>7, <1>8, <1>9, <1>10, <1>11, <1>12, <1>13, <1>14
  DEF HandlerGoesOn, CheckRename, WriteFlow, RemoveFlow, ListSchedules,
      RewriteSchedule, RewriteDone
<1>16. OthersKept(h) /\ UNCHANGED <<callbackVars, daemonVars>>
  BY OneRequest DEF HandlerStep
<1> QED
  BY <1>1, <1>15, <1>16, OneAtATime

\* A new request, which has the schedule to itself if it is to stay orderly.
LEMMA RequestStep ==
  ASSUME TypeOK, NEW n \in Names, Plain(n), InOrder(n), n \notin raced',
         NEW h \in Handlers, NEW op \in Ops, NEW m \in Names,
         NEW s \in Schedule \union {None}, Request(h, op, m, s)
  PROVE  InOrder(n)'
<1>1. HandlersTyped /\ hpc[h] = "idle" /\ up = "up"
  BY DEF TypeOK, Request
<1>2. /\ hpc'[h] = FirstCall[op] /\ hname'[h] = m /\ hop'[h] = op
      /\ UNCHANGED <<file, cron, entries, damaged>>
      /\ op \in Ops \ {"rename"}
  BY <1>1 DEF Request, HandlersTyped, HGoTo
<1>3. OthersKept(h) /\ UNCHANGED <<callbackVars, daemonVars>>
  BY OneRequest DEF HandlerStep
<1>4. ScheduleKept(n)
  BY <1>2 DEF ScheduleKept, Triggers
<1>5. CASE Trim(m) # n
  BY <1>1, <1>2, <1>3, <1>4, <1>5, Elsewhere DEF Concerns
<1>6. CASE Trim(m) = n
  <2>1. m = n /\ Alone(n)
    BY <1>6 DEF Request, Racing, Plain
  <2>2. Separate(h, n)
    BY <2>1 DEF Separate, Alone, Busy
  <2>3. hpc'[h] \notin {"save", "addfunc", "map", "remove", "ok"}
        /\ (op \in {"create", "update", "enable", "disable"} => hpc'[h] # "unmap")
    BY <1>2, OptionsAssumption DEF FirstCall
  <2>4. Settled(n)'
    <3>1. \A g \in Handlers : ~Working(g, n)
      BY <2>1 DEF Alone, Busy, Concerns, Working, On, Plain
    <3> QED
      BY <1>1, <1>4, <3>1, SettledKept DEF InOrder, AgreedAt
  <2>5. Owed(h, n)'
    BY <1>2, <2>1, <2>3, <2>4 DEF Owed, OperationAt, HalfwayOf, InformedOf
  <2> QED
    BY <1>3, <2>2, <2>5, OneAtATime
<1> QED
  BY <1>5, <1>6

-----------------------------------------------------------------------------
(* Renames                                                                 *)

LEMMA RenameRequestStep ==
  ASSUME TypeOK, NEW n \in Names, Plain(n), InOrder(n), n \notin raced',
         NEW h \in Handlers, NEW from \in Flows, NEW to \in Flows,
         RequestRename(h, from, to)
  PROVE  InOrder(n)'
<1>1. HandlersTyped /\ hpc[h] = "idle" /\ up = "up" /\ Alone(n)
  BY DEF TypeOK, RequestRename
<1>2. /\ hpc'[h] = "checkrename" /\ hop'[h] = "rename"
      /\ UNCHANGED <<file, cron, entries, damaged>>
  BY <1>1 DEF RequestRename, HandlersTyped, HGoTo
<1>3. OthersKept(h) /\ UNCHANGED <<callbackVars, daemonVars>>
  BY OneRequest DEF HandlerStep
<1>4. Separate(h, n)
  BY <1>1 DEF Separate, Alone, Busy
<1>5. Settled(n)'
  <2>1. \A g \in Handlers : ~Working(g, n)
    BY <1>1 DEF Alone, Busy, Concerns, Working, On, Plain
  <2>2. ScheduleKept(n)
    BY <1>2 DEF ScheduleKept, Triggers
  <2> QED
    BY <1>1, <2>1, <2>2, SettledKept DEF InOrder, AgreedAt
<1>6. Owed(h, n)'
  BY <1>2, <1>5 DEF Owed, On, RenameAt
<1> QED
  BY <1>3, <1>4, <1>6, OneAtATime

\* A schedule that a rename is about is settled throughout, since no trigger changes.
LEMMA RenameStep ==
  ASSUME TypeOK, up # "down", Renaming, NEW n \in Names, Plain(n), InOrder(n),
         NEW h \in Handlers, HandlerGoesOn(h), hpc[h] # "idle", hop[h] = "rename"
  PROVE  InOrder(n)'
<1> DEFINE Goal == RenameAt(h, n)' /\ Settled(n)'
<1>1. HandlersTyped /\ file \in [Names -> Schedule \union {None}]
  BY DEF TypeOK
<1>2. /\ hpc[h] \in {"checkrename", "writeflow", "removeflow", "list", "rewrite"}
                      \union Replies
      /\ hfrom[h] \in Flows /\ hto[h] \in Flows
  BY CallsMade DEF TypeOK, HandlersReady
<1>3. Separate(h, n)
  BY DEF InOrder, ApartAt, Separate, Concerns, Busy
<1>4. RenameAt(h, n) /\ Settled(n)
  <2>1. \A g \in Handlers : ~Working(g, n)
    BY <1>3 DEF Separate, Working, On, Concerns, Plain
  <2> QED
    BY <2>1 DEF InOrder, AgreedAt
<1> USE DEF HGoTo, HandlersTyped, requestVars
<1>5. ASSUME \/ CheckRename(h) \/ WriteFlow(h) \/ RemoveFlow(h) \/ Reply(h)
      PROVE  Goal
  <2>1. ScheduleKept(n)
    BY <1>5 DEF CheckRename, WriteFlow, RemoveFlow, Reply, ScheduleKept, Triggers
  <2>2. hpc'[h] \notin {"rewrite", "ok"}
    BY <1>1, <1>5 DEF CheckRename, WriteFlow, RemoveFlow, Reply
  <2> QED
    BY <1>4, <2>1, <2>2, SettledKept DEF RenameAt
<1>6. ASSUME ListSchedules(h) PROVE Goal
  <2>1. /\ UNCHANGED <<file, cron, entries, damaged, hop, hfrom, hto>>
        /\ hpc'[h] = "rewrite"
        /\ hlist'[h] = {r \in [name: Names, old: Schedule] :
                          r.old = file[r.name] /\ r.old.flow = hfrom[h]}
    BY <1>1, <1>6 DEF ListSchedules
  <2>2. ASSUME file[n] # None, file[n].flow = hfrom[h]
        PROVE  \E r \in hlist'[h] : r.name = n
    <3> DEFINE r == [name |-> n, old |-> file[n]]
    <3>1. file[n] \in Schedule
      BY <1>1, <2>2
    <3>2. r \in hlist'[h] /\ r.name = n
      BY <2>1, <2>2, <3>1
    <3> QED
      BY <3>2
  <2>3. RenameAt(h, n)'
    BY <2>1, <2>2 DEF RenameAt, Exists
  <2>4. ScheduleKept(n)
    BY <2>1 DEF ScheduleKept, Triggers
  <2> QED
    BY <1>4, <2>3, <2>4, SettledKept
<1>7. ASSUME RewriteSchedule(h) PROVE Goal
  <2>1. PICK r \in hlist[h] : RewriteSchedule(h)!2!(r)
    BY <1>7 DEF RewriteSchedule
  <2>2. /\ r.name \in Names /\ r.old \in Schedule /\ r \in [name: Names, old: Schedule]
        /\ hpc[h] = "rewrite" /\ hfrom[h] # hto[h]
        /\ hlist[h] \subseteq [name: Names, old: Schedule]
    BY <1>1, <1>7, <2>1 DEF RewriteSchedule, Renaming
  <2>3. /\ hlist'[h] = hlist[h] \ {r}
        /\ UNCHANGED <<hpc, cron, entries, hop, hfrom, hto>>
    BY <1>1, <1>7, <2>1 DEF RewriteSchedule
  <2>4. CASE r.name # n
    <3>1. file'[n] = file[n] /\ (n \in damaged' <=> n \in damaged)
      BY <1>1, <2>1, <2>2, <2>4
    <3>2. ScheduleKept(n)
      BY <2>3, <3>1 DEF ScheduleKept, Triggers
    <3>3. RenameAt(h, n)'
      BY <1>4, <2>2, <2>3, <2>4, <3>1 DEF RenameAt, Exists
    <3> QED
      BY <1>4, <3>2, <3>3, SettledKept
  <2>5. CASE r.name = n
    <3>1. r.old = file[n] /\ file[n] # None
      BY <1>4, <2>2, <2>5, NoneAssumption DEF RenameAt
    <3>2. \A q \in hlist'[h] : q.name # n
      <4> SUFFICES ASSUME NEW q \in hlist'[h], q.name = n PROVE FALSE
        OBVIOUS
      <4>1. q \in hlist[h] /\ q # r /\ q \in [name: Names, old: Schedule]
        BY <2>2, <2>3
      <4>2. q.old = file[n]
        BY <1>4, <2>2, <4>1 DEF RenameAt
      <4>3. q.old = r.old /\ q.name = r.name
        BY <2>5, <3>1, <4>2
      <4> QED
        BY <2>2, <4>1, <4>3
    <3>3. CASE file' = [file EXCEPT ![n] = Moved(r.old, hto[h])] /\ UNCHANGED damaged
      <4>1. file'[n] = Moved(file[n], hto[h]) /\ file[n] \in Schedule
        BY <1>1, <2>2, <3>1, <3>3
      <4>2. /\ file'[n] # None /\ file'[n].flow = hto[h]
            /\ file'[n].enabled = file[n].enabled
            /\ file'[n].spec = file[n].spec
        BY <1>2, <4>1, MovedFields, NoneAssumption
      <4>3. Settled(n)'
        BY <1>4, <2>3, <3>1, <3>3, <4>2 DEF Settled, Exact, Cleared, Triggers, Exists
      <4>4. RenameAt(h, n)'
        BY <2>2, <2>3, <3>2, <4>2 DEF RenameAt
      <4> QED
        BY <4>3, <4>4
    <3>4. CASE /\ "write" \in Faults /\ damaged' = damaged \union {n}
               /\ UNCHANGED file
      <4>1. Settled(n)'
        BY <1>4, <2>3, <3>4 DEF Settled, Exact, Cleared, Triggers, Exists
      <4>2. RenameAt(h, n)'
        BY <2>2, <2>3, <3>2, <3>4 DEF RenameAt
      <4> QED
        BY <4>1, <4>2
    <3> QED
      BY <2>1, <2>5, <3>3, <3>4
  <2> QED
    BY <2>4, <2>5
<1>8. ASSUME RewriteDone(h) PROVE Goal
  <2>1. /\ UNCHANGED <<file, cron, entries, damaged, hop, hfrom>>
        /\ hpc'[h] = "ok" /\ hpc[h] = "rewrite" /\ hlist[h] = {}
    BY <1>1, <1>8 DEF RewriteDone
  <2>2. RenameAt(h, n)'
    BY <1>4, <2>1 DEF RenameAt, Exists
  <2>3. ScheduleKept(n)
    BY <2>1 DEF ScheduleKept, Triggers
  <2> QED
    BY <1>4, <2>2, <2>3, SettledKept
<1>9. Goal /\ (Concerns(h, n)' => hop'[h] = "rename") /\ ~On(h, n)'
  <2>1. Goal
    BY <1>2, <1>5, <1>6, <1>7, <1>8
    DEF HandlerGoesOn, CheckFlow, StatSchedule, GetSchedule, RemoveEntry,
        SaveSchedule, AddFunc, MapEntry, DeleteSchedule, Replies
  <2>2. hpc'[h] = "idle" \/ hop'[h] = "rename"
    BY <1>1, <1>2
    DEF HandlerGoesOn, CheckFlow, StatSchedule, GetSchedule, RemoveEntry,
        SaveSchedule, AddFunc, MapEntry, DeleteSchedule, Replies, CheckRename,
        WriteFlow, RemoveFlow, ListSchedules, RewriteSchedule, RewriteDone, Reply
  <2> QED
    BY <2>1, <2>2 DEF Concerns, On
<1>10. OthersKept(h) /\ UNCHANGED <<callbackVars, daemonVars>>
  BY OneRequest DEF HandlerStep
<1> QED
  BY <1>3, <1>9, <1>10, OneAtATime DEF Owed

-----------------------------------------------------------------------------
(* Callbacks and the daemon                                                *)

\* A callback writes back what the file says: nothing came in between.
LEMMA NoTrace ==
  ASSUME TypeOK, NEW n \in Names, Plain(n), InOrder(n), NEW b \in Callbacks,
         CallbackGoesOn(b) \/ \E m \in Names : Fire(b, m)
  PROVE  file'[n] = file[n]
<1>1. CASE SaveLastRun(b)
  <2>1. bname[b] \in Names /\ Trim(bname[b]) \in Names
    BY <1>1, Trims DEF SaveLastRun, TypeOK, CallbacksTyped
  <2>2. CASE Trim(bname[b]) # n
    BY <1>1, <2>1, <2>2 DEF SaveLastRun, TypeOK
  <2>3. CASE Trim(bname[b]) = n
    <3>1. bval[b] = file[n]
      BY <1>1, <2>3 DEF SaveLastRun, InOrder, ApartAt, CallbackAt
    <3> QED
      BY <1>1, <2>3, <3>1 DEF SaveLastRun, TypeOK
  <2> QED
    BY <2>2, <2>3
<1>2. CASE ~SaveLastRun(b)
  BY <1>2 DEF CallbackGoesOn, Fire, Reload, EnqueueJob
<1> QED
  BY <1>1, <1>2

LEMMA CallbackStep ==
  ASSUME TypeOK, up # "down", NEW n \in Names, Plain(n), InOrder(n), n \notin raced',
         NEW b \in Callbacks, CallbackGoesOn(b) \/ \E m \in Names : Fire(b, m)
  PROVE  InOrder(n)'
<1>1. CallbackOnly /\ damaged' = damaged
  BY DEF CallbackGoesOn, Fire, Reload, EnqueueJob, SaveLastRun, historyVars
<1>2. file'[n] = file[n]
  BY NoTrace
<1>3. CallbacksTyped /\ ApartAt(n) /\ Exists(n) = Exists(n)'
      /\ \A c \in Callbacks : bpc[c] # "idle" /\ bname[c] = n => CallbackAt(c, n)
  BY <1>2 DEF TypeOK, InOrder, Exists
<1> DEFINE Goal ==
      /\ \A c \in Callbacks : bpc'[c] # "idle" /\ Trim(bname'[c]) = n => bname'[c] = n
      /\ \A c \in Callbacks : bpc'[c] # "idle" /\ bname'[c] = n => CallbackAt(c, n)'
      /\ Triggering(n)' => Triggering(n) \/ ~Busy(n)
<1> USE DEF CallbacksTyped, BGoTo, BEnd
<1>4. ASSUME NEW m \in Names, Fire(b, m) PROVE Goal
  <2>1. /\ bpc' = [bpc EXCEPT ![b] = "get"] /\ bname' = [bname EXCEPT ![b] = m]
        /\ bval' = bval
    BY <1>4 DEF Fire
  <2>2. CASE Trim(m) # n
    <3>1. m # n
      BY <2>2 DEF Plain
    <3> QED
      BY <1>2, <1>3, <2>1, <2>2, <3>1 DEF ApartAt, CallbackAt, Triggering
  <2>3. CASE Trim(m) = n
    <3>1. m = n /\ ~Busy(n)
      BY <1>4, <2>3 DEF Fire, Racing, Plain
    <3>2. Settled(n) /\ Triggers(n) # {}
      <4>1. \A h \in Handlers : ~Working(h, n)
        BY <3>1 DEF Busy, Concerns, Working, On, Plain
      <4> QED
        BY <1>4, <3>1, <4>1 DEF InOrder, AgreedAt, Fire
    <3>3. Exists(n) /\ file[n].enabled
      BY <3>2, SettledCases DEF Cleared
    <3> QED
      BY <1>2, <1>3, <2>1, <3>1, <3>3 DEF ApartAt, CallbackAt
  <2> QED
    BY <2>2, <2>3
<1>5. ASSUME Reload(b) PROVE Goal
  <2>1. \A c \in Callbacks :
          /\ bpc'[c] # "idle" => bpc[c] # "idle" /\ bname'[c] = bname[c]
          /\ c # b => bpc'[c] = bpc[c] /\ bval'[c] = bval[c]
    BY <1>3, <1>5 DEF Reload
  <2>2. bpc'[b] # "idle" => bval'[b] = file[Trim(bname[b])]
    BY <1>3, <1>5 DEF Reload
  <2> QED
    BY <1>2, <1>3, <2>1, <2>2 DEF ApartAt, CallbackAt, Triggering, Plain
<1>6. ASSUME EnqueueJob(b) \/ SaveLastRun(b) PROVE Goal
  <2>1. \A c \in Callbacks :
          bpc'[c] # "idle" =>
            /\ bpc[c] # "idle" /\ bname'[c] = bname[c]
            /\ bval'[c] = bval[c]
            /\ bpc'[c] = bpc[c] \/ bpc[c] = "enqueue"
    BY <1>3, <1>6 DEF EnqueueJob, SaveLastRun
  <2> QED
    BY <1>2, <1>3, <2>1 DEF ApartAt, CallbackAt, Triggering
<1>7. Goal
  BY <1>4, <1>5, <1>6 DEF CallbackGoesOn
<1>8. UNCHANGED <<cron, entries, damaged, up, hpc, hop, hname, hval, hid, hfrom, hto,
                  hlist>>
  BY <1>1 DEF CallbackOnly, handlerVars, requestVars, daemonVars
<1>9. ApartAt(n)'
  <2>1. Busy(n)' = Busy(n) /\ \A h \in Handlers : Concerns(h, n)' = Concerns(h, n)
    BY <1>8 DEF Busy, Concerns
  <2> QED
    BY <1>3, <1>7, <1>8, <2>1 DEF ApartAt
<1>10. AgreedAt(n)'
  <2>1. ScheduleKept(n)
    BY <1>2, <1>8 DEF ScheduleKept, Triggers
  <2>2. \A h \in Handlers : Working(h, n)' = Working(h, n)
    BY <1>8 DEF Working, On
  <2> QED
    BY <1>8, <2>1, <2>2, SettledKept DEF InOrder, AgreedAt
<1>11. ASSUME NEW h \in Handlers, On(h, n)' PROVE OperationAt(h, n)'
  <2>1. OperationAt(h, n) /\ hname[h] = n
    BY <1>8, <1>11 DEF InOrder, On
  <2> QED
    BY <2>1, <1>2, <1>8
    DEF OperationAt, HalfwayOf, InformedOf, Accomplished, Cleared, Exists, Triggers
<1>12. ASSUME NEW h \in Handlers, hop'[h] = "rename" PROVE RenameAt(h, n)'
  BY <1>2, <1>8, <1>12 DEF InOrder, RenameAt, Exists
<1> QED
  BY <1>7, <1>9, <1>10, <1>11, <1>12 DEF InOrder

\* If nothing is under way, it suffices that the schedule is settled.
AllIdle(n) ==
  /\ \A h \in Handlers : hpc[h] = "idle"
  /\ \A b \in Callbacks : bpc[b] = "idle"
  /\ up # "down" => Settled(n)
LEMMA NothingUnderWay ==
  ASSUME NEW n \in Names
  PROVE  AllIdle(n) => InOrder(n)
BY DEF AllIdle, InOrder, ApartAt, AgreedAt, On, Concerns, Busy, RenameAt
LEMMA NothingUnderWayNext ==
  ASSUME NEW n \in Names
  PROVE  AllIdle(n)' => InOrder(n)'
BY DEF AllIdle, InOrder, ApartAt, AgreedAt, On, Concerns, Busy, RenameAt

LEMMA StartSettles ==
  ASSUME TypeOK, Start, NEW n \in Names
  PROVE  Settled(n)'
<1>1. PICK i \in EntryIds :
        /\ cron' = {[name |-> m, id |-> i, spec |-> file[m].spec] :
                      m \in {k \in Names : Exists(k) /\ file[k].enabled}}
        /\ entries' = [m \in Names |->
                         IF Exists(m) /\ file[m].enabled THEN i ELSE 0]
        /\ file' = file
  BY DEF Start
<1>2. CASE Exists(n) /\ file[n].enabled
  <2> DEFINE e == [name |-> n, id |-> i, spec |-> file[n].spec]
  <2>1. e \in cron' /\ e.name = n
    BY <1>1, <1>2
  <2>2. \A d \in cron' : d.name = n => d = e
    BY <1>1
  <2>3. Triggers(n)' = {e}
    BY <2>1, <2>2 DEF Triggers
  <2>4. entries'[n] = i /\ i # 0
    BY <1>1, <1>2, BoundsAssumption
  <2> QED
    BY <1>1, <1>2, <2>3, <2>4 DEF Settled, Exact, Exists
<1>3. CASE ~(Exists(n) /\ file[n].enabled)
  <2>1. \A d \in cron' : d.name # n
    BY <1>1, <1>3
  <2>2. Triggers(n)' = {} /\ entries'[n] = 0
    BY <1>1, <1>3, <2>1 DEF Triggers
  <2> QED
    BY <1>1, <1>3, <2>2 DEF Settled, Exact, Exists
<1> QED
  BY <1>2, <1>3

\* A step that changes nothing that InOrder speaks of.
LEMMA InOrderKept ==
  ASSUME NEW n \in Names, InOrder(n), up = "down" => up' = "down",
         UNCHANGED <<file, cron, entries, handlerVars, callbackVars, damaged>>
  PROVE  InOrder(n)'
<1>1. UNCHANGED <<file, cron, entries, damaged, hpc, hop, hname, hval, hid, hfrom, hto,
                  hlist, bpc, bname, bval>>
  BY DEF handlerVars, requestVars, callbackVars
<1>2. ApartAt(n)'
  BY <1>1 DEF InOrder, ApartAt, Busy, Concerns, Triggering
<1>3. AgreedAt(n)'
  BY <1>1 DEF InOrder, AgreedAt, Working, On, Settled, Exact, Cleared, Triggers, Exists
<1>4. \A h \in Handlers : On(h, n)' => OperationAt(h, n)'
  BY <1>1 DEF InOrder, On, OperationAt, HalfwayOf, InformedOf, Accomplished, Cleared,
              Triggers, Exists
<1>5. \A b \in Callbacks : bpc'[b] # "idle" /\ bname'[b] = n => CallbackAt(b, n)'
  BY <1>1 DEF InOrder, CallbackAt, Exists
<1>6. \A h \in Handlers : hop'[h] = "rename" => RenameAt(h, n)'
  BY <1>1 DEF InOrder, RenameAt, Exists
<1> QED
  BY <1>2, <1>3, <1>4, <1>5, <1>6 DEF InOrder

\* A start puts every schedule in order, whatever has been done to it before.
LEMMA StartStep ==
  ASSUME TypeOK, AtRest, Start, NEW n \in Names
  PROVE  InOrder(n)'
<1>1. /\ \A h \in Handlers : hpc'[h] = "idle"
      /\ \A b \in Callbacks : bpc'[b] = "idle"
  BY DEF Start, AtRest, handlerVars, callbackVars
<1> QED
  BY <1>1, StartSettles, NothingUnderWayNext DEF AllIdle

LEMMA DaemonOrder ==
  ASSUME TypeOK, AtRest, NEW n \in Names, InOrder(n),
         Stop \/ StopCron \/ Exit \/ Crash \/ FlowStep \/ UNCHANGED vars
  PROVE  InOrder(n)'
<1>1. CASE Exit \/ Crash
  <2>1. /\ \A h \in Handlers : hpc'[h] = "idle"
        /\ \A b \in Callbacks : bpc'[b] = "idle"
        /\ up' = "down"
    BY <1>1 DEF Exit, Crash, AtRest, handlerVars, callbackVars
  <2> QED
    BY <2>1, NothingUnderWayNext DEF AllIdle
<1>2. CASE Stop \/ StopCron \/ FlowStep \/ UNCHANGED vars
  <2>1. /\ up = "down" => up' = "down"
        /\ UNCHANGED <<file, cron, entries, handlerVars, callbackVars, damaged>>
    BY <1>2 DEF Stop, StopCron, FlowStep, AddFlow, DeleteFlow, FlowsOnly, vars,
                historyVars, daemonVars
  <2> QED
    BY <2>1, InOrderKept
<1> QED
  BY <1>1, <1>2

-----------------------------------------------------------------------------
(* The inductive invariant                                                 *)

\* Once operations have overlapped on a schedule, only a start makes it orderly again.
LEMMA RacedGrows ==
  ASSUME [Next]_vars, ~Start
  PROVE  raced \subseteq raced'
<1>1. ASSUME NEW h \in Handlers, HandlerStep(h) PROVE raced \subseteq raced'
  <2>1. CASE HandlerGoesOn(h)
    BY <2>1
    DEF HandlerGoesOn, CheckFlow, StatSchedule, GetSchedule, RemoveEntry,
        SaveSchedule, AddFunc, MapEntry, DeleteSchedule, CheckRename,
        WriteFlow, RemoveFlow, ListSchedules, RewriteSchedule, RewriteDone,
        Reply, HandlerOnly
  <2>2. CASE ~HandlerGoesOn(h)
    BY <1>1, <2>2 DEF HandlerStep, Request, RequestRename, Racing
  <2> QED
    BY <2>1, <2>2
<1>2. ASSUME NEW b \in Callbacks, CallbackGoesOn(b) \/ \E n \in Names : Fire(b, n)
      PROVE  raced \subseteq raced'
  BY <1>2 DEF CallbackGoesOn, Fire, Reload, EnqueueJob, SaveLastRun, historyVars, Racing
<1>3. ASSUME Stop \/ StopCron \/ Exit \/ Crash \/ FlowStep \/ UNCHANGED vars
      PROVE  raced \subseteq raced'
  BY <1>3 DEF Stop, StopCron, Exit, Crash, FlowStep, AddFlow, DeleteFlow, FlowsOnly,
              vars, historyVars
<1> QED
  BY <1>1, <1>2, <1>3, Steps DEF DaemonStep

LEMMA HandlerOrder ==
  ASSUME TypeOK, TypeOK', AtRest, Renaming, NEW n \in Names, Plain(n), InOrder(n),
         n \notin raced', NEW h \in Handlers, HandlerStep(h)
  PROVE  InOrder(n)'
<1>1. up # "down"
  BY HandlerAtRest
<1>2. CASE HandlerGoesOn(h)
  <2>1. hpc[h] # "idle"
    BY <1>2
    DEF HandlerGoesOn, CheckFlow, StatSchedule, GetSchedule, RemoveEntry,
        SaveSchedule, AddFunc, MapEntry, DeleteSchedule, CheckRename,
        WriteFlow, RemoveFlow, ListSchedules, RewriteSchedule, RewriteDone,
        Reply, Replies
  <2>2. CASE ~Concerns(h, n)
    BY <1>2, <2>2, ElsewhereStep
  <2>3. CASE Concerns(h, n) /\ hop[h] = "rename"
    BY <1>1, <1>2, <2>1, <2>3, RenameStep
  <2>4. CASE Concerns(h, n) /\ hop[h] # "rename"
    <3>1. On(h, n)
      BY <2>1, <2>4 DEF InOrder, ApartAt, On
    <3> QED
      BY <1>1, <1>2, <3>1, OperationStep
  <2> QED
    BY <2>2, <2>3, <2>4
<1> QED
  BY <1>2, RequestStep, RenameRequestStep DEF HandlerStep

LEMMA OrderStep ==
  ASSUME IInv, TypeOK', [Next]_vars, NEW n \in Names, Plain(n), n \notin raced'
  PROVE  InOrder(n)'
<1>1. CASE Start
  BY <1>1, StartStep DEF IInv
<1>2. CASE ~Start
  <2>1. n \in Orderly
    BY <1>2, RacedGrows DEF Orderly
  <2>2. InOrder(n)
    BY <2>1 DEF IInv
  <2>3. TypeOK /\ AtRest /\ Renaming
    BY DEF IInv
  <2>4. ASSUME NEW b \in Callbacks, CallbackGoesOn(b) \/ \E m \in Names : Fire(b, m)
        PROVE  InOrder(n)'
    BY <2>2, <2>3, <2>4, CallbackAtRest, CallbackStep
  <2> QED
    BY <1>2, <2>2, <2>3, <2>4, HandlerOrder, DaemonOrder, Steps DEF DaemonStep
<1> QED
  BY <1>1, <1>2

-----------------------------------------------------------------------------
(* The theorems                                                            *)

\* The inductive invariant, whatever overlaps and whatever names are called by: a
\* schedule is in order until something overlaps on it, and from every start on.
THEOREM Invariance == Spec => []IInv
<1>1. Init => IInv
  <2> SUFFICES ASSUME Init PROVE IInv
    OBVIOUS
  <2>1. AtRest /\ Mapped /\ Renaming
    BY DEF Init, AtRest, Mapped, LiveEntries, Renaming
  <2>2. ASSUME NEW n \in Names PROVE InOrder(n)
    <3>1. Settled(n)
      BY DEF Init, Settled, Exact, Triggers, Exists
    <3> QED
      BY <3>1, NothingUnderWay DEF Init, AllIdle
  <2> QED
    BY <2>1, <2>2, InitTyping DEF IInv, Orderly
<1>2. IInv /\ [Next]_vars => IInv'
  <2> SUFFICES ASSUME IInv, [Next]_vars PROVE IInv'
    OBVIOUS
  <2>1. TypeOK'
    BY HandlerTyping, CallbackTyping, DaemonTyping, StutterTyping, Steps DEF IInv
  <2>2. AtRest' /\ Mapped'
    BY HandlerAtRest, CallbackAtRest, DaemonAtRest, HandlerMapped,
       CallbackMapped, DaemonMapped, StutterMapped, Steps
    DEF IInv
  <2>3. Renaming'
    BY RenamingStep DEF IInv
  <2>4. \A n \in Orderly' : InOrder(n)'
    BY <2>1, OrderStep DEF Orderly
  <2> QED
    BY <2>1, <2>2, <2>3, <2>4 DEF IInv
<1> QED
  BY <1>1, <1>2, PTL DEF Spec

\* File, map and cron library agree on every orderly schedule whenever no request on
\* it is under way, for any number of schedules, requests and callbacks, through
\* failed saves, stops and crashes, and whatever is done to the other schedules.
THEOREM PlacesAgree == Spec => []Triggered
<1>1. IInv => Triggered
  <2> SUFFICES ASSUME IInv, up # "down", NEW n \in Orderly, Quiet(n)
               PROVE  Settled(n)
    BY DEF Triggered, Settled, Cleared
  <2>1. \A h \in Handlers : ~Working(h, n)
    BY DEF Quiet, Working, On, Concerns, Orderly, Plain, Replies
  <2> QED
    BY <2>1 DEF IInv, InOrder, AgreedAt
<1> QED
  BY <1>1, Invariance, PTL

\* An operation on an orderly schedule that is reported as done is done.
THEOREM HonestReply == Spec => []ReplyIsTrue
<1>1. IInv => ReplyIsTrue
  <2> SUFFICES ASSUME IInv, NEW h \in Handlers, hpc[h] = "ok", hname[h] \in Orderly
               PROVE  Accomplished(h)
    BY DEF ReplyIsTrue
  <2>1. CASE hop[h] = "rename"
    BY <2>1 DEF Accomplished
  <2>2. CASE hop[h] # "rename"
    <3>1. On(h, hname[h])
      BY <2>2 DEF On
    <3> QED
      BY <3>1 DEF IInv, InOrder, OperationAt
  <2> QED
    BY <2>1, <2>2
<1> QED
  BY <1>1, Invariance, PTL

\* A renamed flow takes its schedules along, but those that it cannot save: one that
\* is left behind for another reason has been touched by another request or by a
\* callback meanwhile.
THEOREM RenameComplete == Spec => []RenameCarries
<1>1. IInv => RenameCarries
  BY DEF IInv, InOrder, RenameAt, RenameCarries, CarriedOver
<1> QED
  BY <1>1, Invariance, PTL

\* Every job that cron creates for an orderly schedule is one that it asks for.
THEOREM JobsWanted == Spec => FiresOnlyEnabled
<1> DEFINE A == \A b \in Callbacks :
                  bpc[b] = "enqueue" /\ bpc'[b] = "save" /\ bname[b] \in Orderly =>
                    LET s == file[bname[b]]
                    IN  s # None /\ s.enabled /\ s.flow = bval[b].flow
<1>1. IInv => A
  BY DEF IInv, InOrder, CallbackAt, Exists
<1> QED
  BY <1>1, Invariance, PTL DEF FiresOnlyEnabled
=============================================================================
