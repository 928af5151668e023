------------------------------ MODULE Schedules -----------------------------
(***************************************************************************)
(* The scheduler (internal/scheduler/scheduler.go), its store of one file  *)
(* per schedule (internal/scheduler/store.go), and what the server and the *)
(* daemon do with them (internal/server/server.go, cmd/yafe/main.go).      *)
(*                                                                         *)
(* A schedule lives in three places: its file, an entry of the cron        *)
(* library that triggers it, and the map from its name to that entry.      *)
(* Each place has a lock of its own that is held for one call: a call is   *)
(* one action, and requests and cron callbacks interleave between calls.   *)
(* The flow registry is the set of the flows that exist.                   *)
(*                                                                         *)
(* A name may come with blanks around it.  Some calls strip them, others   *)
(* do not: Names and Flows are names as requests spell them.               *)
(***************************************************************************)
EXTENDS Naturals, FiniteSets

CONSTANTS
  Names, Flows, Specs,  \* schedule names, flow names, cron expressions
  Trim(_),    \* a name without the blanks around it
  None,       \* no schedule, no flow
  Handlers,   \* requests in flight at one time
  Callbacks,  \* cron callbacks in flight at one time
  EntryIds,   \* bound: identifiers for the cron entries of one name
  Ops,        \* the requests that are made
  Overlap,    \* do operations on one schedule overlap in time?
  Faults,     \* the calls that may fail
  Ends,       \* the ways the daemon may end
  MaxEnds     \* bound: ends of the daemon in one behaviour

Schedule == [flow: Flows, spec: Specs, enabled: BOOLEAN]

Plain(n) == Trim(n) = n

ASSUME BoundsAssumption ==
  Names # {} /\ EntryIds \subseteq Nat \ {0} /\ EntryIds # {} /\ MaxEnds \in Nat
ASSUME NoneAssumption ==
  None \notin Schedule /\ None \notin Flows /\ None \notin Names
ASSUME TrimAssumption ==
  /\ \A n \in Names : Trim(n) \in Names /\ Plain(Trim(n))
  /\ \A f \in Flows : Trim(f) \in Flows /\ Plain(Trim(f))
ASSUME OptionsAssumption ==
  /\ Ops \subseteq {"create", "update", "delete", "enable", "disable", "rename"}
  /\ Overlap \in BOOLEAN
  /\ Faults \subseteq {"write", "remove"} /\ Ends \subseteq {"stop", "crash"}

VARIABLES
  file,     \* name -> the schedule in the file of that name, or None
  flows,    \* the flows that exist
  cron,     \* the entries of the cron library
  entries,  \* name -> the identifier of its cron entry (0: not in the map)
  hpc,      \* handler: where it is
  hop,      \* handler: its operation
  hname,    \* handler: the schedule it is about (None for a rename)
  hval,     \* handler: the schedule it is going to save
  hid,      \* handler: the cron entry it has just added (0: none)
  hfrom,    \* handler: the flow to rename ...
  hto,      \* handler: ... and its new name
  hlist,    \* handler: the schedules still to rewrite after the rename
  bpc,      \* callback: where it is
  bname,    \* callback: its schedule
  bval,     \* callback: the schedule as it has read it
  up,       \* the daemon: "up", "draining", "stopping" or "down"
  ends,     \* ends of the daemon so far
  damaged,  \* history: the schedules whose last save failed
  raced     \* history: the schedules on which operations have overlapped, or
            \* that were called by a name with blanks, since the daemon started

requestVars  == <<hop, hname, hfrom, hto>>
handlerVars  == <<hpc, requestVars, hval, hid, hlist>>
callbackVars == <<bpc, bname, bval>>
daemonVars   == <<up, ends>>
historyVars  == <<damaged, raced>>
vars == <<file, flows, cron, entries, handlerVars, callbackVars, daemonVars,
          historyVars>>

Entry == [name: Names, id: EntryIds, spec: Specs]
Replies == {"ok", "error"}
Exists(n) == file[n] # None
Flipped(s)  == [s EXCEPT !.enabled = ~@]
Moved(s, f) == [s EXCEPT !.flow = f]
Triggers(n) == {e \in cron : e.name = n}

-----------------------------------------------------------------------------
Init ==
  /\ file = [n \in Names |-> None] /\ flows = {}
  /\ cron = {} /\ entries = [n \in Names |-> 0]
  /\ hpc = [h \in Handlers |-> "idle"] /\ hop = [h \in Handlers |-> "none"]
  /\ hname = [h \in Handlers |-> None] /\ hval = [h \in Handlers |-> None]
  /\ hid = [h \in Handlers |-> 0]
  /\ hfrom = [h \in Handlers |-> None] /\ hto = [h \in Handlers |-> None]
  /\ hlist = [h \in Handlers |-> {}]
  /\ bpc = [b \in Callbacks |-> "idle"] /\ bname = [b \in Callbacks |-> None]
  /\ bval = [b \in Callbacks |-> None]
  /\ up = "up" /\ ends = 0 /\ damaged = {} /\ raced = {}

-----------------------------------------------------------------------------
(* Requests: Create, Update, Delete, Enable, Disable.                      *)

HandlerOnly == UNCHANGED <<callbackVars, daemonVars, raced>>
HGoTo(h, pc) == hpc' = [hpc EXCEPT ![h] = pc]

\* The operations on a schedule, by whatever name they call it; a rename is
\* about all schedules.
Concerns(h, n) == hpc[h] # "idle" /\ (hop[h] = "rename" \/ Trim(hname[h]) = n)
Busy(n) == \E h \in Handlers : Concerns(h, n)
Triggering(n) == \E b \in Callbacks : bpc[b] # "idle" /\ Trim(bname[b]) = n
Alone(n) == ~Busy(n) /\ ~Triggering(n)

\* Bound: a request is only made while there are identifiers left for the entry
\* that it may add, and for those of the requests under way.
Fresh(n, i) == \A e \in Triggers(n) : e.id # i
Room(n) == Cardinality({h \in Handlers : Concerns(h, Trim(n))})
             < Cardinality({i \in EntryIds : Fresh(n, i)})

\* The schedules that are not orderly once an operation calls one of them n.
Racing(n, alone) == IF Plain(n) /\ alone THEN raced ELSE raced \union {Trim(n)}

\* The first call of each operation, once its input has been validated.
FirstCall == [create |-> "checkflow", update |-> "checkflow",
              delete |-> "unmap", enable |-> "get", disable |-> "get"]

Request(h, op, n, s) ==
  /\ hpc[h] = "idle" /\ up = "up"
  /\ op \in Ops \ {"rename"}
  /\ (Overlap \/ Alone(Trim(n))) /\ Room(n) /\ Room(Trim(n))
  /\ raced' = Racing(n, Alone(n))
  /\ IF op \in {"create", "update"} THEN s \in Schedule ELSE s = None
  /\ HGoTo(h, FirstCall[op])
  /\ hop' = [hop EXCEPT ![h] = op]
  /\ hname' = [hname EXCEPT ![h] = n]
  /\ hval' = [hval EXCEPT ![h] = s]
  /\ UNCHANGED <<file, flows, cron, entries, damaged, hid, hfrom, hto, hlist>>
  /\ UNCHANGED <<callbackVars, daemonVars>>

CheckFlow(h) ==
  /\ hpc[h] = "checkflow"
  /\ HGoTo(h, IF hval[h].flow \notin flows THEN "error"
              ELSE IF hop[h] = "create" THEN "stat" ELSE "get")
  /\ UNCHANGED <<file, flows, cron, entries, damaged, hval, hid, hlist,
                 requestVars>>
  /\ HandlerOnly

\* Create refuses a name that is taken.
\* Mutant: Create does not look.
CreateBlindly(h) ==
  /\ hpc[h] = "stat"
  /\ HGoTo(h, "save")
  /\ UNCHANGED <<file, flows, cron, entries, damaged, hval, hid, hlist,
                 requestVars>>
  /\ HandlerOnly
StatSchedule(h) ==
  /\ hpc[h] = "stat"
  /\ HGoTo(h, IF Exists(hname[h]) THEN "error" ELSE "save")
  /\ UNCHANGED <<file, flows, cron, entries, damaged, hval, hid, hlist,
                 requestVars>>
  /\ HandlerOnly

\* The call after the one that reads the schedule.
\* Mutant: Disable leaves the cron entry where it is.
AfterGetUnmapped == [update |-> "unmap", enable |-> "save", disable |-> "save"]
AfterGet == [update |-> "unmap", enable |-> "save", disable |-> "unmap"]

\* Update only needs to know that there is a schedule; Enable and Disable
\* return if there is nothing to do.
GetSchedule(h) ==
  /\ hpc[h] = "get"
  /\ LET s == file[Trim(hname[h])]
         flips == hop[h] # "update"
     IN  \/ /\ s = None
            /\ HGoTo(h, "error") /\ UNCHANGED hval
         \/ /\ s # None /\ flips /\ s.enabled = (hop[h] = "enable")
            /\ HGoTo(h, "ok") /\ UNCHANGED hval
         \/ /\ s # None /\ flips /\ s.enabled # (hop[h] = "enable")
            /\ HGoTo(h, AfterGet[hop[h]])
            /\ hval' = [hval EXCEPT ![h] = Flipped(s)]
         \/ /\ s # None /\ ~flips
            /\ HGoTo(h, AfterGet[hop[h]]) /\ UNCHANGED hval
  /\ UNCHANGED <<file, flows, cron, entries, damaged, hid, hlist, requestVars>>
  /\ HandlerOnly

\* removeEntry: the map's entry leaves the cron library and the map.  The name is
\* looked up with its blanks.
RemoveEntry(h) ==
  /\ hpc[h] = "unmap"
  /\ cron' = {e \in cron : e.name # hname[h] \/ e.id # entries[hname[h]]}
  /\ entries' = [entries EXCEPT ![hname[h]] = 0]
  /\ HGoTo(h, IF hop[h] = "delete" THEN "remove" ELSE "save")
  /\ UNCHANGED <<file, flows, damaged, hval, hid, hlist, requestVars>>
  /\ HandlerOnly

\* Enable and Disable save the schedule that they have read, under the name that
\* stands in it; Create and Update the one that they were given.
Saved(h) == IF hop[h] \in {"enable", "disable"} THEN Trim(hname[h]) ELSE hname[h]

\* Mutant: a new schedule waits for its trigger until the next restart.
SaveOnly(h) ==
  /\ hpc[h] = "save"
  /\ \/ /\ file' = [file EXCEPT ![Saved(h)] = hval[h]]
        /\ damaged' = damaged \ {Saved(h)}
        /\ HGoTo(h, IF hval[h].enabled /\ hop[h] # "create" THEN "addfunc" ELSE "ok")
     \/ /\ "write" \in Faults
        /\ damaged' = damaged \union {Saved(h)}
        /\ HGoTo(h, "error")
        /\ UNCHANGED file
  /\ UNCHANGED <<flows, cron, entries, hval, hid, hlist, requestVars>>
  /\ HandlerOnly
\* Mutant: a failed save is only logged.
SaveLogged(h) ==
  /\ hpc[h] = "save"
  /\ \/ file' = [file EXCEPT ![Saved(h)] = hval[h]]
     \/ "write" \in Faults /\ UNCHANGED file
  /\ HGoTo(h, IF hval[h].enabled THEN "addfunc" ELSE "ok")
  /\ UNCHANGED <<flows, cron, entries, damaged, hval, hid, hlist, requestVars>>
  /\ HandlerOnly
SaveSchedule(h) ==
  /\ hpc[h] = "save"
  /\ \/ /\ file' = [file EXCEPT ![Saved(h)] = hval[h]]
        /\ damaged' = damaged \ {Saved(h)}
        /\ HGoTo(h, IF hval[h].enabled THEN "addfunc" ELSE "ok")
     \/ /\ "write" \in Faults
        /\ damaged' = damaged \union {Saved(h)}
        /\ HGoTo(h, "error")
        /\ UNCHANGED file
  /\ UNCHANGED <<flows, cron, entries, hval, hid, hlist, requestVars>>
  /\ HandlerOnly

\* addEntry: first the cron entry, whose identifier is new, then the map.
AddFunc(h) ==
  /\ hpc[h] = "addfunc"
  /\ \E i \in EntryIds :
       /\ Fresh(Saved(h), i)
       /\ \A k \in EntryIds : Fresh(Saved(h), k) => i <= k
       /\ cron' = cron \union {[name |-> Saved(h), id |-> i, spec |-> hval[h].spec]}
       /\ hid' = [hid EXCEPT ![h] = i]
  /\ HGoTo(h, "map")
  /\ UNCHANGED <<file, flows, entries, damaged, hval, hlist, requestVars>>
  /\ HandlerOnly

MapEntry(h) ==
  /\ hpc[h] = "map"
  /\ entries' = [entries EXCEPT ![Saved(h)] = hid[h]]
  /\ hid' = [hid EXCEPT ![h] = 0]
  /\ HGoTo(h, "ok")
  /\ UNCHANGED <<file, flows, cron, damaged, hval, hlist, requestVars>>
  /\ HandlerOnly

\* FileStore.Delete strips the blanks.
DeleteSchedule(h) ==
  /\ hpc[h] = "remove"
  /\ \/ /\ Exists(Trim(hname[h]))
        /\ file' = [file EXCEPT ![Trim(hname[h])] = None]
        /\ damaged' = damaged \ {Trim(hname[h])}
        /\ HGoTo(h, "ok")
     \/ /\ Exists(Trim(hname[h])) /\ "remove" \in Faults
        /\ damaged' = damaged \union {Trim(hname[h])}
        /\ HGoTo(h, "error") /\ UNCHANGED file
     \/ /\ ~Exists(Trim(hname[h]))
        /\ HGoTo(h, "error") /\ UNCHANGED <<file, damaged>>
  /\ UNCHANGED <<flows, cron, entries, hval, hid, hlist, requestVars>>
  /\ HandlerOnly

-----------------------------------------------------------------------------
(* The request that renames a flow, and the other requests about flows.    *)

RequestRename(h, from, to) ==
  /\ hpc[h] = "idle" /\ up = "up"
  /\ "rename" \in Ops
  /\ Overlap \/ \A n \in Names : Alone(n)
  /\ raced' = raced \union {n \in Names : ~Alone(n)}
  /\ HGoTo(h, "checkrename")
  /\ hop' = [hop EXCEPT ![h] = "rename"]
  /\ hfrom' = [hfrom EXCEPT ![h] = from] /\ hto' = [hto EXCEPT ![h] = to]
  /\ UNCHANGED <<file, flows, cron, entries, damaged, hname, hval, hid, hlist>>
  /\ UNCHANGED <<callbackVars, daemonVars>>

CheckRename(h) ==
  /\ hpc[h] = "checkrename"
  /\ HGoTo(h, IF Trim(hfrom[h]) \in flows /\ Trim(hto[h]) \notin flows
              THEN "writeflow" ELSE "error")
  /\ UNCHANGED <<file, flows, cron, entries, damaged, hval, hid, hlist,
                 requestVars>>
  /\ HandlerOnly

WriteFlow(h) ==
  /\ hpc[h] = "writeflow"
  /\ \/ /\ Trim(hfrom[h]) \in flows
        /\ flows' = flows \union {Trim(hto[h])}
        /\ HGoTo(h, "removeflow")
     \/ /\ Trim(hfrom[h]) \notin flows \/ "write" \in Faults
        /\ HGoTo(h, "error") /\ UNCHANGED flows
  /\ UNCHANGED <<file, cron, entries, damaged, hval, hid, hlist, requestVars>>
  /\ HandlerOnly

\* A flow that cannot be removed stays, and the rename goes on.
RemoveFlow(h) ==
  /\ hpc[h] = "removeflow"
  /\ flows' = flows \ {Trim(hfrom[h])} \/ ("remove" \in Faults /\ UNCHANGED flows)
  /\ HGoTo(h, "list")
  /\ UNCHANGED <<file, cron, entries, damaged, hval, hid, hlist, requestVars>>
  /\ HandlerOnly

\* UpdateFlowReferences lists the schedules once.  The registry strips blanks
\* from a flow's name; the names that are looked for and written here have them.
ListSchedules(h) ==
  /\ hpc[h] = "list"
  /\ hlist' = [hlist EXCEPT ![h] =
       {r \in [name: Names, old: Schedule] :
          r.old = file[r.name] /\ r.old.flow = hfrom[h]}]
  /\ HGoTo(h, "rewrite")
  /\ UNCHANGED <<file, flows, cron, entries, damaged, hval, hid, requestVars>>
  /\ HandlerOnly

\* Mutant: the first schedule that cannot be saved ends the rewriting.
StopAtFailure(h) ==
  /\ hpc[h] = "rewrite"
  /\ \E r \in hlist[h] :
     \/ /\ file' = [file EXCEPT ![r.name] = Moved(r.old, hto[h])]
        /\ hlist' = [hlist EXCEPT ![h] = @ \ {r}]
        /\ UNCHANGED damaged
     \/ /\ "write" \in Faults
        /\ hlist' = [hlist EXCEPT ![h] = {}]
        /\ damaged' = damaged \union {r.name}
        /\ UNCHANGED file
  /\ UNCHANGED hpc
  /\ UNCHANGED <<flows, cron, entries, hval, hid, requestVars>>
  /\ HandlerOnly
RewriteSchedule(h) ==
  /\ hpc[h] = "rewrite"
  /\ \E r \in hlist[h] :
     /\ hlist' = [hlist EXCEPT ![h] = @ \ {r}]
     /\ \/ /\ file' = [file EXCEPT ![r.name] = Moved(r.old, hto[h])]
           /\ UNCHANGED damaged
        \/ /\ "write" \in Faults
           /\ damaged' = damaged \union {r.name}
           /\ UNCHANGED file
  /\ UNCHANGED hpc
  /\ UNCHANGED <<flows, cron, entries, hval, hid, requestVars>>
  /\ HandlerOnly

RewriteDone(h) ==
  /\ hpc[h] = "rewrite" /\ hlist[h] = {}
  /\ HGoTo(h, "ok")
  /\ UNCHANGED <<file, flows, cron, entries, damaged, hval, hid, hlist,
                 requestVars>>
  /\ HandlerOnly

Reply(h) ==
  /\ hpc[h] \in Replies
  /\ HGoTo(h, "idle")
  /\ hop' = [hop EXCEPT ![h] = "none"] /\ hname' = [hname EXCEPT ![h] = None]
  /\ hval' = [hval EXCEPT ![h] = None]
  /\ hfrom' = [hfrom EXCEPT ![h] = None] /\ hto' = [hto EXCEPT ![h] = None]
  /\ UNCHANGED <<file, flows, cron, entries, damaged, hid, hlist>>
  /\ HandlerOnly

HandlerGoesOn(h) ==   \* every step but a new request
  \/ CheckFlow(h) \/ StatSchedule(h) \/ GetSchedule(h) \/ RemoveEntry(h)
  \/ SaveSchedule(h) \/ AddFunc(h) \/ MapEntry(h) \/ DeleteSchedule(h)
  \/ CheckRename(h) \/ WriteFlow(h) \/ RemoveFlow(h) \/ ListSchedules(h)
  \/ RewriteSchedule(h) \/ RewriteDone(h) \/ Reply(h)
HandlerStep(h) ==
  \/ \E op \in Ops, n \in Names, s \in Schedule \union {None} : Request(h, op, n, s)
  \/ \E from, to \in Flows : RequestRename(h, from, to)
  \/ HandlerGoesOn(h)

FlowsOnly == UNCHANGED <<file, cron, entries, handlerVars, callbackVars,
                         daemonVars, historyVars>>
AddFlow(f)    == up = "up" /\ flows' = flows \union {Trim(f)} /\ FlowsOnly
DeleteFlow(f) == up = "up" /\ flows' = flows \ {Trim(f)} /\ FlowsOnly

-----------------------------------------------------------------------------
(* The cron library and its callback scheduleJob.                          *)

CallbackOnly == UNCHANGED <<flows, cron, entries, handlerVars, daemonVars>>
BGoTo(b, pc) == bpc' = [bpc EXCEPT ![b] = pc]
BEnd(b) ==
  /\ BGoTo(b, "idle")
  /\ bname' = [bname EXCEPT ![b] = None] /\ bval' = [bval EXCEPT ![b] = None]

\* Mutant: Stop does not stop the cron library.
FireAlways(b, n) ==
  /\ bpc[b] = "idle" /\ up # "down" /\ Triggers(n) # {}
  /\ Overlap \/ ~Busy(Trim(n))
  /\ raced' = Racing(n, ~Busy(n))
  /\ BGoTo(b, "get")
  /\ bname' = [bname EXCEPT ![b] = n]
  /\ UNCHANGED <<file, damaged, bval>> /\ CallbackOnly
Fire(b, n) ==
  /\ bpc[b] = "idle" /\ up \in {"up", "draining"} /\ Triggers(n) # {}
  /\ Overlap \/ ~Busy(Trim(n))
  /\ raced' = Racing(n, ~Busy(n))
  /\ BGoTo(b, "get")
  /\ bname' = [bname EXCEPT ![b] = n]
  /\ UNCHANGED <<file, damaged, bval>> /\ CallbackOnly

Reload(b) ==
  /\ bpc[b] = "get"
  /\ \/ /\ Exists(Trim(bname[b]))
        /\ BGoTo(b, "enqueue")
        /\ bval' = [bval EXCEPT ![b] = file[Trim(bname[b])]]
        /\ UNCHANGED bname
     \/ /\ ~Exists(Trim(bname[b]))
        /\ BEnd(b)
  /\ UNCHANGED <<file, historyVars>> /\ CallbackOnly

EnqueueJob(b) ==
  /\ bpc[b] = "enqueue"
  /\ \/ /\ Trim(bval[b].flow) \in flows
        /\ BGoTo(b, "save")
        /\ UNCHANGED <<bname, bval>>
     \/ /\ Trim(bval[b].flow) \notin flows \/ "write" \in Faults
        /\ BEnd(b)
  /\ UNCHANGED <<file, historyVars>> /\ CallbackOnly

\* The schedule is written back as it was read, with the time of this run.
SaveLastRun(b) ==
  /\ bpc[b] = "save"
  /\ \/ file' = [file EXCEPT ![Trim(bname[b])] = bval[b]]
     \/ "write" \in Faults /\ UNCHANGED file
  /\ BEnd(b)
  /\ UNCHANGED historyVars /\ CallbackOnly

CallbackGoesOn(b) == Reload(b) \/ EnqueueJob(b) \/ SaveLastRun(b)

-----------------------------------------------------------------------------
(* The daemon: serve waits for the requests, stops the cron library and    *)
(* waits for its callbacks.                                                *)

Stop ==
  /\ "stop" \in Ends /\ up = "up" /\ ends < MaxEnds
  /\ up' = "draining" /\ ends' = ends + 1
  /\ UNCHANGED <<file, flows, cron, entries, handlerVars, callbackVars, historyVars>>

StopCron ==
  /\ up = "draining" /\ \A h \in Handlers : hpc[h] = "idle"
  /\ up' = "stopping"
  /\ UNCHANGED <<file, flows, cron, entries, handlerVars, callbackVars, ends,
                 historyVars>>

\* Only the files remain.
LoseEntries == cron' = {} /\ entries' = [n \in Names |-> 0]

Exit ==
  /\ up = "stopping" /\ \A b \in Callbacks : bpc[b] = "idle"
  /\ up' = "down" /\ LoseEntries
  /\ UNCHANGED <<file, flows, handlerVars, callbackVars, ends, historyVars>>

Crash ==
  /\ "crash" \in Ends /\ up # "down" /\ ends < MaxEnds
  /\ up' = "down" /\ ends' = ends + 1 /\ LoseEntries
  /\ hpc' = [h \in Handlers |-> "idle"] /\ hop' = [h \in Handlers |-> "none"]
  /\ hname' = [h \in Handlers |-> None] /\ hval' = [h \in Handlers |-> None]
  /\ hid' = [h \in Handlers |-> 0] /\ hlist' = [h \in Handlers |-> {}]
  /\ hfrom' = [h \in Handlers |-> None] /\ hto' = [h \in Handlers |-> None]
  /\ bpc' = [b \in Callbacks |-> "idle"] /\ bname' = [b \in Callbacks |-> None]
  /\ bval' = [b \in Callbacks |-> None]
  /\ UNCHANGED <<file, flows, historyVars>>

\* Scheduler.Start is through before the server listens: every enabled
\* schedule gets an entry.
Start ==
  /\ up = "down" /\ up' = "up" /\ damaged' = {} /\ raced' = {}
  /\ \E i \in EntryIds :
       /\ \A k \in EntryIds : i <= k
       /\ cron' = {[name |-> n, id |-> i, spec |-> file[n].spec] :
                     n \in {m \in Names : Exists(m) /\ file[m].enabled}}
       /\ entries' = [n \in Names |-> IF Exists(n) /\ file[n].enabled THEN i ELSE 0]
  /\ UNCHANGED <<file, flows, handlerVars, callbackVars, ends>>

-----------------------------------------------------------------------------
Next ==
  \/ \E h \in Handlers : HandlerStep(h)
  \/ \E f \in Flows : AddFlow(f) \/ DeleteFlow(f)
  \/ \E b \in Callbacks : CallbackGoesOn(b) \/ \E n \in Names : Fire(b, n)
  \/ Stop \/ StopCron \/ Exit \/ Crash \/ Start

Spec == Init /\ [][Next]_vars

\* Requests and callbacks are carried through, serve goes on when it has
\* nothing to wait for, and cron triggers each schedule that has an entry
\* (strongly, since the number of callbacks in flight is a bound of the model
\* only).  Nobody has to make a request, stop the daemon or start it.
FairSpec ==
  /\ Spec
  /\ \A h \in Handlers : WF_vars(HandlerGoesOn(h))
  /\ \A b \in Callbacks : WF_vars(CallbackGoesOn(b))
  /\ \A n \in Names : SF_vars(\E b \in Callbacks : Fire(b, n))
  /\ WF_vars(StopCron) /\ WF_vars(Exit)

-----------------------------------------------------------------------------
(* Properties *)

HandlerPc == {"idle", "checkflow", "stat", "get", "unmap", "save", "addfunc",
              "map", "remove", "checkrename", "writeflow", "removeflow",
              "list", "rewrite"} \union Replies

\* Every variable has its type, and each operation has at hand what its code
\* uses next.
HandlersTyped ==
  /\ hpc \in [Handlers -> HandlerPc]
  /\ hop \in [Handlers -> {"none", "create", "update", "delete", "enable",
                           "disable", "rename"}]
  /\ hname \in [Handlers -> Names \union {None}]
  /\ hval \in [Handlers -> Schedule \union {None}]
  /\ hid \in [Handlers -> EntryIds \union {0}]
  /\ hfrom \in [Handlers -> Flows \union {None}]
  /\ hto \in [Handlers -> Flows \union {None}]
  /\ hlist \in [Handlers -> SUBSET [name: Names, old: Schedule]]
Calls == [create  |-> {"checkflow", "stat", "save", "addfunc", "map"},
          update  |-> {"checkflow", "get", "unmap", "save", "addfunc", "map"},
          delete  |-> {"unmap", "remove"},
          enable  |-> {"get", "save", "addfunc", "map"},
          disable |-> {"get", "unmap", "save"}]
Changing(h) ==   \* Enable and Disable, from what they have read to the reply
  hop[h] \in {"enable", "disable"} /\ hpc[h] \in {"unmap", "save", "addfunc", "map"}
HandlersReady ==
  \A h \in Handlers :
    \/ hpc[h] = "idle"
    \/ hop[h] \in DOMAIN Calls /\ hname[h] \in Names
         /\ hpc[h] \in Calls[hop[h]] \union Replies
         /\ (hop[h] \in {"create", "update"} \/ Changing(h) => hval[h] \in Schedule)
         /\ (hpc[h] = "map" => hid[h] \in EntryIds)
         /\ (Changing(h) => hval[h].enabled = (hop[h] = "enable"))
    \/ hop[h] = "rename" /\ hfrom[h] \in Flows /\ hto[h] \in Flows
         /\ hpc[h] \in {"checkrename", "writeflow", "removeflow", "list", "rewrite"}
                         \union Replies
CallbacksTyped ==
  /\ bpc \in [Callbacks -> {"idle", "get", "enqueue", "save"}]
  /\ bname \in [Callbacks -> Names \union {None}]
  /\ bval \in [Callbacks -> Schedule \union {None}]
  /\ \A b \in Callbacks : /\ bpc[b] # "idle" => bname[b] \in Names
                          /\ bpc[b] \in {"enqueue", "save"} => bval[b] \in Schedule
TypeOK ==
  /\ file \in [Names -> Schedule \union {None}] /\ flows \subseteq Flows
  /\ cron \subseteq Entry /\ entries \in [Names -> EntryIds \union {0}]
  /\ up \in {"up", "draining", "stopping", "down"} /\ ends \in 0..MaxEnds
  /\ damaged \subseteq Names /\ raced \subseteq Names
  /\ HandlersTyped /\ HandlersReady /\ CallbacksTyped

\* The claims below are about the schedules that have been called by their plain
\* name and one operation at a time since the daemon started.  The code serialises
\* neither requests nor callbacks, and takes names as they come: of a schedule
\* that operations have overlapped on, or that a request or a callback has called
\* by a name with blanks, nothing is claimed until the next start.
Orderly == {n \in Names \ raced : Plain(n)}

\* Nothing is being done to the schedule, or it has been done.
Quiet(n) == \A h \in Handlers : Concerns(h, n) => hpc[h] \in Replies

\* The three places agree: an enabled schedule has exactly one cron entry, the
\* one in the map, with the expression of its file; any other has none.
Exact(n) ==
  IF Exists(n) /\ file[n].enabled
  THEN /\ entries[n] # 0
       /\ Triggers(n) = {[name |-> n, id |-> entries[n], spec |-> file[n].spec]}
  ELSE entries[n] = 0 /\ Triggers(n) = {}

\* The file of an orderly schedule, the map and the cron library agree whenever no
\* request on it is under way, whatever is done to other schedules meanwhile,
\* through stops and crashes.  After a failed save the schedule may have lost its
\* trigger, and nothing else.
Triggered ==
  up # "down" => \A n \in Orderly : Quiet(n) =>
    Exact(n) \/ (n \in damaged /\ entries[n] = 0 /\ Triggers(n) = {})

Accomplished(h) ==
  LET n == hname[h] IN
  /\ hop[h] \in {"create", "update"} => file[n] = hval[h]
  /\ hop[h] = "delete" => ~Exists(n)
  /\ hop[h] \in {"enable", "disable"} =>
       Exists(n) /\ file[n].enabled = (hop[h] = "enable")

\* A request on an orderly schedule that is answered with success has done what
\* it says.
ReplyIsTrue ==
  \A h \in Handlers : hpc[h] = "ok" /\ hname[h] \in Orderly => Accomplished(h)

CarriedOver(h) ==
  \A n \in Orderly \ damaged : Exists(n) => file[n].flow # hfrom[h]

\* After a rename no orderly schedule is left with the old name as the request
\* spells it, but those that could not be saved.  A schedule that another request
\* or a callback is about while the rename runs is not orderly.
RenameCarries ==
  \A h \in Handlers : hop[h] = "rename" /\ hpc[h] = "ok" => CarriedOver(h)

\* A job is created for an orderly schedule only if it is enabled, and for the
\* flow that the schedule names.
FiresOnlyEnabled ==
  [][\A b \in Callbacks :
       bpc[b] = "enqueue" /\ bpc'[b] = "save" /\ bname[b] \in Orderly =>
         LET s == file[bname[b]] IN s # None /\ s.enabled /\ s.flow = bval[b].flow]_vars

\* An enabled schedule that stays orderly, and that no request touches any more,
\* triggers again and again.
EnabledFires ==
  \A n \in Names :
    <>[](/\ up = "up" /\ n \in Orderly \ damaged /\ ~Busy(n)
         /\ Exists(n) /\ file[n].enabled)
      => []<>(Triggering(n))

\* A daemon that is told to stop gets past its requests and its callbacks.
StopCompletes == up = "draining" ~> up = "down"

\* openapi.yaml says of DELETE /api/v1/schedules/{name}: "Removes a schedule
\* and stops any pending triggers".  It should not be back with the reply.
DeletedIsGone ==
  \A h \in Handlers : hop[h] = "delete" /\ hpc[h] = "ok" => ~Exists(Trim(hname[h]))

\* openapi.yaml says of POST /api/v1/schedules/{name}/disable: "Disables a schedule
\* so it will no longer trigger jobs".  Its trigger should be gone with the reply.
DisabledIsSilent ==
  \A h \in Handlers :
    hop[h] = "disable" /\ hpc[h] = "ok" => Triggers(Trim(hname[h])) = {}
=============================================================================
