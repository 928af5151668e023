---------------------------- MODULE SchedulesInv ----------------------------
(***************************************************************************)
(* The inductive invariant of Schedules, in the parts that SchedulesProofs *)
(* proves one after the other.  Mapped, AtRest and Renaming hold whatever  *)
(* happens; the others speak of one orderly schedule.                      *)
(***************************************************************************)
EXTENDS Schedules

\* The map only ever points to entries that cron has: an entry that is added
\* cannot be removed before it is in the map.
HasEntry(n, i) == \E e \in cron : e.name = n /\ e.id = i
LiveEntries == \A n \in Names : entries[n] # 0 => HasEntry(n, entries[n])
Mapped ==
  /\ LiveEntries
  /\ \A h \in Handlers : hpc[h] = "map" =>
       /\ HasEntry(Saved(h), hid[h]) /\ entries[Saved(h)] # hid[h]
       /\ \A g \in Handlers \ {h} :
            hpc[g] = "map" /\ Saved(g) = Saved(h) => hid[g] # hid[h]

\* Nothing is under way in a daemon that is down, no request in one that has
\* stopped cron.
AtRest ==
  /\ up \in {"stopping", "down"} => \A h \in Handlers : hpc[h] = "idle"
  /\ up = "down" => \A b \in Callbacks : bpc[b] = "idle"

\* A rename has two names, and rewrites schedules that had the old one.
Renaming ==
  \A h \in Handlers : hop[h] = "rename" =>
    /\ hpc[h] \in {"writeflow", "removeflow", "list", "rewrite"} => hfrom[h] # hto[h]
    /\ hpc[h] = "rewrite" => \A r \in hlist[h] : r.old.flow = hfrom[h]

-----------------------------------------------------------------------------
(* One orderly schedule *)

\* One operation at a time is about the schedule, and calls it by its name.
On(h, n) == hpc[h] # "idle" /\ hop[h] # "rename" /\ hname[h] = n
ApartAt(n) ==
  /\ \A g, h \in Handlers : Concerns(g, n) /\ Concerns(h, n) => g = h
  /\ \A h \in Handlers : Concerns(h, n) => hop[h] = "rename" \/ hname[h] = n
  /\ \A b \in Callbacks : bpc[b] # "idle" /\ Trim(bname[b]) = n => bname[b] = n
  /\ ~(Busy(n) /\ Triggering(n))

\* The three places agree but in the middle of an operation ...
Cleared(n) == entries[n] = 0 /\ Triggers(n) = {}
Settled(n) == Exact(n) \/ (n \in damaged /\ Cleared(n))
Working(h, n) == On(h, n) /\ hpc[h] \in {"save", "addfunc", "map", "remove"}
AgreedAt(n) == up # "down" /\ (\A h \in Handlers : ~Working(h, n)) => Settled(n)

\* ... where the trigger is gone before the file changes, and comes back after.
HalfwayOf(h, n) ==
  /\ hpc[h] \in {"save", "remove", "addfunc"} => Cleared(n)
  /\ hpc[h] \in {"addfunc", "map"} => file[n] = hval[h] /\ hval[h].enabled
  /\ hpc[h] = "map" =>
       /\ entries[n] = 0
       /\ Triggers(n) = {[name |-> n, id |-> hid[h], spec |-> hval[h].spec]}

\* What an operation has found out about its schedule is still true.
InformedOf(h, n) ==
  /\ hop[h] = "create" /\ hpc[h] = "save" => ~Exists(n)
  /\ hop[h] \in {"update", "enable", "disable"} /\ hpc[h] \in {"unmap", "save"} =>
       Exists(n) /\ (hop[h] # "update" => hval[h] = Flipped(file[n]))
OperationAt(h, n) ==
  /\ HalfwayOf(h, n) /\ InformedOf(h, n)
  /\ hpc[h] = "ok" => Accomplished(h)

\* A callback is about an enabled schedule and knows what its file says.
CallbackAt(b, n) ==
  /\ Exists(n) /\ file[n].enabled
  /\ bpc[b] \in {"enqueue", "save"} => bval[b] = file[n]

\* A rename knows whether the schedule still has the old name.
RenameAt(h, n) ==
  /\ hpc[h] = "rewrite" =>
       /\ \A r \in hlist[h] : r.name = n => r.old = file[n]
       /\ (n \notin damaged \/ "write" \notin Faults) /\ Exists(n) /\ file[n].flow = hfrom[h]
            => \E r \in hlist[h] : r.name = n
  /\ hpc[h] = "ok" /\ n \notin damaged => (Exists(n) => file[n].flow # hfrom[h])

InOrder(n) ==
  /\ ApartAt(n) /\ AgreedAt(n)
  /\ \A h \in Handlers : On(h, n) => OperationAt(h, n)
  /\ \A b \in Callbacks : bpc[b] # "idle" /\ bname[b] = n => CallbackAt(b, n)
  /\ \A h \in Handlers : hop[h] = "rename" => RenameAt(h, n)

IInv == TypeOK /\ Mapped /\ AtRest /\ Renaming /\ \A n \in Orderly : InOrder(n)
=============================================================================
