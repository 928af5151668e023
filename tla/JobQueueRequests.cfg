\* Two requests of any kind while the worker runs the job, the cleanup expires
\* it, and the daemon is stopped and started again.
SPECIFICATION Spec
CONSTANTS
  d1 = d1
  d2 = d2
  h1 = h1
  h2 = h2
  MaxJobs = 1
  Daemons <- OneDaemon
  Handlers <- TwoHandlers
  Home <- HomeOne
  Ops = {"enqueue", "delete", "get", "logs", "list"}
  Retention <- ExpireAll
  Faults = {}
  Ends = {"stop"}
  MaxEnds = 1
SYMMETRY HandlerSymmetry
INVARIANTS CalmInv NoOrphanLog RunningIsHeld NotFoundIsTrue ListMissesNothing
PROPERTIES NoResurrection
