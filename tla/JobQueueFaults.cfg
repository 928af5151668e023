\* Everything that touches a file may fail, with deletes, cleanup and a crash.
SPECIFICATION Spec
CONSTANTS
  d1 = d1
  d2 = d2
  h1 = h1
  h2 = h2
  MaxJobs = 1
  Daemons <- OneDaemon
  Handlers <- TwoHandlers
  Home <- HomeOne
  Ops = {"enqueue", "delete"}
  Retention <- ExpireDone
  Faults = {"write", "remove"}
  Ends = {"crash"}
  MaxEnds = 1
SYMMETRY HandlerSymmetry
INVARIANTS NoJobLost
