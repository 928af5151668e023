\* What GetJob's comment says, against the code: one worker, no fault.
SPECIFICATION Spec
CONSTANTS
  d1 = d1
  d2 = d2
  h1 = h1
  h2 = h2
  MaxJobs = 1
  Daemons <- OneDaemon
  Handlers <- OneHandler
  Home <- HomeOne
  Ops = {"enqueue", "get"}
  Retention <- KeepAll
  Faults = {}
  Ends = {}
  MaxEnds = 0
INVARIANTS GetNeverFails
