\* Two workers compete for two jobs; a daemon may crash at any step, writes may
\* fail, and the cleanup of one daemon expires failed jobs.
SPECIFICATION Spec
CONSTANTS
  d1 = d1
  d2 = d2
  h1 = h1
  h2 = h2
  MaxJobs = 2
  Daemons <- TwoDaemons
  Handlers <- OneHandler
  Home <- HomeOne
  Ops = {"enqueue"}
  Retention <- ExpireFailedAtOne
  Faults = {"write"}
  Ends = {"crash"}
  MaxEnds = 1
INVARIANTS TypeOK IInv ExclusiveExecution OneVerdict DoneHasLog
PROPERTIES AtMostOnce ImplementsLifecycle
