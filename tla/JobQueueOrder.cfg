\* Two workers with listings of different age, two concurrent enqueues, a stop
\* of either daemon at any moment.
SPECIFICATION FairSpec
CONSTANTS
  d1 = d1
  d2 = d2
  h1 = h1
  h2 = h2
  MaxJobs = 2
  Daemons <- TwoDaemons
  Handlers <- TwoHandlers
  Home <- HomeOne
  Ops = {"enqueue"}
  Retention <- KeepAll
  Faults = {}
  Ends = {"stop"}
  MaxEnds = 1
INVARIANTS FifoClaim
PROPERTIES EveryJobSettles StopCompletes
