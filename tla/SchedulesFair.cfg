\* Two requests on two schedules and a cron callback, one at a time on each schedule,
\* under fairness: triggers keep coming and a stop comes to its end.
SPECIFICATION FairSpec
CONSTANTS
  n1 = n1
  n2 = n2
  n1Blank = n1Blank
  f1 = f1
  f2 = f2
  x1 = x1
  h1 = h1
  h2 = h2
  b1 = b1
  None = None
  Trim <- Stripped
  Names <- TwoNames
  Watched = n1
  Flows <- OneFlow
  Specs <- OneSpec
  Handlers <- TwoHandlers
  Callbacks <- OneCallback
  EntryIds = {1, 2}
  Ops = {"create", "update", "delete", "enable", "disable"}
  Overlap = FALSE
  Faults = {"write", "remove"}
  Ends = {"stop", "crash"}
  MaxEnds = 1
INVARIANTS Triggered
PROPERTIES EnabledFires StopCompletes
