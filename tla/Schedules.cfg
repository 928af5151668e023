\* A request at a time and a cron callback that overlap on a schedule, which both may
\* call by a name with blanks; calls that fail, a stop or a crash.
SPECIFICATION Spec
CONSTANTS
  n1 = n1
  n2 = n2
  n1Blank = n1Blank
  f1 = f1
  f2 = f2
  x1 = x1
  h1 = h1
  h2 = h2
  b1 = b1
  None = None
  Trim <- Stripped
  Names <- BlankName
  Watched = n1
  Flows <- TwoFlows
  Specs <- OneSpec
  Handlers <- OneHandler
  Callbacks <- OneCallback
  EntryIds = {1, 2}
  Ops = {"create", "update", "delete", "enable", "disable", "rename"}
  Overlap = TRUE
  Faults = {"write", "remove"}
  Ends = {"stop", "crash"}
  MaxEnds = 1
INVARIANTS IInv ReplyIsTrue RenameCarries
PROPERTIES FiresOnlyEnabled ImplementsBook
