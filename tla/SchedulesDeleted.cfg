\* What openapi.yaml says of DELETE, against the code: one schedule, one request
\* at a time, a callback under way.
SPECIFICATION Spec
CONSTANTS
  n1 = n1
  n2 = n2
  n1Blank = n1Blank
  f1 = f1
  f2 = f2
  x1 = x1
  h1 = h1
  h2 = h2
  b1 = b1
  None = None
  Trim <- Stripped
  Names <- OneName
  Watched = n1
  Flows <- OneFlow
  Specs <- OneSpec
  Handlers <- OneHandler
  Callbacks <- OneCallback
  EntryIds = {1, 2}
  Ops = {"create", "update", "delete", "enable", "disable", "rename"}
  Overlap = TRUE
  Faults = {}
  Ends = {}
  MaxEnds = 0
INVARIANTS DeletedIsGone
