\* What openapi.yaml says of disable, against the code: one request at a time, no
\* callback, no failure; the name in the path may have blanks.
SPECIFICATION Spec
CONSTANTS
  n1 = n1
  n2 = n2
  n1Blank = n1Blank
  f1 = f1
  f2 = f2
  x1 = x1
  h1 = h1
  h2 = h2
  b1 = b1
  None = None
  Trim <- Stripped
  Names <- BlankName
  Watched = n1
  Flows <- OneFlow
  Specs <- OneSpec
  Handlers <- OneHandler
  Callbacks <- NoCallback
  EntryIds = {1, 2}
  Ops = {"create", "update", "delete", "enable", "disable"}
  Overlap = TRUE
  Faults = {}
  Ends = {}
  MaxEnds = 0
INVARIANTS DisabledIsSilent
