\* Flows run one at a time or twice in one state directory, with tools that are
\* downloaded, scripts that fail, runs that are cancelled and a process that dies.
SPECIFICATION FairSpec
CONSTANTS
  r1 = r1
  r2 = r2
  d1 = d1
  u1 = u1
  u2 = u2
  z1 = z1
  p1 = p1
  p2 = p2
  cc = cc
  jq = jq
  build = build
  use = use
  v = v
  g = g
  k = k
  e1 = e1
  e2 = e2
  f1 = f1
  None = None
  EnvValue <- SomeEnv
  FileValue <- SomeFiles
  ArchiveURLs <- JustZ1
  EscapingPaths <- JustP2
  Runs <- TwoRuns
  StateDirs <- OneDir
  ToolNames <- TwoTools
  OnPath <- JustJq
  HasEntry <- JustZ1
  Faults = {"net", "other", "write", "mkdir"}
  FlowFile <- SomeFlows
  Declared <- SomeDeclared
  First <- OneRun
  Together <- SomeTogether
  StepNames = {build, use}
  Paths = {p1, p2}
  Values <- SomeValues
INVARIANTS IInv AcceptedResolves RendersAsWritten OutputsOfThisRun ToolsReady LeavesNothing
PROPERTIES RunEnds CancelEnds
