\* Two requests on two flows and the jobs of the flows, with and without
\* authentication, calls that fail and a crash.
SPECIFICATION Spec
CONSTANTS
  n1 = n1
  n2 = n2
  c1 = c1
  c2 = c2
  k1 = k1
  k2 = k2
  h1 = h1
  h2 = h2
  None = None
  NoKey = NoKey
  NoName = NoName
  Names <- TwoNames
  Contents <- TwoContents
  Keys <- TwoKeys
  Handlers <- TwoHandlers
  Configs <- SomeConfigs
  Ops = {"getFlow", "addFlow", "deleteFlow", "renameFlow", "enqueue"}
  Faults = {"write", "remove"}
  OpsAfter = {"deleteFlow"}
SYMMETRY Symmetry
INVARIANTS IInv WholeFlows FailsCleanly SucceedsTruly JobFindsFlow OnlyEntitled
PROPERTIES NothingVanishes

