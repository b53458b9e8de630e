CONSTANTS
  Parts = {"requests", "fields", "rollback", "legacy", "waiting"}
  k1 = k1
  k2 = k2
  m1 = m1
  m2 = m2
  x1 = x1
  x2 = x2
  x3 = x3
  y1 = y1
  y2 = y2
  z1 = z1
  None = None
  Calls = {x1, x2, x3}
  WaitingCalls = {x1, x2, x3}
  MaximumWaitersPerHandle = 2
  MaxEvents = 2
  Bodies <- SomeBodies
  NoKey = NoKey
  NoManifest = NoManifest
  NoOne = NoOne
  Promoter = Promoter
  MaxDepth = 2
  MaxDeployments = 2
SPECIFICATION SuiteSpec
SYMMETRY Symmetry
INVARIANTS KeyedOnce WaitersServed
PROPERTIES RollbackLineage
