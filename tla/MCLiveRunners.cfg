CONSTANTS
  Parts = {"agent", "ecs", "results", "lifecycle", "credentials", "kubernetes", "observations"}
  c1 = c1
  c2 = c2
  w1 = w1
  w2 = w2
  d1 = d1
  d2 = d2
  r1 = r1
  k1 = k1
  Nobody = Nobody
SPECIFICATION FairSpec
PROPERTIES RunnersServed ShutdownOrderly
