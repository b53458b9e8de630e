CONSTANTS
  Parts = {"consumer", "proof", "outcome", "deployments", "environments", "queue items", "metadata", "key update"}
  c = c
  u = u
  x = x
  x1 = x1
  x2 = x2
  op = op
  ord = ord
  obs = obs
  Nobody = Nobody
  Events = {c, u, x}
  Kind <- EventKind
  Workers = {x1, x2}
  MaxDeliver = 2
  Nothing = Nothing
SPECIFICATION SuiteSpec
SYMMETRY Replicas
INVARIANTS AcknowledgedIsHandled PromotedAfterSettlement
PROPERTIES ResultsKept ListingsTrue
