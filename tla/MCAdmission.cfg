CONSTANTS
  Parts = {"admission", "destroy", "alone"}
  x1 = x1
  x2 = x2
  y1 = y1
  y2 = y2
  z1 = z1
  None = None
  Reconciler = Reconciler
  Handler = Handler
  Attempts = {x1, x2}
  Admissions = {y1, y2}
  EnvironmentOf <- SameEnvironment
  Digests = {g1, g2}
  Deleting = TRUE
SPECIFICATION SuiteSpec
SYMMETRY Symmetry
INVARIANTS CoreAgrees GuardedExecution OneDeploymentPerAdmission
PROPERTIES OutcomeFinal DeletesOnlyDestroyed
