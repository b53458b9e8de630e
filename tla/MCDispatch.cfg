CONSTANTS
  Parts = {"dispatch", "redelivery", "kubernetes", "ecs", "transport", "selection", "restriction", "provenance"}
  d1 = d1
  d2 = d2
  r1 = r1
  x1 = x1
  x2 = x2
  Deployments = {d1, d2}
  Runners = {r1}
  RunnerOf <- SharedRunner
  Kind <- OnKubernetes
  Limit <- OneSlot
  Mode <- DeployAndPlan
  Workers = {x1, x2}
  Window = 1
  MaxDeliveries = 1
  Nobody = Nobody
  Resources = {"a", "b"}
  Published = {"v1", "v2"}
  Snapshots = {"test", "foreign"}
  ModuleOf <- OneModule
  CapturedIn <- Captured
  Here = "here"
  Inline = {"v1", "test"}
  Statuses = {"default"}
  Manifests = {{}, {"a", "b"}}
  Confirmations = {{}, {"v1"}}
  WrongRules = {{}, {"a", "b"}}
  MaxDeployments = 2
  None = None
SPECIFICATION SuiteSpec
SYMMETRY Handlers
INVARIANTS DispatchSafe RunsWhatWasAsked
PROPERTIES BackEndsTruthful
