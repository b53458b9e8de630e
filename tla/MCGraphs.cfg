CONSTANTS
  Parts = {"credentials", "resources", "programs", "params", "expressions", "providers", "projection"}
  k1 = k1
  k2 = k2
  v1 = v1
  v2 = v2
  Nil = Nil
  Eks = {e}
  Gke = {g}
  Resources = {"db", "net"}
  Workload = "workload"
  Modules = {"db1", "db2", "net1"}
  NoModule = "none"
  Providers = {"dynamic", "static", "plain"}
  ProviderType <- TypeNames
  ProviderId <- IdNames
  DependsOn <- DatabaseNeedsNetwork
  ProviderOf <- OwnProvider
  RefersTo <- DynamicReadsNetwork
  Modes = {"deploy", "destroy", "plan_only", "rollback"}
  Rules <- EitherDatabase
  MaxDeployments = 3
  TokenLife = 2
  RotatePeriod = 3
  MaxTime = 8
  MaxFaults = 2
SPECIFICATION SuiteSpec
INVARIANTS VerifiableWhileValid ProgramSound
PROPERTIES ResourcesRemembered ConversionsFaithful
