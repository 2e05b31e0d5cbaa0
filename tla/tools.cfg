SPECIFICATION ToolsSpec
CONSTANTS
  BuildRuns = {r1, r2}
  Outputs = {o1, o2}
  Manifests = {m1, m2}
  NoRun = NoRun
  BuildPlans <- MCPlans
  BuildResults <- MCResults
  CIPkgs = {1, 2, 3, 4}
  MakeEdges <- MCMake
  RunEdges <- MCRun
  SoLibs <- MCSo
  VcsPkgs = {1}
  Cascades = {"makedepends", "both"}
  MaxUpstream = 2
  MaxFailures = 2
  PlanWorlds <- MCPlanWorlds
  DepLists <- MCLists
  AURWorlds <- MCAUR
  BuildCalls = {b1, b2}
  BuildKinds = {"container", "metadata", "bwrap"}
  PkgFiles = {f1}
  MaxImage = 2
  MaxBuildFaults = 1
  HostConfigs <- MCHosts
  Projects <- MCProjects
  BuildArches = {"x86_64", "aarch64"}
  DefaultTimeout = 5
  Microarches = {"v3"}
  KeyAdmins = {a1, a2}
  MaxKeyId = 4
  MaxKeyTime = 2
  SubkeyTTL = 1
  MaxKeyCommands = 4
  KeyHosts = {h1, h2}
  MaxPairs = 3
  MaxKeyFaults = 2
  MaxSignatures = 2
  Allowlist = TRUE
  q2 = q2
  o1 = o1
  MigrateJobs = {j1, j2}
  PoolPaths = {q1, q2}
  PoolObjs = {o1, o2}
  NoHash = NoHash
  PoolStart <- MCPoolStart
  MaxMigrateUploads = 1
  MaxMigrateFaults = 1
  Replicas = {x1, x2}
  RateLimitOf = 3
  RateWindow = 2
  MaxRateTime = 3
  MaxRequests = 7
  MaxRateFaults = 1
  DepJobs = {"one", "two"}
  AurPkgs = {"lib", "tool", "app"}
  AurNeeds <- MCAurNeeds
  JobNeeds <- MCJobNeeds
  Maintainers = {"", "good", "new"}
  TrustedMaintainers = {"good"}
  TrustedPkgbases = {"lib"}
  AllowUntrusted = FALSE
  MaxDepRetries = 1
  MaxDepFaults = 2
  CISettings <- MCCISettings
  CIRequests <- MCRequests
  CITargets = {"core", "extra"}
  KVKeys = {e1, e2, e3}
  KVCallers = {c1, c2}
  KVKinds = {"badger", "sql", "cf"}
  KVTTLs = {0, 1}
  CfMinTTL = 1
  BulkChunk = 2
  MaxKVTime = 1
  MaxKVWrites = 2
  MaxKVFaults = 1
INVARIANTS
  RunsHold DecisionsHold BackendHolds WorkerKeysHold DependenciesHold AccessHolds SharedStoresHold MigrationHolds
PROPERTIES PlanHolds LoopHolds KeyHolds
CHECK_DEADLOCK FALSE
