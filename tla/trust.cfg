SPECIFICATION TrustSpec
CONSTANTS
  AuthUsers = {1, 2}
  Bootstrap = {1, 2}
  AuthCalls = {1, 2}
  AuthScenes <- Scenes
  AuthDevices = {1}
  AuthJobs = {1}
  AccessTTL = 1
  RefreshTTL = 2
  SessionTTL = 2
  CodeTTL = 1
  DeviceTTL = 2
  DeviceInterval = 1
  LogTokenTTL = 2
  AuthHorizon = 4
  MaxTokens = 6
  KayoProcs = {d1}
  CatalogCalls = {1}
  AurNames = {n1}
  CatalogKeys = {1, 2}
  KayoModes = {"pinned", "tofu", "insecure"}
  MaxTime = 3
  MaxAge = 1
  CatalogTTL = 2
  CacheTTL = 1
  Leeway = 1
  TrustProcs = {t1, t2}
  Accounts = {1, 2}
  MaxCommit = 2
  MaxFaults = 1
  MaxEvents = 4
INVARIANTS
  SessionsHold ApprovalsHold
PROPERTIES CatalogHolds
CHECK_DEADLOCK FALSE
