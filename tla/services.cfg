SPECIFICATION ServicesSpec
CONSTANTS
  Clients = {c1, c2}
  MaxIssues = 3
  MaxCommands = 3
  ReadAttempts = 2
  MaxLost = 1
  NoClient = NoClient
  DefaultPackageBytes = 2
  MaxSignatureBytes = 1
  OverheadBytes = 1
  DefaultBatchPackages = 2
  DefaultBatchBytes = 4
  UploadSettings <- MCSettings
  UploadForms <- MCForms
  Uploaders = {u1, u2}
  Handlers = {h1, h2}
  Batches <- MCBatches
  MaxIntents = 2
  MaxStagedTime = 2
  MaxLoss = 1
  StagedTTL = 1
  GCCutoff = 2
  Junk = Junk
  TierArches = {x1, x2}
  Promoters = {p1, p2}
  MaxVersion = 2
  MaxPromotions = 2
  TierLeases = FALSE
  KeepInSource = FALSE
  MaxTierFaults = 1
  LocalPkgs = {k1, k2}
  Publishers = {w1, w2}
  Syncers = {s1}
  MaxMirror = 2
  UpstreamAttempts = 2
  MaxLocalChanges = 2
  MaxUpstreamFaults = 1
  Servers = {1, 2}
  NoProc = NoProc
  LogReaders = {r1, r2}
  MaxLogReaders = 1
  LogCap = 3
  MarkerLen = 1
  MaxWrites = 2
  BuildClients = {b1}
  ClientModes = {"sign", "place", "repo"}
  BuiltNames = {n1, n2}
  WantedNames = {n1, n3}
  MaxStreamFaults = 1
INVARIANTS
  SignInHolds DoorsHold StagingHolds LayeringHolds StreamHolds RemovedIsUnlisted
PROPERTIES TiersHold
CHECK_DEADLOCK FALSE
