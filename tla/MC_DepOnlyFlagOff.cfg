CONSTANTS
  Mode = "Normal"
  BanEntryInit = TRUE
  InputTable <- UpInputTable
  InputMutable <- UpInputMutable
  Callees <- UpCallees
  MaxCommands = 3
  MaxArgs = 3
  MaxU64 = 2
  FirstFreshId = 10
  RetPayload = 1
  StoredPackages <- UpStoredPackages
  UpgradeTargets = {100, 101}
  ModuleSets <- UpModuleSets
  DigestOf <- UpDigestOf
  KnownPolicies = {0, 128, 192}
  DepOnlyPolicy = 192
  DisallowNewModules = FALSE
  InitModules = {"m2"}
  MaxInitObjects = 1
INIT Init
NEXT Next
CHECK_DEADLOCK FALSE
INVARIANTS
  PolicyRespected
