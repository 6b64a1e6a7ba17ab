CONSTANTS
  Mode = "Normal"
  BanEntryInit = TRUE
  InputTable <- MCInputTable
  InputMutable <- MCInputMutable
  Callees <- MCCallees
  MaxCommands = 3
  MaxArgs = 2
  MaxU64 = 2
  FirstFreshId = 10
  RetPayload = 1
  StoredPackages <- MCStoredPackages
  UpgradeTargets = {}
  ModuleSets <- MCModuleSets
  DigestOf <- MCDigestOf
  KnownPolicies = {0, 128, 192}
  DepOnlyPolicy = 192
  DisallowNewModules = TRUE
  InitModules = {"m1"}
  MaxInitObjects = 1
INIT Init
NEXT Next
CHECK_DEADLOCK FALSE
INVARIANTS
  PrivateEntryNeverGetsNonEntryValue
