CONSTANTS
  Addrs <- MCAddrs
  Original <- MCOriginal
  TypeOrigin <- MCTypeOrigin
  Keys <- MCKeys
  Arity <- MCArity
  Prims = {"U8", "Address"}
  MaxTypeDepth = 1
  MaxTypeArgs = 2
INIT Init
NEXT Next
INVARIANTS
  TypeIdentitySurvivesUpgrades
  ErrorNamesFirstBadArgument
