CONSTANTS
  MaxTypeDepth = 3
  Limits = {120}
  NoLimit = NoLimit
  MaxMoveValueDepth = 8
INIT Init
NEXT Next
INVARIANTS
  LayoutMatchesReference
  AmplificationMatchesReference
  BoundMatchesReference
