CONSTANTS
  Bytes = {0, 1, 2, 3, 128, 160, 194, 224}
  MaxBytes = 4
  MaxDepth = 2
INIT Init
NEXT Next
INVARIANTS
  ValidateMatchesReference
