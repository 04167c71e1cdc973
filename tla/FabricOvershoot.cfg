SPECIFICATION FabricSpec
CONSTANTS
  Call = {k1, k2, k3, k4, k5}
  Limit = 2
  MaxAttempts = 1
  Barging = TRUE
SYMMETRY Symmetry
CHECK_DEADLOCK FALSE
INVARIANTS
  WithinLimit
