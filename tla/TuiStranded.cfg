SPECIFICATION Spec
CONSTANTS
  Input = {a, b, s}
  Slash = {s}
  None = None
  MaxCalls = 3
  MaxTurns = 2
  MaxHandoffs = 0
SYMMETRY Symmetry
CHECK_DEADLOCK FALSE
INVARIANTS
  NothingStranded
