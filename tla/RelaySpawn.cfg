SPECIFICATION Spec
CONSTANTS
  c1 = c1
  c2 = c2
  c3 = c3
  i1 = i1
  i2 = i2
  None = None
  Proc = {p1, p2}
  Envelope <- MCInOrder
  Overlap = TRUE
  Stalls = FALSE
  WritesFail = FALSE
  MaxCrashes = 0
CHECK_DEADLOCK FALSE
PROPERTIES
  AcknowledgedNeverSpawns
