SPECIFICATION Spec
CONSTANTS
  w1 = w1
  w2 = w2
  e1 = e1
  e2 = e2
  Worker = {w1, w2}
  Epoch = {e1, e2}
  EpochOf <- MCEpochOf
  Dir <- MCDir
  CwdOf <- MCCwdOf
  Realpath <- MCRealpath
  Key <- MCEpochKey
  KeyOf <- MCEpochKeyOf
  TTL = 3
  HeartbeatSeconds = 1
  Overlap = TRUE
  MaxClock = 3
  MaxFailures = 0
  MaxCrashes = 0
CHECK_DEADLOCK FALSE
INVARIANTS
  TurnReadsItsOwnOrder
