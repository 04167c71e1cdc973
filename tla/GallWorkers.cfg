SPECIFICATION WorkersSpec
CONSTANTS
  w1 = w1
  w2 = w2
  e1 = e1
  e2 = e2
  Worker = {w1, w2}
  Epoch = {e1, e2}
  EpochOf <- MCEpochOf
  Dir <- MCDir
  CwdOf <- MCCwdOf
  Realpath <- MCRealpath
  Key <- MCLegacyKey
  KeyOf <- MCLegacyKeyOf
  TTL = 2
  HeartbeatSeconds = 1
  Overlap = TRUE
  MaxClock = 2
  MaxFailures = 1
  MaxCrashes = 1
CHECK_DEADLOCK FALSE
INVARIANTS
  ReceiptMeansTerminal
  ClosedLeavesNoGate
  ArmedWhenAlone
  NoOrphanWithoutFailure
PROPERTIES
  ReconcileKeepsOwnLease
  EveryDispatchConcludes
