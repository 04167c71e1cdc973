SPECIFICATION MCSpec
CONSTANTS
  c1 = c1
  c2 = c2
  c3 = c3
  i1 = i1
  i2 = i2
  None = None
  Proc = {p1, p2}
  Envelope <- MCEnvelope
  Overlap = TRUE
  Stalls = FALSE
  WritesFail = TRUE
  MaxCrashes = 1
  Call = {k1, k2, k3, k4}
  Limit = 2
  MaxAttempts = 3
  Barging = FALSE
  MaxLiveLines = 3
  MaxLiveCharacters = 5
  MaxToolCharacters = 5
  MarkerReserve = 1
  CompactAt = 2
  MaxText = 9
  MaxDelta = 3
  ToolCall = {t1, t2}
  Reports <- MCReports
  Budget <- MCBudget
  MaxMetadata = 2
  MaxKeptTurns = 1
  MaxDiffTurns = 2
CHECK_DEADLOCK FALSE
INVARIANTS
  MutualExclusion
  StateFileLoads
  ExecutedIsAcknowledged
  WithinLimit
  KeptIsTheText
  RetainedDiffsAreHonest
PROPERTIES
  ImplementsLog
  PendingIsAcknowledgedAlone
  NoOvertaking
  EveryCallEnds
