SPECIFICATION MCSpec
CONSTANTS
  Process = {p1, p2}
  Provider = {q1}
  MaxKills = 1
  MaxEdits = 1
  Subject = {s1, s2}
  Operation = {a1, a2}
  Standing = {alive, unknown}
  Neutral = unknown
  MaxEntries = 4
  Recorder = {r1, r2}
  Session = {z1}
  ConcurrentRuns = FALSE
  MaxLines = 2
  Tool = {a, b, c}
  Grouped = {b, c}
  Message = {m}
  NoTool = noTool
  NoMessage = noMessage
  NoGroup = noGroup
  MaxGroups = 2
  MaxPending = 1
  BlockId = {1, 2, 3, 4}
  MessageTag = {m}
  Untagged = none
  RenderWindow = 2
  WindowStep = 0
  MaxRetained = 3
  MaxCharacters = 1
  Length = {1}
  Pages = 2
  Drifts <- MCDrifts
  Releases <- MCReleases
  MaxTui = 2
SYMMETRY Interchangeable
CHECK_DEADLOCK FALSE
INVARIANTS
  OnlyTheChainVerifies
  RecordIsTrue
  ToolsFormATree
  PatchedRuntimeIsTrue
PROPERTIES
  ImportedOnce
  TranscriptKeepsItsPlace
  OneRuntimeShips
