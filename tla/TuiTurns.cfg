SPECIFICATION MCSpec
CONSTANTS
  Input = {a, b, s}
  Slash = {s}
  None = None
  MaxCalls = 3
  MaxTurns = 2
  MaxHandoffs = 1
  Sample <- MCSample
  LineSize = 2
  Width = {1, 2}
  InitialChunks = 2
  StructuredLines = 4
  MaxRows = 6
  Misdrawn <- MCMisdrawn
  CodeSample <- MCCodeSample
  OtherCode <- MCOtherCode
  Scheme = {dark, light}
  MaxHighlightLines = 4
  MaxActive = 8
  MaxCached = 2
  MaxCacheCharacters = 9
  c1 = c1
  c2 = c2
  Task = {t1, t2}
  AgentTask = {t1}
  Call = {c1, c2}
  NoTask = NoTask
  NoTool = NoTool
  Stories <- MCStories
  MaxEntries = 3
  MaxEntryCharacters = 2
  MaxTaskCharacters = 4
  MaxScopedTurns = 2
  MaxSeen = 3
SYMMETRY Symmetry
CHECK_DEADLOCK FALSE
INVARIANTS
  EachInputOnce
  OnePrimaryTurn
  StrandedOnlyByCommand
  ScreenShowsTheText
  HighlightsAreWhole
  TaskCenterKeepsItsOwn
