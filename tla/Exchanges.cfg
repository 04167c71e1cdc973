SPECIFICATION MCSpec
CONSTANTS
  u1 = u1
  d1 = d1
  d2 = d2
  d3 = d3
  Login = {l1, l2}
  NoLogin = nobody
  UserHandler = {u1, u2}
  Overlap = FALSE
  QuietFailure = FALSE
  MaxFailures = 1
  MaxCrashes = 1
  MaxChoices = 1
  Stubborn = TRUE
  Lingers = FALSE
  Request = {d1, d2, d3}
  KindOf <- MCKindOf
  Signalled = {d1, d2}
  QuestionCount = 2
  MultiSelect = {2}
  Option = {o1}
  Custom = custom
  Job = {j1}
  MaxTurns = 1
  MaxChanges = 1
  p1 = p1
  p2 = p2
  t1 = t1
  t2 = t2
  TextPart = {p1, p2}
  ThoughtPart = {t1, t2}
  MessageOf <- MCMessageOf
  None = None
  MaxTokens = 4
  MaxTextTurns = 1
CHECK_DEADLOCK FALSE
INVARIANTS
  SaidIsShownOnce
PROPERTIES
  HandlerComesBack
  NothingUnasked
  ApprovalsAreGenuine
  AnsweredOrAbortedSettles
  AbortDrainsTheLine
  ViewCatchesUp
