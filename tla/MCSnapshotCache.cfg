SPECIFICATION Spec
CONSTANTS
  Pools = {p1, p2}
  NoPool = noPool
  Callers = {c, r}
  Reconciler = r
  Home = {p1, noPool}
  Epochs = 4
  Lag = 1
  Moves = 1
  None = None
INVARIANTS
  AnswersAreRecent
  HitKeepsActive
PROPERTIES
  CursorIsExamined
  PassesFollowTheTip
