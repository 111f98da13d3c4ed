SPECIFICATION Spec
CONSTANTS
  Pools = {p1, p2}
  NoPool = noPool
  Callers = {c, r}
  Reconciler = r
  Home = {p1, noPool}
  Epochs = 3
  Lag = 1
  Moves = 2
  None = None
INVARIANTS
  PendingIsRecomputed
