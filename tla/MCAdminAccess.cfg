SPECIFICATION Spec
CONSTANTS
  Keys = {o, p}
  Owners = {o}
  Operators = {p}
  Requests = {r1, r2}
  Nonces = {n1, n2, n3, n4}
  Tokens = {t1, t2}
  AdminIds = {i1, i2}
  Clients = {c1}
  Secrets = {s1, s2}
  None = None
SYMMETRY Symmetry
CHECK_DEADLOCK FALSE
INVARIANTS
  SignaturesPayOnce
  SessionsResolve
