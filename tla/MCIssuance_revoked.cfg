SPECIFICATION Spec
CONSTANTS
  Members = {m1}
  Codes = {c1}
  Issues = {i1, i2}
  Handlers = {h1, h2}
  None = None
SYMMETRY Interchangeable
INVARIANTS
  RevokedMemberHoldsNothing
