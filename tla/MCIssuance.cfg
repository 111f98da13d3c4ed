SPECIFICATION Spec
CONSTANTS
  Members = {m1}
  Codes = {c1}
  Issues = {i1, i2, i3}
  Handlers = {h1, h2, h3}
  None = None
SYMMETRY Interchangeable
INVARIANTS
  OnlyMembersServed
  NothingSpentTwice
  OnlyOvertakenSurvive
