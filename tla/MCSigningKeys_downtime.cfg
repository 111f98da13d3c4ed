SPECIFICATION Spec
CONSTANTS
  MaxKeys = 2
  Handlers = {h1, h2}
SYMMETRY Interchangeable
INVARIANTS
  AlwaysASigner
