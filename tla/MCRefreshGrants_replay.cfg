SPECIFICATION Spec
CONSTANTS
  Grants = {g1, g2}
  Credentials = {s1}
  Handlers = {h1, h2}
  None = None
  Dialect = "postgres"
SYMMETRY Interchangeable
PROPERTIES
  ReplayEndsSession
