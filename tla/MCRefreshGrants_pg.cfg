SPECIFICATION Spec
CONSTANTS
  Grants = {g1, g2, g3}
  Credentials = {s1}
  Handlers = {h1, h2, h3}
  None = None
  Dialect = "postgres"
SYMMETRY Interchangeable
INVARIANTS
  OneLiveGrant
  SpentHasSuccessor
  TheftResponseComplete
  OnlyCascadesDeadlock
PROPERTIES
  ChainSpec
