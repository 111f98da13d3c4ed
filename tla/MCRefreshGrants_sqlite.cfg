SPECIFICATION Spec
CONSTANTS
  Grants = {g1, g2}
  Credentials = {s1}
  Handlers = {h1, h2, h3}
  None = None
  Dialect = "sqlite"
PROPERTIES
  CascadeComplete
  RequestsAnswered
