SPECIFICATION Spec
CONSTANTS
  MaxKeys = 3
  Handlers = {h1, h2, h3}
SYMMETRY Interchangeable
INVARIANTS
  LiveTokensVerify
  SignerUnlessCut
PROPERTIES
  JWKSComplete
