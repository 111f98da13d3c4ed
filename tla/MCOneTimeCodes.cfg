SPECIFICATION Spec
CONSTANTS
  Nonces = {n1}
  AuthCodes = {a1}
  ActivationCodes = {v1}
  Types = {t1, t2}
  Instances = {i1, i2}
  Consumers = {w1, w2}
  None = None
SYMMETRY Interchangeable
INVARIANTS
  RedeemedOnce
PROPERTIES
  RedeemedRightfully
  RefusalsAreTrue
  OnceSpec
