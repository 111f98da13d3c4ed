SPECIFICATION Spec
CONSTANTS
  Instances = {i1}
  Workers = {k1, k2}
  MaxStamp = 2
  MaxUpdates = 2
  None = None
INVARIANTS
  NeverRunTwice
  ForgottenWasHandled
  OrphansAreLate
CHECK_DEADLOCK FALSE
PROPERTIES
  TableIsFollowed
  UpdatesAreServed
