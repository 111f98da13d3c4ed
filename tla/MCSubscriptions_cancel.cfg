SPECIFICATION SubsSpec
CONSTANTS
  Slots = {u1}
  Credentials = {c1, c2}
  Grace = 2
  None = None
PROPERTIES
  CancellationSticks
