SPECIFICATION Spec
CONSTANTS
  s1 = s1
  s2 = s2
  u = u
  c1 = c1
  c2 = c2
  tag = tag
  Sessions = {s1, s2}
  Home <- MCHome
  Owner <- MCOwner
  TagsOf <- MCTags
  Aims <- MCAims
  All = All
  MaxJobs = 2
  MaxAttempts = 2
  MaxFaults = 2
  Batch = 2
INVARIANTS
  SentOnce
  LogIsTruthful
PROPERTIES
  VerdictIsEarned
  LeaversAreSpared
  WorkerCatchesUp
