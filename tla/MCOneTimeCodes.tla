--------------------------- MODULE MCOneTimeCodes ---------------------------
EXTENDS OneTimeCodes, TLC

Interchangeable ==
  Permutations(Consumers) \cup Permutations(Instances)
=============================================================================
