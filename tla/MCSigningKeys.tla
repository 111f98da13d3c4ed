--------------------------- MODULE MCSigningKeys ---------------------------
EXTENDS SigningKeys, TLC

Interchangeable == Permutations(Handlers)
============================================================================
