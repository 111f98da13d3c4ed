SPECIFICATION ConfigSpec
CONSTANTS
  p1 = p1
  p2 = p2
  mainnet = mainnet
  preprod = preprod
  Pools = {p1, p2}
  NoPool = noPool
  Admins = {a1}
  Evals = {e1}
  MaxIds = 2
  First <- MCFirst
  Params <- MCParams
  Networks = {mainnet, preprod}
  Rules <- MCRules
  Moves = 1
  Accounts0 <- MCAccounts0
  None = None
INVARIANTS
  VerdictsAreDeserved
PROPERTIES
  DeletedStaysDeleted
