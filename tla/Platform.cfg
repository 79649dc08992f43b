CONSTANTS
  ann = ann
  ben = ben
  k1 = k1
  k2 = k2
  b1 = b1
  b2 = b2
  s1 = s1
  t1 = t1
  d1 = d1
  d2 = d2
  x = x
  y = y
  Drafts <- FourDrafts
  Mixes <- SomeMixes
  FamilyOf <- Families
  CoinWorth <- TwoCoins
  Worth = 1
  BaseFee = 1
  MaxRetries = 1
  MaxFaults = 2
  Jobs <- TwoJobs
  None = NoTx
  MaxGas = 2
  MaxBnbRetries = 1
  MaxBnbFaults = 1
  Users = {ann, ben}
  Keys = {x, y}
  Embedded <- EmbeddedKey
  NoOne = NoOne
  Calls = {k1, k2}
  MaxExternal = 1
  Tabs = {k1, k2}
  MaxSessions = 2
  MaxSecrets = 3
  MaxLost = 1
SPECIFICATION PlatformSpec
INVARIANTS SignedIsPaidFor AccountsAreTheirs
PROPERTIES  SignedSettles 
CHECK_DEADLOCK FALSE
