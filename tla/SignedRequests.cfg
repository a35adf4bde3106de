SPECIFICATION SystemSpec
CONSTANTS
  SessionCount = 1
  Signers = {s1}
  Grants <- ServerGrants
  NoValue = NoValue
  Margin = 3
  StartRetry = 4
  Retry = 5
  Tries = 1
  Keys = {1, 2, 3, 4, 5}
  Files <- AllFiles
  Lifetime = 4
  MaxLoads = 2
  Address = a1
  Paths = {"/", "/eth"}
  Skew = 1
  MaxTravel = 1
INVARIANTS
  SystemTypeOK
  SignedAccepted
PROPERTY AcceptedAgain
