SPECIFICATION LiveSpec
CONSTANTS
  SessionCount = 1
  Signers = {s1, s2}
  Grants <- AllGrants
  NoValue = NoValue
  Margin = 1
  StartRetry = 3
  Retry = 4
  Tries = 1
INVARIANTS
  TypeOK
  NeverAbandoned
  NeverLapses
  UsesRespected
  BareEarned
PROPERTY SessionReturns
