SPECIFICATION Spec
CONSTANTS
  SessionCount = 1
  Signers = {s1, s2}
  Grants <- PlainGrants
  NoValue = NoValue
  Margin = 1
  StartRetry = 3
  Retry = 4
  Tries = 1
INVARIANT SignAddsHeaders
