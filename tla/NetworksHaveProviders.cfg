SPECIFICATION Spec
CONSTANTS
  Files <- AllFiles
  DefaultInterval = 5
  NoAuth = NoAuth
  NoValue = NoValue
  MaxLoads = 3
  h1 = h1
  h2 = h2
INVARIANT NetworksHaveProviders
CHECK_DEADLOCK FALSE
