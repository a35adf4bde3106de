SPECIFICATION LiveSpec
CONSTANTS
  Files <- AllFiles
  DefaultInterval = 5
  NoAuth = NoAuth
  NoValue = NoValue
  MaxLoads = 4
  h1 = h1
  h2 = h2
INVARIANTS
  TypeOK
  ServedAsWritten
  ServedReady
PROPERTY LoadEnds
CHECK_DEADLOCK FALSE
