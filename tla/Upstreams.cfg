SPECIFICATION Spec
CONSTANTS
  Providers = {p1, p2, p3}
  Priorities = {0, 1, 3}
  MaxChanges = 2
SYMMETRY Symmetry
INVARIANTS
  TypeOK
  IInv
  PoolEarned
  SteadyServed
  SteadyWarningServed
  QuietCallExact
