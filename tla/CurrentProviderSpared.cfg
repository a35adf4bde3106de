SPECIFICATION Spec
CONSTANTS
  Providers = {p1, p2}
  Heights = {1, 2, 3}
  Responses <- Heard
  Undecodable = Undecodable
  ShortString = ShortString
  NoAnswer = NoAnswer
  HCThreshold = 1
  BlockLagLimit = 1
  HistoryLimit = 1
SYMMETRY Symmetry
INVARIANT CurrentProviderSpared
