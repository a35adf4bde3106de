SPECIFICATION Spec
CONSTANTS
  Providers = {p1, p2, p3}
  Heights = {1, 3}
  Responses <- Heard
  Undecodable = Undecodable
  ShortString = ShortString
  NoAnswer = NoAnswer
  HCThreshold = 0
  BlockLagLimit = 1
  HistoryLimit = 2
SYMMETRY Symmetry
INVARIANTS
  LatestFromRound
  FrontRunnerHealthy
PROPERTIES
  HeadSpec
