SPECIFICATION Spec
CONSTANTS
  Providers = {p1, p2}
  Heights = {1, 3, 4}
  Responses <- AllResponses
  Undecodable = Undecodable
  ShortString = ShortString
  NoAnswer = NoAnswer
  HCThreshold = 1
  BlockLagLimit = 1
  HistoryLimit = 1
SYMMETRY Symmetry
INVARIANTS
  TypeOK
  IInv
  UnhealthyEarned
  OneMetricPerCheck
  LaggingDemoted
  LatestAdvances
  HistoryHeadFresh
PROPERTIES
  OnlyOwnReportPromotes
