SPECIFICATION GrowingSpec
CONSTANTS
  Providers = {p1, p2}
  Heights = {3, 5}
  Responses <- LiveResponses
  Undecodable = Undecodable
  ShortString = ShortString
  NoAnswer = NoAnswer
  HCThreshold = 0
  BlockLagLimit = 1
  HistoryLimit = 1
PROPERTIES
  RoundsEnd
  CaughtUpRecovers
  DeadDemoted
