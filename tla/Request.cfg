SPECIFICATION LiveSpec
CONSTANTS
  Providers = {p1, p2}
  Priorities = {0, 1}
  MaxChanges = 1
  AttemptCounts = {0, 3}
  NoProvider = NoProvider
INVARIANTS
  TypeOK
  ReplyFromLastAttempt
  RetriesJustified
  ForemostPreventsAbort
PROPERTIES
  WholeBodySent
  RequestEnds
