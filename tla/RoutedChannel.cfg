CONSTANTS
  Dealers = {d1}
  Router = Router
  HighWater = 1
  MaxSends = 2
SPECIFICATION FairSpec
CHECK_DEADLOCK FALSE
INVARIANTS
  NothingLost
  AnswersRouted
PROPERTIES
  StopReturns
  Delivered
