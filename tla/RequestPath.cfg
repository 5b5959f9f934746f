CONSTANTS
  Ids = {a}
  NoId = NoId
  Timeout = 1
  MaxTime = 2
  MaxClock = 2
  MaxBoots = 2
  Keys <- PathKeys
  Tickets <- PathKeys
  Capacity = 1
  Retention = 1
  MaxDelay = 1
SPECIFICATION FairSpec
CHECK_DEADLOCK FALSE
INVARIANTS
  ReachableUntilFinished
  OneFate
  RejoinRefreshes
  CancelPrevails
PROPERTIES
  
  RefinesPromise
  EveryRequestEnds
