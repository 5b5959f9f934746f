CONSTANTS
  Topics = {t1}
  TopicPrefixes = {{t1}}
  HighWater = 1
  MaxEvents = 2
  MaxCalls = 2
  MaxStarts = 4
SPECIFICATION FairSpec
CHECK_DEADLOCK FALSE
INVARIANTS
  HeardInOrder
PROPERTIES
  SubscriptionsPropagate
  ExpectedIsHeard
