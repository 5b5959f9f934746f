CONSTANTS
  Conns = {c1, c2}
  Uids = {u1, u2}
  MaxLogins = 2
  OneUid = TRUE
  None = None
  MaxErrors = 1
SPECIFICATION FairServerSpec
CHECK_DEADLOCK FALSE
INVARIANTS
  
  LatestIsFound
PROPERTIES
  LoginsServed
