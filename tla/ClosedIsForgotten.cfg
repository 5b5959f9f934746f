CONSTANTS
  Conns = {c1}
  Uids = {u1}
  MaxLogins = 1
  OneUid = TRUE
  None = None
SPECIFICATION Spec
INVARIANT ClosedIsForgotten
