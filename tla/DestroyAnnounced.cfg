CONSTANTS
  Users = {u1}
  RoomIds = {i1, i2}
  Rooms = {r1, r2}
  Requests = {q1, q2}
  Capacity = 2
  Messages = {}
  DistinctIds = FALSE
  MaxStrand = 2
  Chat = Chat
  None = None
SPECIFICATION Spec
INVARIANT DestroyAnnounced
