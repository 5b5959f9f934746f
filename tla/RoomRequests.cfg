CONSTANTS
  Users = {u1, u2}
  RoomIds = {i1, i2}
  Rooms = {r1, r2}
  Requests = {q1, q2, q3}
  Capacity = 2
  Messages = {}
  DistinctIds = TRUE
  MaxStrand = 2
  Chat = Chat
  None = None
SPECIFICATION FairSpec
INVARIANTS
  CancelledHasNoEffect
  AnsweredOnce
  IndexedIsMember
  DestroyAnnounced
PROPERTIES
  
  RequestsFinish
  ShutdownCompletes
  EmptyRoomCloses
