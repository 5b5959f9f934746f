CONSTANTS
  Base = 8
  ContentLen = 2
  TypeLen = 2
  MaxPayload = 2
  RoomIds = {3}
  ReadSize = 7
  MaxCommands = 3
  MaxPushes = 1
SPECIFICATION FairSpec
INVARIANTS
  FramesIntact
  ViewsAgree
  RequestsInOrder
PROPERTIES
  ProcessEnds
