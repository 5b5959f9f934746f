CONSTANTS
  Workers = {w1}
  Io = Io
  Sizes = {1, 2}
  Limit = 2
  MaxSends = 2
  MaxReads = 1
SPECIFICATION FairSpec
INVARIANTS
  BytesAccounted
  ClosedOnce
  OneWriteAtATime
  WrittenInOrder
PROPERTIES
  StopCloses
