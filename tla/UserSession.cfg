CONSTANTS
  Jobs = {j1, j2}
  StopJob = StopJob
  Kinds = {"room", "logout", "forward", "deliver", "unknown"}
  Timeout = 1
  MaxTime = 2
  NoId = NoId
  MaxPosts = 2
SPECIFICATION FairSpec
INVARIANTS
  JobsSerialized
  AnsweredOnce
  CancelMatchesAnswer
PROPERTIES
  JobsEnd
