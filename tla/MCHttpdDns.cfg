CONSTANTS
  Chunks = {r1, r2}
  Tasks = {"t1", "t2", "t3"}
  Names = {"n1", "n2"}
  COUNTOF_reqs = 2
  SEQ_RANGE_SIZE = 3
  RetryLimits = {1}
  PeerName <- MCPeerName
  QueryFlags <- MCQueryFlags
SPECIFICATION Spec
INVARIANTS
  TableIsSound
  WaitersArePending
  AnswersFitNames
PROPERTY
  ImplementsCallbacks
