CONSTANTS
  Chunks = {r1, r2, r3}
  Tasks = {"t1", "t2", "t3"}
  Names = {"u1", "u2"}
  COUNTOF_reqs = 3
  SEQ_RANGE_SIZE = 4
  RetryLimits = {1}
  urlsum <- MCurlsum
  UrlOf <- MCUrlOf
SPECIFICATION Spec
INVARIANTS
  TableIsSound
  WaitersArePending
  AnswersFitUrls
PROPERTY
  ImplementsCallbacks
