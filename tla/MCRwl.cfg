CONSTANTS
  Threads = {t1, t2, t3, t4}
  PREFER_WRITER = FALSE
  TimedReaders = TRUE
  TimedWriters = TRUE
SPECIFICATION FairSpec
INVARIANTS
  CountsMatch
  WriterIsAlone
  NoReaderSleepsInVain
  NoWriterForgotten
PROPERTY
  WaitersAreServed
