SPECIFICATION FairSpec
CONSTANTS
  Threads = {r1, r2, w1}
  Readers = {r1, r2, w1}
  Writers = {w1}
  TimedReaders = {r1, r2}
  TimedWriters = {}
  TryLocks = FALSE
  Recursive = TRUE
  MaxDepth = 2
  SpuriousWakeups = TRUE
INVARIANTS HoldersKnown
PROPERTIES Progress WriterServed
