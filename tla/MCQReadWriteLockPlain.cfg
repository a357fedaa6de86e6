SPECIFICATION Spec
CONSTANTS
  Threads = {t1, t2, t3}
  Readers = {t1, t2, t3}
  Writers = {t1, t2, t3}
  TimedReaders = {t1, t2, t3}
  TimedWriters = {t1, t2, t3}
  TryLocks = TRUE
  Recursive = FALSE
  MaxDepth = 1
  SpuriousWakeups = TRUE
INVARIANTS BooksExact WaitersExact
PROPERTIES ImplementsReadWrite
