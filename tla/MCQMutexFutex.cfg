SPECIFICATION FairSpec
CONSTANTS
  Threads = {t1, t2, t3}
  Timeouts = {"forever", "zero", "positive", "negative"}
INVARIANTS MutualExclusion WordIsTruthful NoLostWakeup
PROPERTIES ImplementsLock Progress TimedCallsReturn
