SPECIFICATION FairSpec
CONSTANTS
  Threads = {t1, t2}
  Mutexes = {m1}
  Privates = {p1, p2, p3}
  Timeouts = {"forever", "positive", "zero"}
  BigNumber = 10
  NoPrivate = NoPrivate
  Unhurried = FALSE
PROPERTIES ImplementsLock Progress
