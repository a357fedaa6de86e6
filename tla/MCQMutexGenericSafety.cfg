SPECIFICATION Spec
CONSTANTS
  Threads = {t1, t2, t3}
  Mutexes = {m1, m2}
  Privates = {p1, p2}
  Timeouts = {"forever", "positive"}
  BigNumber = 10
  NoPrivate = NoPrivate
  Unhurried = TRUE
SYMMETRY Symmetry
INVARIANTS TypeOK MutualExclusion BooksSound NoLostWakeup
