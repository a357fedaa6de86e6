SPECIFICATION Spec
CONSTANTS
  Threads = {t1, t2, t3}
  Mutexes = {m1}
  Privates = {p1, p2}
  Timeouts = {"forever"}
  BigNumber = 10
  NoPrivate = NoPrivate
  Unhurried = FALSE
SYMMETRY Symmetry
INVARIANTS MutualExclusion
