SPECIFICATION Spec
CONSTANTS
  PoolThreads = {p1, p2, p3}
  Clients = {c1, c2}
  Tasks = {a, b}
  AutoDelete = {a}
  Priorities = {0}
  MaxCounts = {2}
  FirstMaxCount = 2
  MaxStarts = 2
  MaxReserved = 0
  Stealing = FALSE
  Expiry = TRUE
  TimedClients = TRUE
  SpuriousWakeups = FALSE
  PromptEnd = FALSE
  QuietReset = TRUE
CHECK_DEADLOCK FALSE
INVARIANTS TypeOK ActiveExact DeletedWhenDone
PROPERTIES SignalledLeave
