SPECIFICATION Spec
CONSTANTS
  PoolThreads = {p1, p2, p3}
  Clients = {c1}
  Tasks = {a, b}
  AutoDelete = {a}
  Priorities = {0}
  MaxCounts = {1, 2}
  FirstMaxCount = 1
  MaxStarts = 2
  MaxReserved = 0
  Stealing = TRUE
  Expiry = TRUE
  TimedClients = FALSE
  SpuriousWakeups = TRUE
  PromptEnd = FALSE
  QuietReset = TRUE
CHECK_DEADLOCK FALSE
INVARIANTS WithinLimit
PROPERTIES ImplementsExecutor AllRemoved
