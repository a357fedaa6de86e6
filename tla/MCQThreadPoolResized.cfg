SPECIFICATION FairSpec
CONSTANTS
  PoolThreads = {p1, p2, p3}
  Clients = {c1}
  Tasks = {a, b}
  AutoDelete = {a, b}
  Priorities = {0}
  MaxCounts = {0, 2}
  FirstMaxCount = 2
  MaxStarts = 1
  MaxReserved = 0
  Stealing = FALSE
  Expiry = FALSE
  TimedClients = FALSE
  SpuriousWakeups = FALSE
  PromptEnd = TRUE
  QuietReset = TRUE
CHECK_DEADLOCK FALSE
PROPERTIES TasksRun ClientsReturn
