SPECIFICATION FairSpec
CONSTANTS
  Clients = {c1, c2}
  Loop = Loop
  NoOne = NoOne
  c1 = c1
  c2 = c2
  Calls <- MCCalls
  MaxStarts = 2
  MaxExits = 1
  MaxPosts = 2
  MaxLoops = 2
  UnhurriedExit = TRUE
  SpuriousWakeups = TRUE
CHECK_DEADLOCK FALSE
INVARIANTS TypeOK WakeUpsKept
PROPERTIES EventsDelivered ExitObeyed WaitReturns
