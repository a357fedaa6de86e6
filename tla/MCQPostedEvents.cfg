SPECIFICATION Spec
CONSTANTS
  t1 = t1
  t2 = t2
  Threads = {t1, t2}
  Programs = {t1}
  Posters = {p1}
  Objects = {a, b}
  Priorities = {0, 1}
  NoThread = NoThread
  NoObject = NoObject
  MaxPosts <- Posts
  MaxSends <- Sends
  MaxLoops <- Loops
  MaxLength = 3
  Moving = TRUE
  Removing = TRUE
SYMMETRY Symmetry
INVARIANTS TypeOK ListSound NoEventLeftBehind
PROPERTIES DeletedAfterReturn InOrderPosted ImplementsMailbox
