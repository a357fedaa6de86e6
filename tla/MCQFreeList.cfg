SPECIFICATION Spec
CONSTANTS
  Threads = {t1, t2, t3}
  MaxIndex = 3
  BlockOf <- Blocks
  Serials = 3
  MaxHeld = 2
SYMMETRY Symmetry
INVARIANTS ListSound
PROPERTIES ImplementsIdPool
