---------------------------- MODULE ReadWriteSpec ----------------------------
(***************************************************************************)
(* What QReadWriteLock promises: any number of threads may hold the lock   *)
(* for reading, or one for writing, and a holder may lock again, the same  *)
(* way, up to a depth (1 when the lock is not recursive).                  *)
(***************************************************************************)
EXTENDS Integers

CONSTANTS
  Threads,
  MaxDepth     \* how often a thread may hold the lock

VARIABLE
  held   \* how often each thread holds the lock: n > 0 for reading n times,
         \* n < 0 for writing -n times

Init == held = [t \in Threads |-> 0]

LockForRead(t) ==
  /\ held[t] \in 0..(MaxDepth - 1)
  /\ \A s \in Threads : held[s] >= 0
  /\ held' = [held EXCEPT ![t] = @ + 1]

LockForWrite(t) ==
  /\ -held[t] \in 0..(MaxDepth - 1)
  /\ \A s \in Threads \ {t} : held[s] = 0
  /\ held' = [held EXCEPT ![t] = @ - 1]

Unlock(t) ==
  /\ held[t] # 0
  /\ held' = [held EXCEPT ![t] = IF @ > 0 THEN @ - 1 ELSE @ + 1]

Next == \E t \in Threads : LockForRead(t) \/ LockForWrite(t) \/ Unlock(t)

Spec == Init /\ [][Next]_held
=============================================================================
