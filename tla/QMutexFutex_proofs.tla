------------------------- MODULE QMutexFutex_proofs -------------------------
(***************************************************************************)
(* For any set of threads and any mix of calls: the futex mutex excludes,  *)
(* its word tells the truth, it loses no wake-up, and it implements        *)
(* LockSpec.                                                               *)
(***************************************************************************)
EXTENDS QMutexFutex, TLAPS

\* The three safety properties support one another: a thread leaves
\* unlockInternal() with the right to store 0 only because no one else owns,
\* and a sleeper is owed a wake-up only because the word was 3.
IInv == TypeOK /\ MutualExclusion /\ WordIsTruthful /\ NoLostWakeup

-----------------------------------------------------------------------------
\* The variables keep their types, for every set of threads.
LEMMA TypeInductive == TypeOK /\ [Next]_vars => TypeOK'
<1> SUFFICES ASSUME TypeOK, [Next]_vars PROVE TypeOK'
    OBVIOUS
<1> USE DEF TypeOK, Goto, Places, InLoop, Owning
<1>1. CASE UNCHANGED vars
      BY <1>1 DEF vars
<1>2. ASSUME NEW t \in Threads, Call(t) PROVE TypeOK'
      BY <1>2, TimeoutsAssumption DEF Call
<1>3. ASSUME NEW t \in Threads, FastTryLock(t) PROVE TypeOK'
      BY <1>3 DEF FastTryLock
<1>4. ASSUME NEW t \in Threads, Exchange(t) PROVE TypeOK'
      BY <1>4 DEF Exchange
<1>5. ASSUME NEW t \in Threads, FutexWait(t) PROVE TypeOK'
      BY <1>5 DEF FutexWait
<1>6. ASSUME NEW t \in Threads, Expire(t) PROVE TypeOK'
      BY <1>6 DEF Expire
<1>7. ASSUME NEW t \in Threads,
             FutexTimeout(t) \/ FutexInterrupt(t) \/ Refused(t)
      PROVE  TypeOK'
      BY <1>7 DEF FutexTimeout, FutexInterrupt, Refused
<1>8. ASSUME NEW t \in Threads, FastTryUnlock(t) PROVE TypeOK'
      BY <1>8 DEF FastTryUnlock
<1>9. ASSUME NEW t \in Threads, UnlockStore(t) PROVE TypeOK'
      BY <1>9 DEF UnlockStore
<1>10. ASSUME NEW t \in Threads, FutexWake(t) PROVE TypeOK'
      <2>1. CASE Sleeping = {} /\ Goto(t, "idle")
            BY <1>10, <2>1 DEF FutexWake
      <2>2. CASE \E s \in Sleeping : pc' = [pc EXCEPT ![t] = "idle", ![s] = "retry"]
            BY <1>10, <2>2 DEF FutexWake, Sleeping
      <2>3. QED BY <1>10, <2>1, <2>2 DEF FutexWake
<1>11. QED BY <1>1, <1>2, <1>3, <1>4, <1>5, <1>6, <1>7, <1>8, <1>9, <1>10 DEF Next, Step

-----------------------------------------------------------------------------
\* Nobody owns the mutex twice: the word is 0 only while nobody owns it, and
\* only a thread that found 0 becomes an owner.
LEMMA ExclusionInductive ==
  IInv /\ [Next]_vars => MutualExclusion' /\ WordIsTruthful'
<1> SUFFICES ASSUME IInv, [Next]_vars PROVE MutualExclusion' /\ WordIsTruthful'
    OBVIOUS
<1> USE DEF IInv, TypeOK, MutualExclusion, WordIsTruthful, Owners, Owning, InLoop, Goto
<1>1. CASE UNCHANGED vars
      BY <1>1 DEF vars
<1>2. ASSUME NEW t \in Threads, Call(t)
      PROVE  MutualExclusion' /\ WordIsTruthful'
      BY <1>2 DEF Call
<1>3. ASSUME NEW t \in Threads, FastTryLock(t)
      PROVE  MutualExclusion' /\ WordIsTruthful'
      BY <1>3 DEF FastTryLock
<1>4. ASSUME NEW t \in Threads, Exchange(t)
      PROVE  MutualExclusion' /\ WordIsTruthful'
      <2>1. CASE d_ptr = 0
            <3>1. pc' = [pc EXCEPT ![t] = "owner"] /\ d_ptr' = 3
                  BY <1>4, <2>1 DEF Exchange
            <3>2. QED BY <2>1, <3>1
      <2>2. CASE d_ptr # 0
            <3>1. /\ d_ptr' = 3
                  /\ \E p \in {"refused", "futexWait"} : pc' = [pc EXCEPT ![t] = p]
                  BY <1>4, <2>2 DEF Exchange
            <3>2. pc[t] \in {"exchange", "retry"}
                  BY <1>4 DEF Exchange
            <3>3. Owners' = Owners
                  BY <3>1, <3>2
            <3>4. QED BY <2>2, <3>1, <3>3
      <2>3. QED BY <2>1, <2>2
<1>5. ASSUME NEW t \in Threads,
             \/ FutexWait(t) \/ Expire(t) \/ FutexTimeout(t)
             \/ FutexInterrupt(t) \/ Refused(t)
      PROVE  MutualExclusion' /\ WordIsTruthful'
      BY <1>5 DEF FutexWait, Expire, FutexTimeout, FutexInterrupt, Refused
<1>6. ASSUME NEW t \in Threads, FastTryUnlock(t)
      PROVE  MutualExclusion' /\ WordIsTruthful'
      BY <1>6 DEF FastTryUnlock
<1>7. ASSUME NEW t \in Threads, UnlockStore(t)
      PROVE  MutualExclusion' /\ WordIsTruthful'
      BY <1>7 DEF UnlockStore
<1>8. ASSUME NEW t \in Threads, FutexWake(t)
      PROVE  MutualExclusion' /\ WordIsTruthful'
      BY <1>8 DEF FutexWake, Sleeping
<1>9. QED BY <1>1, <1>2, <1>3, <1>4, <1>5, <1>6, <1>7, <1>8 DEF Next, Step

-----------------------------------------------------------------------------
\* Whoever takes the 3 away from a sleeper is left owing a wake-up, and a
\* thread that is woken puts the 3 back before it does anything else.
LEMMA WakeupInductive == IInv /\ [Next]_vars => NoLostWakeup'
<1> SUFFICES ASSUME IInv, [Next]_vars PROVE NoLostWakeup'
    OBVIOUS
<1> USE DEF IInv, TypeOK, NoLostWakeup, Sleeping, Goto
<1>1. CASE UNCHANGED vars
      BY <1>1 DEF vars
<1>2. ASSUME NEW t \in Threads, Call(t) PROVE NoLostWakeup'
      BY <1>2 DEF Call
<1>3. ASSUME NEW t \in Threads, FastTryLock(t) PROVE NoLostWakeup'
      BY <1>3 DEF FastTryLock
<1>4. ASSUME NEW t \in Threads, Exchange(t) PROVE NoLostWakeup'
      BY <1>4 DEF Exchange
<1>5. ASSUME NEW t \in Threads, FutexWait(t) PROVE NoLostWakeup'
      BY <1>5 DEF FutexWait
<1>6. ASSUME NEW t \in Threads, Expire(t) PROVE NoLostWakeup'
      BY <1>6 DEF Expire
<1>7. ASSUME NEW t \in Threads,
             FutexTimeout(t) \/ FutexInterrupt(t) \/ Refused(t)
      PROVE  NoLostWakeup'
      BY <1>7 DEF FutexTimeout, FutexInterrupt, Refused
<1>8. ASSUME NEW t \in Threads, FastTryUnlock(t) PROVE NoLostWakeup'
      BY <1>8 DEF FastTryUnlock
<1>9. ASSUME NEW t \in Threads, UnlockStore(t) PROVE NoLostWakeup'
      BY <1>9 DEF UnlockStore
<1>10. ASSUME NEW t \in Threads, FutexWake(t) PROVE NoLostWakeup'
      <2>1. CASE Sleeping = {} /\ Goto(t, "idle")
            BY <1>10, <2>1 DEF FutexWake
      <2>2. ASSUME NEW s \in Sleeping, pc' = [pc EXCEPT ![t] = "idle", ![s] = "retry"]
            PROVE  NoLostWakeup'
            <3>1. pc'[s] = "retry"
                  BY <1>10, <2>2
            <3>2. QED BY <3>1
      <2>3. QED BY <1>10, <2>1, <2>2 DEF FutexWake
<1>11. QED BY <1>1, <1>2, <1>3, <1>4, <1>5, <1>6, <1>7, <1>8, <1>9, <1>10 DEF Next, Step

-----------------------------------------------------------------------------
LEMMA InitEstablishes == Init => IInv
BY TimeoutsAssumption DEF Init, IInv, TypeOK, MutualExclusion, WordIsTruthful, NoLostWakeup,
   Owners, Owning, Sleeping, Places, InLoop

\* The invariant holds in every reachable state.
THEOREM Invariance == Spec => []IInv
<1>1. Init => IInv
      BY InitEstablishes
<1>2. IInv /\ [Next]_vars => IInv'
      BY TypeInductive, ExclusionInductive, WakeupInductive DEF IInv
<1>3. QED BY <1>1, <1>2, PTL DEF Spec

\* The variables have their types, in every reachable state.
THEOREM TypeCorrect == Spec => []TypeOK
BY Invariance, PTL DEF IInv

\* Two threads never own the mutex at once.
THEOREM Exclusion == Spec => []MutualExclusion
BY Invariance, PTL DEF IInv

\* The word is 0 exactly while nobody owns the mutex, and the assertions of
\* unlockInternal() hold.
THEOREM Truth == Spec => []WordIsTruthful
BY Invariance, PTL DEF IInv

\* A sleeping thread is always owed a wake-up.
THEOREM WakeupsKept == Spec => []NoLostWakeup
BY Invariance, PTL DEF IInv

-----------------------------------------------------------------------------
\* Every step of the futex mutex is a step of the abstract lock, or none.
LEMMA StepRefines == IInv /\ [Next]_vars => [Lock!Next]_(Lock!vars)
<1> SUFFICES ASSUME IInv, [Next]_vars PROVE [Lock!Next]_(Lock!vars)
    OBVIOUS
<1> USE DEF IInv, TypeOK, Owners, Owning, Wants, InLoop, Goto, Lock!vars
<1>1. CASE UNCHANGED vars
      BY <1>1 DEF vars
<1>2. ASSUME NEW t \in Threads, Call(t) PROVE Lock!Request(t)
      <2>1. Owners' = Owners /\ t \notin Owners
            BY <1>2 DEF Call
      <2>2. Wants[t] = "nothing" /\ Wants'[t] \in Lock!Calls
            BY <1>2 DEF Call, Lock!Calls
      <2>3. Wants' = [Wants EXCEPT ![t] = Wants'[t]]
            BY <1>2 DEF Call
      <2>4. QED BY <2>1, <2>2, <2>3 DEF Lock!Request
<1>3. ASSUME NEW t \in Threads, d_ptr = 0,
             pc[t] \in InLoop \cup {"fastTryLock"},
             pc' = [pc EXCEPT ![t] = "owner"], UNCHANGED timeout
      PROVE  Lock!Acquire(t)
      <2>1. Owners = {} /\ Owners' = {t}
            BY <1>3 DEF WordIsTruthful
      <2>2. Wants[t] # "nothing" /\ Wants' = [Wants EXCEPT ![t] = "nothing"]
            BY <1>3
      <2>3. QED BY <2>1, <2>2 DEF Lock!Acquire
<1>4. ASSUME NEW t \in Threads, timeout[t] # "forever",
             pc[t] \in InLoop \cup {"fastTryLock"},
             pc' = [pc EXCEPT ![t] = "refused"], UNCHANGED timeout
      PROVE  Lock!GiveUp(t)
      BY <1>4 DEF Lock!GiveUp
<1>5. ASSUME NEW t \in Threads, pc[t] \in Owning,
             \E p \in {"idle", "wake"} : pc' = [pc EXCEPT ![t] = p],
             UNCHANGED timeout
      PROVE  Lock!Release(t)
      BY <1>5 DEF Lock!Release
<1>6. ASSUME NEW t \in Threads,
             pc[t] \in InLoop \cup {"fastTryLock"},
             \E p \in InLoop : pc' = [pc EXCEPT ![t] = p], UNCHANGED timeout
      PROVE  UNCHANGED Lock!vars
      BY <1>6
<1>7. ASSUME NEW t \in Threads, FastTryLock(t) PROVE [Lock!Next]_(Lock!vars)
      BY <1>3, <1>4, <1>6, <1>7 DEF FastTryLock, Lock!Next
<1>8. ASSUME NEW t \in Threads, Exchange(t) PROVE [Lock!Next]_(Lock!vars)
      <2>1. CASE d_ptr = 0
            BY <1>3, <1>8, <2>1 DEF Exchange, Lock!Next
      <2>2. CASE d_ptr # 0 /\ OutOfTime(t)
            BY <1>4, <1>8, <2>2 DEF Exchange, OutOfTime, Lock!Next
      <2>3. CASE d_ptr # 0 /\ ~OutOfTime(t)
            BY <1>6, <1>8, <2>3 DEF Exchange
      <2>4. QED BY <2>1, <2>2, <2>3
<1>9. ASSUME NEW t \in Threads, FutexWait(t) \/ FutexInterrupt(t)
      PROVE  UNCHANGED Lock!vars
      BY <1>6, <1>9 DEF FutexWait, FutexInterrupt
<1>10. ASSUME NEW t \in Threads, Expire(t) PROVE UNCHANGED Lock!vars
      BY <1>10 DEF Expire
<1>11. ASSUME NEW t \in Threads, FutexTimeout(t) PROVE Lock!GiveUp(t)
      BY <1>4, <1>11 DEF FutexTimeout
<1>12. ASSUME NEW t \in Threads, Refused(t) PROVE UNCHANGED Lock!vars
      BY <1>12 DEF Refused
<1>13. ASSUME NEW t \in Threads, FastTryUnlock(t) PROVE [Lock!Next]_(Lock!vars)
      <2>1. CASE d_ptr = 1
            BY <1>5, <1>13, <2>1 DEF FastTryUnlock, Lock!Next
      <2>2. CASE d_ptr # 1
            BY <1>13, <2>2 DEF FastTryUnlock
      <2>3. QED BY <2>1, <2>2
<1>14. ASSUME NEW t \in Threads, UnlockStore(t) PROVE Lock!Release(t)
      BY <1>5, <1>14 DEF UnlockStore
<1>15. ASSUME NEW t \in Threads, FutexWake(t) PROVE UNCHANGED Lock!vars
      <2>1. CASE Sleeping = {} /\ Goto(t, "idle")
            BY <1>15, <2>1 DEF FutexWake
      <2>2. CASE \E s \in Sleeping : pc' = [pc EXCEPT ![t] = "idle", ![s] = "retry"]
            BY <1>15, <2>2 DEF FutexWake, Sleeping
      <2>3. QED BY <1>15, <2>1, <2>2 DEF FutexWake
<1>16. QED BY <1>1, <1>2, <1>7, <1>8, <1>9, <1>10, <1>11, <1>12, <1>13, <1>14, <1>15
          DEF Next, Step, Lock!Next

\* The futex mutex implements the abstract lock.
THEOREM Implementation == Spec => ImplementsLock
<1>1. Init => Lock!Init
      BY DEF Init, Lock!Init, Owners, Owning, Wants, InLoop
<1>2. QED BY <1>1, Invariance, StepRefines, PTL DEF Spec, ImplementsLock, Lock!Spec
=============================================================================
