---------------------------- MODULE QMutexFutex ----------------------------
(***************************************************************************)
(* QMutex on Linux: corelib/thread/qmutex.h and qmutex_linux.cpp.  The     *)
(* whole mutex is one word, d_ptr:                                         *)
(*    0   unlocked                                                         *)
(*    1   locked, nobody waits (dummyLocked())                             *)
(*    3   locked, somebody may wait (dummyFutexValue())                    *)
(* Every atomic operation on the word and every futex(2) call is a step of *)
(* its own.  The kernel's futex queue is the set of "sleeping" threads.    *)
(*                                                                         *)
(* The timeout of a call is abstracted to what the code tells apart:       *)
(*    "forever"  lock()                                                    *)
(*    "zero"     tryLock() and tryLock(0)                                  *)
(*    "positive" tryLock(ms), ms > 0                                       *)
(*    "negative" tryLock(ms), ms < 0, in a build without Q_ASSERT          *)
(* Clients keep to the contract: only the owner unlocks, and an owner does *)
(* not lock again.                                                         *)
(***************************************************************************)
EXTENDS Integers

CONSTANTS
  Threads,    \* the threads that use the mutex
  Timeouts    \* the kinds of calls they make

ASSUME TimeoutsAssumption ==
  Timeouts \subseteq {"forever", "zero", "positive", "negative"}

VARIABLES
  d_ptr,      \* QBasicMutex::d_ptr
  pc,         \* where each thread is
  timeout,    \* the timeout of each thread's last call
  expired     \* whether the time a timed call was given is over

vars == <<d_ptr, pc, timeout, expired>>

IsTimed(t) == timeout[t] \in {"positive", "negative"}

\* Inside lockInternal_helper(): "exchange" is the first pass of its loop,
\* "retry" the later ones (pts == &ts).
InLoop == {"exchange", "retry", "futexWait", "sleeping"}
Owning == {"owner", "unlockInternal"}
Places == InLoop \cup Owning
          \cup {"idle", "fastTryLock", "wake", "refused"}

Owners   == {t \in Threads : pc[t] \in Owning}
Sleeping == {t \in Threads : pc[t] = "sleeping"}

Goto(t, place) == pc' = [pc EXCEPT ![t] = place]

Init ==
  /\ d_ptr = 0
  /\ pc = [t \in Threads |-> "idle"]
  /\ timeout = [t \in Threads |-> "zero"]
  /\ expired = [t \in Threads |-> FALSE]

-----------------------------------------------------------------------------
(* Locking *)

Call(t) ==
  /\ pc[t] = "idle"
  /\ \E k \in Timeouts : timeout' = [timeout EXCEPT ![t] = k]
  /\ expired' = [expired EXCEPT ![t] = FALSE]
  /\ Goto(t, "fastTryLock")
  /\ UNCHANGED d_ptr

FastTryLock(t) ==
  /\ pc[t] = "fastTryLock"
  /\ \/ /\ d_ptr = 0
        /\ d_ptr' = 1
        /\ Goto(t, "owner")
     \/ /\ d_ptr # 0
        /\ Goto(t, IF timeout[t] = "zero" THEN "refused" ELSE "exchange")
        /\ UNCHANGED d_ptr
  /\ UNCHANGED <<timeout, expired>>

\* Broken: only ETIMEDOUT ends a timed call, the elapsed timer is not looked at.
OutOfTime_Unchecked(t) == timeout[t] = "negative"

\* The elapsed timer is looked at on the later passes only.
OutOfTime(t) ==
  /\ pc[t] = "retry"
  /\ \/ timeout[t] = "negative"
     \/ timeout[t] = "positive" /\ expired[t]

\* Broken: any word but the waiting mark counts as free.
Exchange_TakesMarkless(t) ==
  /\ pc[t] \in {"exchange", "retry"}
  /\ d_ptr' = 3
  /\ \/ d_ptr # 3 /\ Goto(t, "owner")
     \/ d_ptr = 3 /\ Goto(t, IF OutOfTime(t) THEN "refused" ELSE "futexWait")
  /\ UNCHANGED <<timeout, expired>>

\* Broken: a woken thread that finds the mutex free forgets the other sleepers.
Exchange_DropsMark(t) ==
  /\ pc[t] \in {"exchange", "retry"}
  /\ \/ d_ptr = 0 /\ d_ptr' = 1 /\ Goto(t, "owner")
     \/ /\ d_ptr # 0 /\ d_ptr' = 3
        /\ Goto(t, IF OutOfTime(t) THEN "refused" ELSE "futexWait")
  /\ UNCHANGED <<timeout, expired>>

\* fetchAndStoreAcquire(dummyFutexValue()), and the look at the timer.
Exchange(t) ==
  /\ pc[t] \in {"exchange", "retry"}
  /\ d_ptr' = 3
  /\ \/ d_ptr = 0 /\ Goto(t, "owner")
     \/ d_ptr # 0 /\ Goto(t, IF OutOfTime(t) THEN "refused" ELSE "futexWait")
  /\ UNCHANGED <<timeout, expired>>

\* FUTEX_WAIT: EINVAL for a negative timespec, EWOULDBLOCK when the word is
\* not 3 any more, and sleep otherwise.
FutexWait(t) ==
  /\ pc[t] = "futexWait"
  /\ Goto(t, IF timeout[t] # "negative" /\ d_ptr = 3 THEN "sleeping" ELSE "retry")
  /\ UNCHANGED <<d_ptr, timeout, expired>>

\* The time given to the call runs out, wherever the call is.
Expire(t) ==
  /\ pc[t] \in InLoop
  /\ timeout[t] = "positive"
  /\ ~expired[t]
  /\ expired' = [expired EXCEPT ![t] = TRUE]
  /\ UNCHANGED <<d_ptr, pc, timeout>>

\* Broken: a waiter that gives up takes its mark back.
FutexTimeout_Unmarks(t) ==
  /\ pc[t] = "sleeping"
  /\ timeout[t] = "positive" /\ expired[t]
  /\ Goto(t, "refused")
  /\ d_ptr' = 1
  /\ UNCHANGED <<timeout, expired>>

\* Broken: a time-out is taken for success.
FutexTimeout_ReturnsTrue(t) ==
  /\ pc[t] = "sleeping"
  /\ timeout[t] = "positive" /\ expired[t]
  /\ Goto(t, "owner")
  /\ UNCHANGED <<d_ptr, timeout, expired>>

\* FUTEX_WAIT returns ETIMEDOUT.
FutexTimeout(t) ==
  /\ pc[t] = "sleeping"
  /\ timeout[t] = "positive" /\ expired[t]
  /\ Goto(t, "refused")
  /\ UNCHANGED <<d_ptr, timeout, expired>>

\* FUTEX_WAIT returns EINTR: a signal, which the loop treats as a wake-up.
FutexInterrupt(t) ==
  /\ pc[t] = "sleeping"
  /\ Goto(t, "retry")
  /\ UNCHANGED <<d_ptr, timeout, expired>>

\* tryLock() has returned false.
Refused(t) ==
  /\ pc[t] = "refused"
  /\ Goto(t, "idle")
  /\ UNCHANGED <<d_ptr, timeout, expired>>

-----------------------------------------------------------------------------
(* Unlocking *)

FastTryUnlock(t) ==
  /\ pc[t] = "owner"
  /\ \/ /\ d_ptr = 1
        /\ d_ptr' = 0
        /\ Goto(t, "idle")
     \/ /\ d_ptr # 1
        /\ Goto(t, "unlockInternal")
        /\ UNCHANGED d_ptr
  /\ UNCHANGED <<timeout, expired>>

\* Broken: nobody is woken.
UnlockStore_NoWake(t) ==
  /\ pc[t] = "unlockInternal"
  /\ d_ptr' = 0
  /\ Goto(t, "idle")
  /\ UNCHANGED <<timeout, expired>>

UnlockStore(t) ==
  /\ pc[t] = "unlockInternal"
  /\ d_ptr' = 0
  /\ Goto(t, "wake")
  /\ UNCHANGED <<timeout, expired>>

\* FUTEX_WAKE of one thread, if any sleeps.
FutexWake(t) ==
  /\ pc[t] = "wake"
  /\ \/ /\ Sleeping = {}
        /\ Goto(t, "idle")
     \/ \E s \in Sleeping : pc' = [pc EXCEPT ![t] = "idle", ![s] = "retry"]
  /\ UNCHANGED <<d_ptr, timeout, expired>>

-----------------------------------------------------------------------------
Step(t) ==
  \/ FastTryLock(t) \/ Exchange(t) \/ FutexWait(t) \/ FutexTimeout(t)
  \/ Refused(t) \/ FastTryUnlock(t) \/ UnlockStore(t) \/ FutexWake(t)

Next == \E t \in Threads : Call(t) \/ Step(t) \/ Expire(t) \/ FutexInterrupt(t)

Spec == Init /\ [][Next]_vars

\* The scheduler runs every thread that can run, owners unlock in the end,
\* and time passes.  Nobody has to call, and signals need not arrive.
Fairness == \A t \in Threads : WF_vars(Step(t)) /\ WF_vars(Expire(t))

FairSpec == Spec /\ Fairness

-----------------------------------------------------------------------------
(* Properties *)

\* Types; the word only ever has the three values of the protocol.
TypeOK ==
  /\ d_ptr \in {0, 1, 3}
  /\ pc \in [Threads -> Places]
  /\ timeout \in [Threads -> Timeouts \cup {"zero"}]
  /\ expired \in [Threads -> BOOLEAN]

\* At most one thread is between a successful lock and the store that gives
\* the mutex back.
MutualExclusion == \A s, t \in Owners : s = t

\* The word tells the truth: it is 0 exactly while nobody owns the mutex (the
\* assertion at the end of lockInternal_helper()), and it is 3 whenever an
\* owner is in unlockInternal() (the assertions there).
WordIsTruthful ==
  /\ d_ptr = 0 <=> Owners = {}
  /\ \A t \in Threads : pc[t] = "unlockInternal" => d_ptr = 3

\* No wake-up is lost: while a thread sleeps in the kernel, either the owner
\* will see that it must wake somebody, or a wake-up is on its way, or an
\* awake thread is about to put the waiting mark back.
NoLostWakeup ==
  Sleeping # {} =>
    \/ d_ptr = 3
    \/ \E t \in Threads : pc[t] \in {"wake", "exchange", "retry"}

\* Somebody who waits is not left alone with a free mutex: whenever a call of
\* lock() waits, sooner or later some thread owns the mutex.
Progress ==
  (\E t \in Threads : timeout[t] = "forever" /\ pc[t] \in InLoop) ~> (Owners # {})

\* tryLock(ms) comes back, whatever the other threads do and however often
\* signals interrupt it.
TimedCallsReturn ==
  \A t \in Threads :
    (timeout[t] = "positive" /\ pc[t] \in InLoop)
      ~> (pc[t] \in {"owner", "refused"})

\* "If timeout is negative, the call waits forever until the mutex can be
\* locked" (the documentation of QMutex::tryLock(), qmutex.cpp:228-230).
NegativeTimeoutWaits ==
  \A t \in Threads : ~(pc[t] = "refused" /\ timeout[t] = "negative")

\* The futex mutex is a lock.
Wants ==
  [t \in Threads |->
     IF pc[t] \in InLoop \cup {"fastTryLock"}
     THEN IF timeout[t] = "forever" THEN "lock" ELSE "tryLock"
     ELSE "nothing"]

Lock == INSTANCE LockSpec WITH owners <- Owners, wants <- Wants

ImplementsLock == Lock!Spec
=============================================================================
