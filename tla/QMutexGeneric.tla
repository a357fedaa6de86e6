--------------------------- MODULE QMutexGeneric ---------------------------
(***************************************************************************)
(* QMutex where there are no futexes: corelib/thread/qmutex.cpp with       *)
(* qmutex_p.h and qmutex_unix.cpp.  The word d_ptr of a mutex is 0         *)
(* (unlocked), 1 (dummyLocked(): locked, nobody waits) or a QMutexPrivate. *)
(* A private is taken from a free list all mutexes share by the first      *)
(* thread that has to wait, is reference counted, and goes back to the     *)
(* list, to serve another mutex, when its count drops to 0.                *)
(*                                                                         *)
(* Every atomic operation on d_ptr, refCount, waiters and possiblyUnlocked *)
(* is a step; a load followed by a compare-and-swap loop on the same       *)
(* variable is one step.  What QMutexPrivate::wait() and wakeUp() do under *)
(* their pthread mutex is one step per critical section.                   *)
(*                                                                         *)
(* A private whose count is 0 is on the free list, and allocate() may take *)
(* any of those.  A thread uses one mutex at a time, only the owner        *)
(* unlocks, and an owner does not lock again.                              *)
(***************************************************************************)
EXTENDS Integers, FiniteSets

CONSTANTS
  Threads,
  Mutexes,
  Privates,     \* the QMutexPrivate objects the free list has room for
  Timeouts,     \* the kinds of calls threads make: see below
  BigNumber,    \* QMutexPrivate::BigNumber
  NoPrivate,    \* d of a thread that uses no private
  Unhurried     \* FALSE: all schedules.  TRUE: only those in which no thread
                \* gets between lines 468 and 471 of another: the grab of a
                \* mutex being unlocked and waiters.store(0)

ASSUME TimeoutsAssumption ==
  Timeouts \subseteq {"forever", "zero", "positive"}

\* "Must be bigger than the possible number of waiters (number of threads)"
ASSUME BigNumberAssumption ==
  /\ IsFiniteSet(Threads)
  /\ BigNumber \in Nat
  /\ BigNumber > Cardinality(Threads)

ASSUME PrivatesAssumption ==
  /\ NoPrivate \notin Privates
  /\ Privates \cap {0, 1} = {}
  /\ Unhurried \in BOOLEAN

VARIABLES
  d_ptr,      \* the word of each mutex
  priv,       \* the fields of each private
  pc,         \* where each thread is
  mutex,      \* the mutex each thread's last call was for
  timeout,    \* the timeout of that call
  d           \* the private each thread has in its hands

vars == <<d_ptr, priv, pc, mutex, timeout, d>>

dummyLocked == 1

\* Places of lockInternal() ...
Counted    == {"verifyCounted", "uncount", "wait", "sleeping", "woken", "timedOut",
               "giveUp"}
Referenced == Counted \cup {"recheck", "count", "grab", "verifyUncounted",
                            "raiseFlag", "dropAndRetry", "dropAndFail"}
Locking    == {"fastTryLock", "load", "allocate", "install", "flag", "ref"}
              \cup (Referenced \ {"dropAndFail"})
\* ... of an owner that still has to settle the private it got the mutex with,
Settling   == {"taken", "dropFlag", "discount"}
Grabbed    == {"clearWaiters", "dropAndOwn"}
\* ... and of unlockInternal(), after the mutex was given up.
Leaving    == {"clearWord", "lowerFlag", "dropLowered", "settle", "settleTransfer",
               "wakeUp", "dropAndLeave"}
Owning     == {"owner", "unlockInternal"} \cup Settling \cup Grabbed
Places     == Locking \cup Owning \cup Leaving \cup {"idle", "dropAndFail", "refused"}

Owners(m) == {t \in Threads : mutex[t] = m /\ pc[t] \in Owning}

Word(t) == d_ptr[mutex[t]]

Init ==
  /\ d_ptr = [m \in Mutexes |-> 0]
  /\ priv = [p \in Privates |-> [refCount |-> 0, waiters |-> 0,
                                 possiblyUnlocked |-> FALSE, wakeup |-> FALSE]]
  /\ pc = [t \in Threads |-> "idle"]
  /\ mutex \in [Threads -> Mutexes]
  /\ timeout = [t \in Threads |-> "zero"]
  /\ d = [t \in Threads |-> NoPrivate]

-----------------------------------------------------------------------------
(* Helpers: moves of a thread, and the operations on its private *)

Goto(t, place) == pc' = [pc EXCEPT ![t] = place]

\* The thread goes on without its private.
Forget(t, place) ==
  /\ Goto(t, place)
  /\ d' = [d EXCEPT ![t] = NoPrivate]

SetWord(t, word) == d_ptr' = [d_ptr EXCEPT ![mutex[t]] = word]

\* QMutexPrivate::deref(); at 0 the private is back on the free list.
Deref(t) == priv' = [priv EXCEPT ![d[t]].refCount = @ - 1]

\* Broken: the flag is looked for below -BigNumber, where it never is.
DerefWaiters_OffByOne(t, value) ==
  priv' = [priv EXCEPT ![d[t]].waiters =
             (IF @ < -BigNumber THEN @ + BigNumber ELSE @) - value]

\* QMutexPrivate::derefWaiters(value)
DerefWaiters(t, value) ==
  priv' = [priv EXCEPT ![d[t]].waiters = (IF @ < 0 THEN @ + BigNumber ELSE @) - value]

-----------------------------------------------------------------------------
(* lockInternal(), up to the wait *)

Call(t) ==
  /\ pc[t] = "idle"
  /\ \E m \in Mutexes, k \in Timeouts :
       /\ mutex' = [mutex EXCEPT ![t] = m]
       /\ timeout' = [timeout EXCEPT ![t] = k]
  /\ Goto(t, "fastTryLock")
  /\ UNCHANGED <<d_ptr, priv, d>>

FastTryLock(t) ==
  /\ pc[t] = "fastTryLock"
  /\ \/ /\ Word(t) = 0
        /\ SetWord(t, dummyLocked)
        /\ Goto(t, "owner")
     \/ /\ Word(t) # 0
        /\ Goto(t, "load")
        /\ UNCHANGED d_ptr
  /\ UNCHANGED <<priv, mutex, timeout, d>>

\* copy = d_ptr.loadAcquire()
Load(t) ==
  /\ pc[t] = "load"
  /\ \/ /\ Word(t) = 0
        /\ Goto(t, "fastTryLock")
        /\ UNCHANGED d
     \/ /\ Word(t) = dummyLocked
        /\ Goto(t, IF timeout[t] = "zero" THEN "refused" ELSE "allocate")
        /\ UNCHANGED d
     \/ /\ Word(t) \in Privates
        /\ d' = [d EXCEPT ![t] = Word(t)]
        /\ Goto(t, IF timeout[t] = "zero" THEN "flag" ELSE "ref")
  /\ UNCHANGED <<d_ptr, priv, mutex, timeout>>

\* QMutexPrivate::allocate()
Allocate(t) ==
  /\ pc[t] = "allocate"
  /\ \E p \in Privates :
       /\ priv[p].refCount = 0
       /\ priv' = [priv EXCEPT ![p].refCount = 1]
       /\ d' = [d EXCEPT ![t] = p]
  /\ Goto(t, "install")
  /\ UNCHANGED <<d_ptr, mutex, timeout>>

\* d_ptr.testAndSetOrdered(dummyLocked(), newD)
Install(t) ==
  /\ pc[t] = "install"
  /\ \/ /\ Word(t) = dummyLocked
        /\ SetWord(t, d[t])
        /\ Goto(t, "ref")
     \/ /\ Word(t) # dummyLocked
        /\ Goto(t, "dropAndRetry")
        /\ UNCHANGED d_ptr
  /\ UNCHANGED <<priv, mutex, timeout, d>>

\* timeout == 0 && !d->possiblyUnlocked
Flag(t) ==
  /\ pc[t] = "flag"
  /\ \/ /\ priv[d[t]].possiblyUnlocked
        /\ Goto(t, "ref")
        /\ UNCHANGED d
     \/ /\ ~priv[d[t]].possiblyUnlocked
        /\ Forget(t, "refused")
  /\ UNCHANGED <<d_ptr, priv, mutex, timeout>>

\* QMutexPrivate::ref()
Ref(t) ==
  /\ pc[t] = "ref"
  /\ \/ /\ priv[d[t]].refCount = 0
        /\ Forget(t, "fastTryLock")
        /\ UNCHANGED priv
     \/ /\ priv[d[t]].refCount # 0
        /\ priv' = [priv EXCEPT ![d[t]].refCount = @ + 1]
        /\ Goto(t, "recheck")
        /\ UNCHANGED d
  /\ UNCHANGED <<d_ptr, mutex, timeout>>

\* d != d_ptr.loadAcquire(), before the waiter is counted
Recheck(t) ==
  /\ pc[t] = "recheck"
  /\ Goto(t, IF Word(t) = d[t] THEN "count" ELSE "dropAndRetry")
  /\ UNCHANGED <<d_ptr, priv, mutex, timeout, d>>

\* ++waiters, unless the mutex is being unlocked
Count(t) ==
  /\ pc[t] = "count"
  /\ \/ /\ priv[d[t]].waiters = -BigNumber
        /\ Goto(t, "grab")
        /\ UNCHANGED priv
     \/ /\ priv[d[t]].waiters # -BigNumber
        /\ priv' = [priv EXCEPT ![d[t]].waiters = @ + 1]
        /\ Goto(t, "verifyCounted")
  /\ UNCHANGED <<d_ptr, mutex, timeout, d>>

\* Broken: the mutex is taken whatever its word has become.
Grab_Stores(t) ==
  /\ pc[t] = "grab"
  /\ SetWord(t, dummyLocked)
  /\ Goto(t, "clearWaiters")
  /\ UNCHANGED <<priv, mutex, timeout, d>>

\* d_ptr.testAndSetAcquire(d, dummyLocked()): take the mutex from the thread
\* that is unlocking it
Grab(t) ==
  /\ pc[t] = "grab"
  /\ \/ /\ Word(t) = d[t]
        /\ SetWord(t, dummyLocked)
        /\ Goto(t, "clearWaiters")
     \/ /\ Word(t) # d[t]
        /\ Goto(t, "verifyUncounted")
        /\ UNCHANGED d_ptr
  /\ UNCHANGED <<priv, mutex, timeout, d>>

\* d->waiters.store(0)
ClearWaiters(t) ==
  /\ pc[t] = "clearWaiters"
  /\ priv' = [priv EXCEPT ![d[t]].waiters = 0]
  /\ Goto(t, "dropAndOwn")
  /\ UNCHANGED <<d_ptr, mutex, timeout, d>>

\* Broken: the word is not looked at again once the waiter is counted.
Verify_Skipped(t) ==
  /\ pc[t] \in {"verifyCounted", "verifyUncounted"}
  /\ Goto(t, IF pc[t] = "verifyCounted" THEN "wait" ELSE "dropAndRetry")
  /\ UNCHANGED <<d_ptr, priv, mutex, timeout, d>>

\* d != d_ptr.loadAcquire(), after the attempt to count the waiter
Verify(t) ==
  /\ pc[t] \in {"verifyCounted", "verifyUncounted"}
  /\ Goto(t, CASE Word(t) = d[t]                               -> "wait"
               [] Word(t) # d[t] /\ pc[t] = "verifyCounted"    -> "uncount"
               [] Word(t) # d[t] /\ pc[t] = "verifyUncounted"  -> "dropAndRetry")
  /\ UNCHANGED <<d_ptr, priv, mutex, timeout, d>>

\* d->waiters.deref()
Uncount(t) ==
  /\ pc[t] = "uncount"
  /\ priv' = [priv EXCEPT ![d[t]].waiters = @ - 1]
  /\ Goto(t, "dropAndRetry")
  /\ UNCHANGED <<d_ptr, mutex, timeout, d>>

-----------------------------------------------------------------------------
(* QMutexPrivate::wait() and what follows it *)

Sleepers(p) == {t \in Threads : pc[t] = "sleeping" /\ d[t] = p}

\* Broken: the flag stays up for the next waiter.
TakeWakeup_LeavesFlag(t) ==
  /\ pc[t] \in {"wait", "woken", "timedOut"}
  /\ priv[d[t]].wakeup
  /\ Goto(t, "taken")
  /\ UNCHANGED <<d_ptr, priv, mutex, timeout, d>>

\* A critical section of wait() that finds the flag up returns true ...
TakeWakeup(t) ==
  /\ pc[t] \in {"wait", "woken", "timedOut"}
  /\ priv[d[t]].wakeup
  /\ priv' = [priv EXCEPT ![d[t]].wakeup = FALSE]
  /\ Goto(t, "taken")
  /\ UNCHANGED <<d_ptr, mutex, timeout, d>>

\* ... and one that does not goes to sleep, or returns false after a time-out.
MissWakeup(t) ==
  /\ pc[t] \in {"wait", "woken", "timedOut"}
  /\ ~priv[d[t]].wakeup
  /\ Goto(t, IF pc[t] = "timedOut" THEN "giveUp" ELSE "sleeping")
  /\ UNCHANGED <<d_ptr, priv, mutex, timeout, d>>

\* pthread_cond_timedwait() gives up; the thread has yet to get the pthread
\* mutex back.
CondTimeout(t) ==
  /\ pc[t] = "sleeping"
  /\ timeout[t] # "forever"
  /\ Goto(t, "timedOut")
  /\ UNCHANGED <<d_ptr, priv, mutex, timeout, d>>

\* A condition variable may wake a thread for no reason.
SpuriousWakeup(t) ==
  /\ pc[t] = "sleeping"
  /\ Goto(t, "woken")
  /\ UNCHANGED <<d_ptr, priv, mutex, timeout, d>>

\* possiblyUnlocked.testAndSetRelaxed(true, false), by the new owner
Taken(t) ==
  /\ pc[t] = "taken"
  /\ Goto(t, IF priv[d[t]].possiblyUnlocked THEN "dropFlag" ELSE "discount")
  /\ priv' = [priv EXCEPT ![d[t]].possiblyUnlocked = FALSE]
  /\ UNCHANGED <<d_ptr, mutex, timeout, d>>

DropFlag(t) ==
  /\ pc[t] = "dropFlag"
  /\ Deref(t)
  /\ Goto(t, "discount")
  /\ UNCHANGED <<d_ptr, mutex, timeout, d>>

\* d->derefWaiters(1): "we got the lock (do not deref)"
Discount(t) ==
  /\ pc[t] = "discount"
  /\ DerefWaiters(t, 1)
  /\ Forget(t, "owner")
  /\ UNCHANGED <<d_ptr, mutex, timeout>>

\* d->derefWaiters(1) after a time-out
GiveUp(t) ==
  /\ pc[t] = "giveUp"
  /\ DerefWaiters(t, 1)
  /\ Goto(t, "raiseFlag")
  /\ UNCHANGED <<d_ptr, mutex, timeout, d>>

\* Broken: the reference is kept although the flag was up already.
RaiseFlag_KeepsBoth(t) ==
  /\ pc[t] = "raiseFlag"
  /\ priv' = [priv EXCEPT ![d[t]].possiblyUnlocked = TRUE]
  /\ Forget(t, "refused")
  /\ UNCHANGED <<d_ptr, mutex, timeout>>

\* Broken: no flag is raised, and no reference kept.
RaiseFlag_Never(t) ==
  /\ pc[t] = "raiseFlag"
  /\ Goto(t, "dropAndFail")
  /\ UNCHANGED <<d_ptr, priv, mutex, timeout, d>>

\* possiblyUnlocked.testAndSetRelaxed(false, true): the flag keeps this
\* thread's reference, if it was down.
RaiseFlag(t) ==
  /\ pc[t] = "raiseFlag"
  /\ priv' = [priv EXCEPT ![d[t]].possiblyUnlocked = TRUE]
  /\ IF priv[d[t]].possiblyUnlocked
     THEN Goto(t, "dropAndFail") /\ UNCHANGED d
     ELSE Forget(t, "refused")
  /\ UNCHANGED <<d_ptr, mutex, timeout>>

\* tryLock() has returned false.
Refused(t) ==
  /\ pc[t] = "refused"
  /\ Goto(t, "idle")
  /\ UNCHANGED <<d_ptr, priv, mutex, timeout, d>>

\* The last d->deref() of each way out
Drop(t) ==
  /\ \/ pc[t] = "dropAndRetry" /\ Forget(t, "fastTryLock")
     \/ pc[t] = "dropAndOwn"   /\ Forget(t, "owner")
     \/ pc[t] = "dropAndFail"  /\ Forget(t, "refused")
     \/ pc[t] = "dropAndLeave" /\ Forget(t, "idle")
  /\ Deref(t)
  /\ UNCHANGED <<d_ptr, mutex, timeout>>

-----------------------------------------------------------------------------
(* unlock() and unlockInternal() *)

FastTryUnlock(t) ==
  /\ pc[t] = "owner"
  /\ \/ /\ Word(t) = dummyLocked
        /\ SetWord(t, 0)
        /\ Goto(t, "idle")
     \/ /\ Word(t) # dummyLocked
        /\ Goto(t, "unlockInternal")
        /\ UNCHANGED d_ptr
  /\ UNCHANGED <<priv, mutex, timeout, d>>

\* waiters.fetchAndAddRelease(-BigNumber) == 0
UnlockInternal(t) ==
  /\ pc[t] = "unlockInternal"
  /\ Word(t) \in Privates
  /\ d' = [d EXCEPT ![t] = Word(t)]
  /\ priv' = [priv EXCEPT ![Word(t)].waiters = @ - BigNumber]
  /\ Goto(t, IF priv[Word(t)].waiters = 0 THEN "clearWord" ELSE "settleTransfer")
  /\ UNCHANGED <<d_ptr, mutex, timeout>>

\* d_ptr.testAndSetRelease(d, 0): nobody waits
ClearWord(t) ==
  /\ pc[t] = "clearWord"
  /\ \/ /\ Word(t) = d[t]
        /\ SetWord(t, 0)
        /\ Goto(t, "lowerFlag")
     \/ /\ Word(t) # d[t]
        /\ Goto(t, "settle")
        /\ UNCHANGED d_ptr
  /\ UNCHANGED <<priv, mutex, timeout, d>>

\* possiblyUnlocked.testAndSetRelaxed(true, false), by the unlocking thread
LowerFlag(t) ==
  /\ pc[t] = "lowerFlag"
  /\ Goto(t, IF priv[d[t]].possiblyUnlocked THEN "dropLowered" ELSE "settle")
  /\ priv' = [priv EXCEPT ![d[t]].possiblyUnlocked = FALSE]
  /\ UNCHANGED <<d_ptr, mutex, timeout, d>>

DropLowered(t) ==
  /\ pc[t] = "dropLowered"
  /\ Deref(t)
  /\ Goto(t, "settle")
  /\ UNCHANGED <<d_ptr, mutex, timeout, d>>

\* d->derefWaiters(0), on either branch
Settle(t) ==
  /\ pc[t] \in {"settle", "settleTransfer"}
  /\ DerefWaiters(t, 0)
  /\ Goto(t, IF pc[t] = "settle" THEN "dropAndLeave" ELSE "wakeUp")
  /\ UNCHANGED <<d_ptr, mutex, timeout, d>>

\* QMutexPrivate::wakeUp(): hand the mutex to whoever takes the flag down
WakeUp(t) ==
  /\ pc[t] = "wakeUp"
  /\ priv' = [priv EXCEPT ![d[t]].wakeup = TRUE]
  /\ \/ /\ Sleepers(d[t]) = {}
        /\ Goto(t, "dropAndLeave")
     \/ \E s \in Sleepers(d[t]) :
          pc' = [pc EXCEPT ![t] = "dropAndLeave", ![s] = "woken"]
  /\ UNCHANGED <<d_ptr, mutex, timeout, d>>

-----------------------------------------------------------------------------
Step(t) ==
  \/ FastTryLock(t) \/ Load(t) \/ Allocate(t) \/ Install(t) \/ Flag(t) \/ Ref(t)
  \/ Recheck(t) \/ Count(t) \/ Grab(t) \/ Verify(t) \/ Uncount(t)
  \/ TakeWakeup(t) \/ MissWakeup(t) \/ CondTimeout(t)
  \/ Taken(t) \/ DropFlag(t) \/ Discount(t) \/ GiveUp(t) \/ RaiseFlag(t)
  \/ Refused(t) \/ Drop(t)
  \/ FastTryUnlock(t) \/ UnlockInternal(t) \/ ClearWord(t) \/ LowerFlag(t)
  \/ DropLowered(t) \/ Settle(t) \/ WakeUp(t)

\* The threads that have grabbed a mutex and not yet cleared waiters: the only
\* ones that may take a step, in the schedules Unhurried asks for.
Hurried == {t \in Threads : Unhurried /\ pc[t] = "clearWaiters"}

Next ==
  \/ \E t \in Threads : ClearWaiters(t)
  \/ /\ Hurried = {}
     /\ \E t \in Threads : Call(t) \/ Step(t) \/ SpuriousWakeup(t)

Spec == Init /\ [][Next]_vars

Fairness ==
  \A t \in Threads :
    WF_vars(Hurried = {} /\ Step(t)) /\ WF_vars(ClearWaiters(t))

FairSpec == Spec /\ Fairness

-----------------------------------------------------------------------------
(* Properties *)

\* Types, and the bounds of the two counters.
TypeOK ==
  /\ d_ptr \in [Mutexes -> {0, dummyLocked} \cup Privates]
  /\ \A p \in Privates :
       /\ priv[p].refCount \in 0..(Cardinality(Threads) + 2)
       /\ priv[p].waiters \in -BigNumber..Cardinality(Threads)
       /\ priv[p].possiblyUnlocked \in BOOLEAN /\ priv[p].wakeup \in BOOLEAN
  /\ pc \in [Threads -> Places]
  /\ mutex \in [Threads -> Mutexes]
  /\ timeout \in [Threads -> Timeouts \cup {"zero"}]
  /\ d \in [Threads -> Privates \cup {NoPrivate}]

\* At most one thread owns a mutex, although the mutex is handed from the thread
\* that unlocks to a waiter, grabbed in the middle of an unlock, or taken anew.
MutualExclusion == \A m \in Mutexes : Cardinality(Owners(m)) <= 1

\* The references to a private: the thread that holds it, the owner of the mutex
\* it serves (unless that owner still has its waiter's reference), and the flag
\* possiblyUnlocked; install and the two ways to lower the flag hold one more.
References(p) ==
  Cardinality({t \in Threads : d[t] = p /\ pc[t] \in Referenced \cup Settling
                                                     \cup Grabbed \cup Leaving})
  + Cardinality({t \in Threads : d[t] = p
                   /\ pc[t] \in {"install", "dropFlag", "dropLowered"}})
  + Cardinality({m \in Mutexes : d_ptr[m] = p
                   /\ \E t \in Owners(m) : pc[t] \notin Settling})
  + (IF priv[p].possiblyUnlocked THEN 1 ELSE 0)

\* The reference count is the number of references: a private goes back to the
\* free list when nobody uses it any more, not before, and not later.
RefCountExact == \A p \in Privates : priv[p].refCount = References(p)

\* The assertions of allocate() and release(): a private on the free list has no
\* waiters, no raised flag and no wake-up left over for its next user.
FreeIsClean ==
  \A p \in Privates :
    priv[p].refCount = 0 =>
      /\ priv[p].waiters = 0
      /\ ~priv[p].possiblyUnlocked
      /\ ~priv[p].wakeup

\* The assertion of line 470: the thread that grabbed a mutex being unlocked
\* finds waiters to be -BigNumber or 0.
GrabFindsNoWaiters ==
  \A t \in Threads :
    pc[t] = "clearWaiters" => priv[d[t]].waiters \in {-BigNumber, 0}

\* The assertions of lines 488 and 501: a waiter that was counted is counted,
\* and one that got the wake-up got it for the mutex it asked for.
CountedWaitersCount ==
  \A t \in Threads :
    /\ pc[t] = "uncount" => priv[d[t]].waiters >= 1
    /\ pc[t] \in Settling => Word(t) = d[t]

\* The reference counts and the assertions of the source together: a private serves one
\* mutex after the other, and each finds it as if it were new.
BooksSound == RefCountExact /\ FreeIsClean /\ GrabFindsNoWaiters /\ CountedWaitersCount

\* A thread waits on the private of its own mutex and no other, and while nobody
\* owns that mutex a wake-up is there to be taken, or under way.
NoLostWakeup ==
  \A t \in Threads :
    pc[t] \in {"wait", "sleeping", "woken"} =>
      /\ Word(t) = d[t]
      /\ Owners(mutex[t]) = {} =>
           \/ priv[d[t]].wakeup
           \/ \E s \in Threads : d[s] = d[t] /\ pc[s] \in {"settleTransfer", "wakeUp"}

\* No thread that waits in lock() is left alone with a mutex nobody owns, as long
\* as the free list has privates left.
Progress ==
  \A m \in Mutexes :
    (\E t \in Threads : mutex[t] = m /\ timeout[t] = "forever" /\ pc[t] \in Locking)
      ~> (Owners(m) # {} \/ \A p \in Privates : priv[p].refCount > 0)

\* When every thread is done, no private is in use.
NothingLeaks ==
  (\A t \in Threads : pc[t] = "idle") /\ (\A m \in Mutexes : d_ptr[m] = 0)
    => \A p \in Privates : priv[p].refCount = 0

\* The generic mutex is a lock, each of them.
Wants(m) ==
  [t \in Threads |->
     IF mutex[t] = m /\ pc[t] \in Locking
     THEN IF timeout[t] = "forever" THEN "lock" ELSE "tryLock"
     ELSE "nothing"]

Lock(m) == INSTANCE LockSpec WITH owners <- Owners(m), wants <- Wants(m)

ImplementsLock ==
  /\ \A m \in Mutexes : Lock(m)!Init
  /\ [][\A m \in Mutexes : [Lock(m)!Next]_(Lock(m)!vars)]_vars
=============================================================================
