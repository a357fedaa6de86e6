--------------------------- MODULE QReadWriteLock ---------------------------
(***************************************************************************)
(* QReadWriteLock: corelib/thread/qreadwritelock.cpp and                   *)
(* qreadwritelock_p.h, over the wait conditions of QWaitCondition.         *)
(*                                                                         *)
(* Every function of the class runs under the lock's QMutex, which is only *)
(* given up inside QWaitCondition::wait().  So what a thread does from     *)
(* locking that mutex to unlocking it, or to beginning a wait, is one      *)
(* step.  A thread whose wait() is over holds nothing until it has locked  *)
(* the mutex again, and then goes on in one step.                          *)
(*                                                                         *)
(* Clients keep to the contract: only a thread that holds the lock unlocks *)
(* it; a thread that holds a non-recursive lock does nothing else with it; *)
(* one that holds a recursive lock only locks it again the same way.       *)
(***************************************************************************)
EXTENDS Integers, FiniteSets

CONSTANTS
  Threads,
  Readers,            \* the threads that lock for reading
  Writers,            \* the threads that lock for writing
  TimedReaders,       \* those whose waits may have a time limit
  TimedWriters,
  TryLocks,           \* whether threads call the functions that never wait
  Recursive,          \* QReadWriteLockPrivate::recursive
  MaxDepth,           \* how often a thread locks a recursive lock
  SpuriousWakeups

ASSUME RWAssumption ==
  /\ IsFiniteSet(Threads)
  /\ Readers \subseteq Threads /\ Writers \subseteq Threads
  /\ TimedReaders \subseteq Readers /\ TimedWriters \subseteq Writers
  /\ TryLocks \in BOOLEAN /\ Recursive \in BOOLEAN
  /\ MaxDepth \in Nat \ {0}
  /\ ~Recursive => MaxDepth = 1

NoThread == "none"

ASSUME NoThreadAssumption == NoThread \notin Threads

VARIABLES
  accessCount, waitingReaders, waitingWriters,
  currentWriter,    \* kept by a recursive lock only, like currentReaders:
  currentReaders,   \* how often each thread reads, 0 for those not in the hash
  waits,            \* the state of readerWait and writerWait
  held              \* what the threads think: see ReadWriteSpec

counts == <<accessCount, waitingReaders, waitingWriters, currentWriter, currentReaders>>
vars == <<counts, waits, held>>

W == INSTANCE QWaitCondition WITH Conditions <- {"readerWait", "writerWait"}

Calling(t) == waits.place[t] # "out"

Init ==
  /\ accessCount = 0 /\ waitingReaders = 0 /\ waitingWriters = 0
  /\ currentWriter = NoThread
  /\ currentReaders = [t \in Threads |-> 0]
  /\ waits = W!Start
  /\ held = [t \in Threads |-> 0]

-----------------------------------------------------------------------------
(* Reading *)

\* A thread that reads already: the lock is recursive.
ReadAgain(t) ==
  /\ ~Calling(t)
  /\ Recursive /\ currentReaders[t] > 0 /\ held[t] < MaxDepth
  /\ currentReaders' = [currentReaders EXCEPT ![t] = @ + 1]
  /\ accessCount' = accessCount + 1
  /\ held' = [held EXCEPT ![t] = @ + 1]
  /\ UNCHANGED <<waitingReaders, waitingWriters, currentWriter, waits>>

\* The end of the three functions: the thread has the lock for reading.
HoldForRead(t) ==
  /\ accessCount' = accessCount + 1
  /\ currentReaders' = IF Recursive THEN [currentReaders EXCEPT ![t] = 1]
                                    ELSE currentReaders
  /\ held' = [held EXCEPT ![t] = 1]
  /\ UNCHANGED <<waitingWriters, currentWriter>>

\* Broken: only a lock that is held for writing stops readers.
ReadersMustWait_NotForWaiters == accessCount < 0

ReadersMustWait == accessCount < 0 \/ waitingWriters # 0

\* lockForRead() and tryLockForRead(timeout), up to the first wait
LockForRead(t) ==
  /\ t \in Readers /\ ~Calling(t) /\ held[t] = 0
  /\ \/ /\ ~ReadersMustWait
        /\ HoldForRead(t)
        /\ UNCHANGED <<waitingReaders, waits>>
     \/ /\ ReadersMustWait
        /\ waitingReaders' = waitingReaders + 1
        /\ \E timed \in BOOLEAN :
             /\ timed => t \in TimedReaders
             /\ waits' = W!AfterBegin(waits, t, "readerWait", timed)
        /\ UNCHANGED <<accessCount, waitingWriters, currentWriter, currentReaders, held>>

\* ... and from the end of a wait on.  Another wait begins anew, with the whole
\* of its time limit.
ReaderWakes(t) ==
  /\ waits.place[t] \in W!Done /\ waits.on[t] = "readerWait"
  /\ \/ /\ waits.place[t] = "failed"
        /\ waitingReaders' = waitingReaders - 1
        /\ waits' = W!AfterReturn(waits, t)
        /\ UNCHANGED <<accessCount, waitingWriters, currentWriter, currentReaders, held>>
     \/ /\ waits.place[t] = "succeeded" /\ ReadersMustWait
        /\ waits' = W!AfterBegin(waits, t, "readerWait", waits.timed[t])
        /\ UNCHANGED <<counts, held>>
     \/ /\ waits.place[t] = "succeeded" /\ ~ReadersMustWait
        /\ waitingReaders' = waitingReaders - 1
        /\ waits' = W!AfterReturn(waits, t)
        /\ HoldForRead(t)

\* tryLockForRead() that succeeds; waiting writers do not stop it.
TryLockForRead(t) ==
  /\ TryLocks /\ t \in Readers /\ ~Calling(t) /\ held[t] = 0
  /\ accessCount >= 0
  /\ HoldForRead(t)
  /\ UNCHANGED <<waitingReaders, waits>>

-----------------------------------------------------------------------------
(* Writing *)

\* A thread that writes already: the lock is recursive.
WriteAgain(t) ==
  /\ ~Calling(t)
  /\ Recursive /\ currentWriter = t /\ -held[t] < MaxDepth
  /\ accessCount' = accessCount - 1
  /\ held' = [held EXCEPT ![t] = @ - 1]
  /\ UNCHANGED <<waitingReaders, waitingWriters, currentWriter, currentReaders, waits>>

HoldForWrite(t) ==
  /\ accessCount' = accessCount - 1
  /\ currentWriter' = IF Recursive THEN t ELSE currentWriter
  /\ held' = [held EXCEPT ![t] = -1]
  /\ UNCHANGED <<waitingReaders, currentReaders>>

\* lockForWrite() and tryLockForWrite(timeout), up to the first wait
LockForWrite(t) ==
  /\ t \in Writers /\ ~Calling(t) /\ held[t] = 0
  /\ \/ /\ accessCount = 0
        /\ HoldForWrite(t)
        /\ UNCHANGED <<waitingWriters, waits>>
     \/ /\ accessCount # 0
        /\ waitingWriters' = waitingWriters + 1
        /\ \E timed \in BOOLEAN :
             /\ timed => t \in TimedWriters
             /\ waits' = W!AfterBegin(waits, t, "writerWait", timed)
        /\ UNCHANGED <<accessCount, waitingReaders, currentWriter, currentReaders, held>>

\* Broken: a writer that got the lock after a wait stays counted.
WriterWakes_StillWaiting(t) ==
  /\ waits.place[t] \in W!Done /\ waits.on[t] = "writerWait"
  /\ \/ /\ waits.place[t] = "failed"
        /\ waitingWriters' = waitingWriters - 1
        /\ waits' = W!AfterReturn(waits, t)
        /\ UNCHANGED <<accessCount, waitingReaders, currentWriter, currentReaders, held>>
     \/ /\ waits.place[t] = "succeeded" /\ accessCount # 0
        /\ waits' = W!AfterBegin(waits, t, "writerWait", waits.timed[t])
        /\ UNCHANGED <<counts, held>>
     \/ /\ waits.place[t] = "succeeded" /\ accessCount = 0
        /\ waits' = W!AfterReturn(waits, t)
        /\ UNCHANGED waitingWriters
        /\ HoldForWrite(t)

\* ... and from the end of a wait on.
WriterWakes(t) ==
  /\ waits.place[t] \in W!Done /\ waits.on[t] = "writerWait"
  /\ \/ /\ waits.place[t] = "failed"
        /\ waitingWriters' = waitingWriters - 1
        /\ waits' = W!AfterReturn(waits, t)
        /\ UNCHANGED <<accessCount, waitingReaders, currentWriter, currentReaders, held>>
     \/ /\ waits.place[t] = "succeeded" /\ accessCount # 0
        /\ waits' = W!AfterBegin(waits, t, "writerWait", waits.timed[t])
        /\ UNCHANGED <<counts, held>>
     \/ /\ waits.place[t] = "succeeded" /\ accessCount = 0
        /\ waitingWriters' = waitingWriters - 1
        /\ waits' = W!AfterReturn(waits, t)
        /\ HoldForWrite(t)

\* Broken: only readers keep a writer out.
TryLockForWrite_ChecksReaders(t) ==
  /\ TryLocks /\ t \in Writers /\ ~Calling(t) /\ held[t] = 0
  /\ accessCount <= 0
  /\ HoldForWrite(t)
  /\ UNCHANGED <<waitingWriters, waits>>

\* tryLockForWrite() that succeeds
TryLockForWrite(t) ==
  /\ TryLocks /\ t \in Writers /\ ~Calling(t) /\ held[t] = 0
  /\ accessCount = 0
  /\ HoldForWrite(t)
  /\ UNCHANGED <<waitingWriters, waits>>

-----------------------------------------------------------------------------
(* Unlocking *)

\* Broken: the readers come first.
WakeNext_ReadersFirst ==
  \/ waitingReaders > 0 /\ waits' = W!AfterWakeAll(waits, "readerWait")
  \/ /\ waitingReaders = 0 /\ waitingWriters > 0
     /\ waits' \in W!AfterWakeOne(waits, "writerWait")
  \/ waitingWriters = 0 /\ waitingReaders = 0 /\ UNCHANGED waits

\* The lock is free: one writer is woken if any waits, all readers if none does.
WakeNext ==
  \/ waitingWriters > 0 /\ waits' \in W!AfterWakeOne(waits, "writerWait")
  \/ /\ waitingWriters = 0 /\ waitingReaders > 0
     /\ waits' = W!AfterWakeAll(waits, "readerWait")
  \/ waitingWriters = 0 /\ waitingReaders = 0 /\ UNCHANGED waits

\* Broken: the writer's name stays on the books.
Unlock_KeepsWriter(t) ==
  /\ held[t] # 0 /\ ~Calling(t)
  /\ \/ /\ accessCount > 0
        /\ accessCount' = accessCount - 1
        /\ currentReaders' = IF Recursive /\ currentReaders[t] > 0
                             THEN [currentReaders EXCEPT ![t] = @ - 1]
                             ELSE currentReaders
     \/ /\ accessCount < 0
        /\ accessCount' = accessCount + 1
        /\ UNCHANGED currentReaders
  /\ IF accessCount' = 0 THEN WakeNext ELSE UNCHANGED waits
  /\ held' = [held EXCEPT ![t] = IF @ > 0 THEN @ - 1 ELSE @ + 1]
  /\ UNCHANGED <<waitingReaders, waitingWriters, currentWriter>>

\* unlock()
Unlock(t) ==
  /\ held[t] # 0 /\ ~Calling(t)
  /\ \/ /\ accessCount > 0
        /\ accessCount' = accessCount - 1
        /\ currentReaders' = IF Recursive /\ currentReaders[t] > 0
                             THEN [currentReaders EXCEPT ![t] = @ - 1]
                             ELSE currentReaders
        /\ UNCHANGED currentWriter
     \/ /\ accessCount < 0
        /\ accessCount' = accessCount + 1
        /\ currentWriter' = IF accessCount = -1 THEN NoThread ELSE currentWriter
        /\ UNCHANGED currentReaders
  /\ IF accessCount' = 0 THEN WakeNext ELSE UNCHANGED waits
  /\ held' = [held EXCEPT ![t] = IF @ > 0 THEN @ - 1 ELSE @ + 1]
  /\ UNCHANGED <<waitingReaders, waitingWriters>>

-----------------------------------------------------------------------------
\* The threads inside QWaitCondition::wait()
Waiting(t) ==
  /\ W!Timeout(t) \/ W!SpuriousWakeup(t) \/ W!Proceed(t)
  /\ UNCHANGED <<counts, held>>

Next ==
  \E t \in Threads :
    \/ ReadAgain(t) \/ LockForRead(t) \/ ReaderWakes(t) \/ TryLockForRead(t)
    \/ WriteAgain(t) \/ LockForWrite(t) \/ WriterWakes(t) \/ TryLockForWrite(t)
    \/ Unlock(t) \/ Waiting(t)

Spec == Init /\ [][Next]_vars

\* Woken threads run, the QMutex is given to those that wait for it, and holders
\* unlock in the end, as often as they locked.  Nobody has to call, no time-out
\* has to come, and the kernel need not wake anybody for no reason.
Fairness ==
  \A t \in Threads :
    /\ WF_vars(W!Proceed(t) /\ UNCHANGED <<counts, held>>)
    /\ WF_vars(ReaderWakes(t)) /\ WF_vars(WriterWakes(t))
    /\ WF_vars(Unlock(t)) /\ SF_vars(Unlock(t) /\ held'[t] = 0)

FairSpec == Spec /\ Fairness

-----------------------------------------------------------------------------
(* Properties *)

\* One element for each time a thread holds the lock
ReadHolds  == {h \in Threads \X (1..MaxDepth) : h[2] <= held[h[1]]}
WriteHolds == {h \in Threads \X (1..MaxDepth) : h[2] <= -held[h[1]]}

InWait(c) == {t \in Threads : Calling(t) /\ waits.on[t] = c}

\* Types, and the bounds the counts must keep to.
TypeOK ==
  /\ accessCount \in -MaxDepth..(MaxDepth * Cardinality(Threads))
  /\ waitingReaders \in 0..Cardinality(Threads)
  /\ waitingWriters \in 0..Cardinality(Threads)
  /\ currentWriter \in Threads \cup {NoThread}
  /\ currentReaders \in [Threads -> 0..MaxDepth]
  /\ held \in [Threads -> -MaxDepth..MaxDepth]
  /\ W!TypeOK

\* The lock's books are right: accessCount is what the threads hold together, and
\* the waiting counts are the threads that wait, those included that have been
\* woken or timed out and are still to lock the QMutex.
BooksExact ==
  /\ accessCount = Cardinality(ReadHolds) - Cardinality(WriteHolds)
  /\ waitingReaders = Cardinality(InWait("readerWait"))
  /\ waitingWriters = Cardinality(InWait("writerWait"))

\* A recursive lock knows who holds it, and a lock that is not recursive never
\* keeps anybody on its books.
HoldersKnown ==
  \A t \in Threads :
    /\ currentReaders[t] = (IF Recursive /\ held[t] > 0 THEN held[t] ELSE 0)
    /\ currentWriter = t <=> Recursive /\ held[t] < 0

\* The counts of the two wait conditions are right, too.
WaitersExact == W!WaitersExact

\* The lock is a read-write lock.
RW == INSTANCE ReadWriteSpec

ImplementsReadWrite == RW!Spec

\* While somebody waits without a time limit, the lock does not stay free.
Progress ==
  (\E t \in Threads : Calling(t) /\ ~waits.timed[t]) ~> (accessCount # 0)

\* A writer that waits gets the lock, however busy the readers are ("To
\* ensure that writers aren't blocked forever by readers", qreadwritelock.cpp:76).
WriterServed ==
  \A t \in Writers : (t \in InWait("writerWait")) ~> (held[t] < 0)

\* "This function will block the current thread if another thread has locked for
\* writing" (lockForRead(), qreadwritelock.cpp:135): a reader is not left asleep
\* by a lock that is free, with nobody around to wake it.
NoReaderStranded ==
  ~ /\ \E t \in Threads : waits.place[t] = "asleep" /\ waits.on[t] = "readerWait"
    /\ \A t \in Threads : held[t] = 0 /\ waits.place[t] \in {"asleep", "out"}
    /\ waitingWriters = 0

\* "Readers attempting to obtain a lock will not succeed if there is a blocked
\* writer waiting for access" (qreadwritelock.cpp:76-78).
WritersFirst ==
  [][\A t \in Threads :
       held[t] = 0 /\ held'[t] > 0 => waitingWriters = 0]_vars
=============================================================================
