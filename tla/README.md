# QtCore threading and events in TLA+

This directory holds TLA+ models of the thread synchronisation in Qt 5's
`src/corelib/thread`, of the posted events and event loops in `kernel/` and of the
lock-free list of free ids in `tools/`, the TLC configurations that check them, and TLAPS proofs.
Paths below are relative to `src/corelib/` unless they begin with another
directory. `qcoreapplication`, `qobject`, `qeventloop` and `qeventdispatcher_unix` are
in `kernel/`, `qfreelist_p.h` is in `tools/`, other files named without a directory in `thread/`.

Run a check with `tlc -config MCQMutexFutex.cfg MCQMutexFutex` and a proof with
`tlapm QMutexFutex_proofs.tla`; the proofs about a module `M` are in `M_proofs`.
`PROJECT.json` lists all runs, the code lines behind each definition, a mutant for each
property, and the hazards.

## 1. Inventory

### What the repository is

Qt 5 base: the libraries QtCore, QtGui, QtWidgets, QtNetwork, QtConcurrent,
QtDBus, QtSql, QtXml and others, platform plugins, and the tools (qmake, moc, rcc,
uic). What carries the concurrency of all of them is QtCore's threading and event
system. It is where mistakes depend on interleavings that tests reach by luck only,
and it is the part this project is about.

### Components

| Component | State | Operations | Uses | Hard because of | Correct when |
|---|---|---|---|---|---|
| QMutex, Linux (`qmutex.h`, `qmutex_linux.cpp`) | one word | lock, tryLock, tryLock(ms), unlock | `futex(2)` | lock-free word, kernel queue, signals, time-outs | excludes; loses no wake-up; timed calls return |
| QMutex, generic (`qmutex.cpp`, `qmutex_p.h`, `qmutex_unix.cpp`) | one word, a shared pool of QMutexPrivate | the same | QFreeList, pthread condition | reference counts and reuse of privates, hand-over, a flag for time-outs | excludes; counts exact; private clean when reused |
| QRecursiveMutex (`qmutex.cpp:613-656`) | owner, count | lock, unlock | QMutex | owner read without the lock | as a lock, per thread |
| QWaitCondition (`qwaitcondition_unix.cpp`) | waiters, wakeups | wait, wakeOne, wakeAll | pthread | time-out racing a wake-up, spurious wake-ups | counts exact; who is woken leaves |
| QReadWriteLock (`qreadwritelock.cpp`) | five counts | lock/tryLock for read and write, unlock | QMutex, 2 QWaitConditions | writer preference, recursion, time-outs | many readers or one writer; nobody stranded |
| QThreadPool (`qthreadpool.cpp`, `qrunnable.h`) | threads, queue, counters | start, tryStart, setMaxThreadCount, reserve/release, waitForDone, steal | QMutex, 2 QWaitConditions, QThread | expiry, restart, resizing, tasks that delete themselves | each task run as often as started; waitForDone tells the truth |
| QSemaphore (`qsemaphore.cpp`) | avail | acquire, tryAcquire, release | QMutex, QWaitCondition | timed acquire | avail never negative; no units lost |
| QThread (`qthread.cpp`, `qthread_unix.cpp`) | running, finished, exited, isInFinish, quitNow | start, exec, exit, wait, finish | QMutex, QWaitCondition, QEventLoop | finish() gives its mutex up twice; exit() before exec() | an exit() is obeyed; wait() returns when finished |
| Posted events (`qcoreapplication.cpp:1107-1447`, `qthread_p.h:74-130`) | per thread: list, startOffset, insertionOffset, recursion, canWait | postEvent, sendPostedEvents, removePostedEvents, moveToThread | QMutex, the dispatcher | handlers that call back into it; several threads posting | each event delivered once or removed; order by priority |
| QEventLoop, UNIX dispatcher (`kernel/qeventloop.cpp`, `kernel/qeventdispatcher_unix.cpp`) | exit, eventLoops, wakeUps, pipe, interrupt | exec, exit, processEvents, wakeUp, interrupt | posted events, timers | wake-up between draining the pipe and resetting the flag | a posted event or exit() wakes the loop |
| QFreeList (`tools/qfreelist_p.h`) | links, `_next` with a serial number | next, release | atomics | ABA | an id is out once at a time |
| Timers (`kernel/qtimerinfo_unix.cpp`) | sorted list | register, unregister, activate | the dispatcher | handlers change the list | fires in order, not re-entrantly |
| Connections (`kernel/qobject.cpp`) | connection lists | connect, disconnect, activate, ~QObject | two mutexes of a pool | change during emission | no slot of a dead object |
| QFutureInterface, QtConcurrent | state bits, results | report, wait, cancel | QMutex, QWaitCondition, QThreadPool | pause, cancel, continuation of threads | all results, in order |
| the rest of QtCore, QtNetwork, QtGui, QtWidgets, … | | | | | see "Not modelled" |

### How they interact

QWaitCondition gives up and retakes a QMutex. QReadWriteLock, QThreadPool,
QSemaphore and QThread are monitors: one QMutex guards their state, and it is only
given up inside `QWaitCondition::wait()`. QThreadPool starts and joins QThreads and
is the only user of their restart. The generic QMutex takes its private parts from a
QFreeList. An event loop sleeps in a dispatcher that other threads wake by posting.

The modules follow that layering: the two implementations of QMutex are shown to
implement `LockSpec`, and the monitors above are modelled with critical sections as
single steps, which is what `LockSpec` justifies.

### Hard to test

`PROJECT.json`, "hazards", lists each hazard at its line, with the properties that
would catch it; those without a property say why. In short: lost wake-ups and
overwritten marks in the two mutexes; a private reused for another mutex while a
slow thread still looks at it; time-outs that race wake-ups, in every one of the
waits; counters of waiters and of active threads that several threads keep; a
thread that expires, or has not quite finished, when work is given to it; the
re-entrant walk through the list of posted events; exit() against exec().

## 2. Plan

| Step | Modules | State |
|---|---|---|
| 1 | `LockSpec`, `QMutexFutex` and its proofs | done |
| 2 | `QMutexGeneric` | done |
| 3 | `QWaitCondition`, `ReadWriteSpec`, `QReadWriteLock` and its proofs | done |
| 4 | `ExecutorSpec`, `QThreadPool` | done |
| 5 | `MailboxSpec`, `QPostedEvents`: the list, its indices, nested sendPostedEvents(), deferred deletes, posts by other threads, moving objects | done |
| 6 | `QEventLoop`: exec(), exit(), the wake-up flag and the pipe, and the life of a QThread over `QWaitCondition` | done |
| 7 | `IdPoolSpec`, `QFreeList`: the id list that `QMutexGeneric` takes as given | done |
| 8 | Proofs: `QMutexGeneric`, `QFreeList`, `QEventLoop` with the lemmas of `QWaitCondition`, `QThreadPool` | done |
| 9 | Proofs: `QPostedEvents`, its lists and calls first, then what a step may do and the refinement of `MailboxSpec` | done |
| 10 | `QSemaphore` over `QWaitCondition`; timers and handlers that call processEvents() in `QEventLoop`; connections of `kernel/qobject.cpp` | candidates |

There is one run per question asked of a module. Where a formula fails on the code and a
narrower one can be checked instead, section 6 keeps the failing one on record.

## 3. The modules and the code

Every module names the source's functions and variables. A thread's place in a
function is `pc` (the mutexes) or `waits.place` (the monitors). Definitions named
`Something_Wrong` are broken variants of `Something`, each a plausible slip; they
occur in no specification and serve to show that the properties notice.

**`LockSpec`** is the abstract mutex: who owns it, and what each thread asks for.
lock() ends owning, tryLock() owning or refused, only an owner releases.

**`QMutexFutex`** models `qmutex_linux.cpp` and the inline functions of `qmutex.h`.
`d_ptr` is 0, 1 (locked) or 3 (locked, somebody may wait). Each atomic operation
and each futex call is an action; the kernel's queue is the set of threads at
"sleeping". `FutexWait` compares and sleeps in one step, as the kernel does.
`Expire` lets the time of a call pass anywhere in it, `FutexInterrupt` is EINTR.
A call is classified by its timeout: lock(), tryLock(0), tryLock(ms), and
tryLock(-1), which the kernel answers with EINVAL.

**`QMutexGeneric`** models `lockInternal()`, `unlockInternal()`, `derefWaiters()`,
`ref()`, `allocate()`, `wait()` and `wakeUp()`. Several mutexes share the privates.
A step is one atomic operation, or one critical section of the private's pthread
mutex. A free private is one with `refCount` 0, and `Allocate` takes any of them:
this is more than QFreeList would offer; `QFreeList` shows that an id is out to one
thread at a time, which is what `Allocate` takes as given.

**`QWaitCondition`** describes the threads inside wait() of any number of
conditions: `waiters`, `wakeups`, and where each thread is. It has no specification
of its own. The modules above INSTANCE it, use `AfterBegin`, `AfterWakeOne`,
`AfterWakeAll` and `AfterReturn` inside their critical sections, and take
`Timeout`, `SpuriousWakeup` and `Proceed` as steps of the threads that wait. A
thread that has left wait() still has to lock its QMutex: in that gap
("succeeded", "failed") others run.

**`QReadWriteLock`** models the class, plain and recursive, over two conditions.
`held` is what the threads believe, and is the variable of **`ReadWriteSpec`**:
any number hold for reading, or one for writing.

**`QThreadPool`** models every function of the pool and the loop of its threads.
`pool` is the record of QThreadPoolPrivate's members, with each task's reference
count and each thread's runnable and phase. `TryStartTask` and its fellows map a
state of the pool to the outcomes the function may have, so that
`TryToStartMoreThreads` can call it in its loop, with the reference counting and
waking that this implies. `UpperBound` is the binary search of std::upper_bound()
over the queue. reset() is several steps: it gives the mutex up while it joins
threads. Of QThread it models that start() does nothing for a thread whose
finish() has not come yet. **`ExecutorSpec`** is what a pool promises: each start of a
task adds one to what is pending, only the beginning of a run or a withdrawal takes one
away, and a client is told that all is done only when nothing is pending or run. Its
counts of starts and withdrawals are `starts` and the history `stolen`, which
StealRunnable() alone raises, so that a queue entry that vanished or came twice would be
a step of neither; what is pending are the entries of the queue and the runnables given
to threads. That what is pending will be run it does not say (`TasksRun`; section 6).

**`QPostedEvents`** models the posted events of several threads. `data` has the members
of QPostEventList and canWait, `stack` the calls a thread is in: sendPostedEvents(),
the handlers it calls and event loops, inside each other. From it follow `recursion` and
`loopLevel`, as the code counts them. `Walked` is the loop of sendPostedEvents() from
one delivery to the next, with the index that is startOffset itself for a call that sends
everything and a copy of it for one that does not. The list is unlocked during a handler,
and there the program may call anything again, move and delete objects; a poster in a
thread of its own reads threadData, locks, reads it again and follows. **`MailboxSpec`**
is what is promised: an event waits until it is delivered, once and in the thread where
its receiver lives, or is removed. It leaves the order open, which `InOrderPosted` states.

**`QEventLoop`** models a QThread, its dispatcher and the threads around it. The thread
goes round `pc`: start, run(), exec(), the rounds of QEventLoop::exec() and
processEvents(), finish(). What the loop reads without a lock is a step each: the exit
flag of the loop, interrupt, canWait, the pipe, the flag `wakeUps`; so are the two
operations of wakeUp() and the operations of exit(). Of the list of events it keeps two numbers:
how many there are, and how many the current sendPostedEvents() may deliver. That the
list itself is right is what `QPostedEvents` shows. start() and wait() sleep in a
`QWaitCondition`.

**`QFreeList`** models next() and release(), a step for every access to `_next`, to a
block pointer and to an element. **`IdPoolSpec`** is what it promises.

The MC modules give values to the constants that are functions, and symmetry
(`MCQMutexGeneric`, `MCQPostedEvents`, `MCQFreeList`, in safety runs only).

## 4. The runs

Sizes are distinct states. Most runs take less than a minute with two workers, `events`,
`freelist`, `pool_safety` and `pool_transfers` one to two and a half minutes.

| Run | Instance | Shows |
|---|---|---|
| `futex` | 3 threads, 4 kinds of call; 65 113 | Implements `LockSpec`; `WordIsTruthful` (the source's assertions); `NoLostWakeup`; under fairness `Progress` and `TimedCallsReturn` |
| `generic_safety` | 3 threads, 2 mutexes, 2 privates, `Unhurried`; 718 730 up to symmetry | Exclusion; `BooksSound`: reference counts exact and the source's assertions (`FreeIsClean`, `GrabFindsNoWaiters`, `CountedWaitersCount`); `NoLostWakeup` |
| `generic_live` | 2 threads, 1 mutex, 3 privates, every schedule; 120 624 | Implements `LockSpec`; `Progress` |
| `rw_plain` | 3 threads, each reads and writes, with time limits, try-locks, spurious wake-ups; 153 303 | Books of the lock and its conditions exact; implements `ReadWriteSpec` |
| `rw_recursive` | recursive, 2 readers and a writer who reads, depth 2; 4 736 | `HoldersKnown`, `Progress`, `WriterServed` |
| `pool_safety` | 3 pool threads, 2 clients with and without time limits, 2 tasks that restart themselves, limit 2, expiry, unfinished threads restarted; 2 374 527 | `ActiveExact`; `DeletedWhenDone`: a task is deleted when its last run is over, not before and not later; `SignalledLeave` |
| `pool_transfers` | 3 pool threads, 1 client, 2 tasks that restart themselves, limit 1 or 2, expiry, stealing, unfinished threads restarted, spurious wake-ups; 1 618 638 | Tasks that move from the queue to threads when the limit rises: implements `ExecutorSpec`; `WithinLimit`; `AllRemoved` |
| `pool_resized` | limit 0 or 2, no expiry, prompt ends; 9 994 | `TasksRun`, `ClientsReturn` |
| `events` | 2 threads of which one nests its calls two deep, a poster, 2 objects, 2 priorities, 3 events to one object or 2 to two; 600 915 up to symmetry | Implements `MailboxSpec`; `ListSound`, `InOrderPosted`, `DeletedAfterReturn`; `NoEventLeftBehind`: the loop does not sleep on an event |
| `loop` | a QThread, 2 clients, 2 loops inside each other, 2 starts, 2 posts, an exit(), spurious wake-ups; 101 576 | `WakeUpsKept`; under fairness `EventsDelivered`, `ExitObeyed`, `WaitReturns` |
| `freelist` | 3 threads, 3 ids in 2 blocks, 3 serial numbers; 2 165 813 up to symmetry | Implements `IdPoolSpec`; `ListSound`: the list of free ids is whole |
| `generic_two_owners` | 3 threads, every schedule | a violation, see section 6 |

`CHECK_DEADLOCK FALSE` stands in the configurations of the pool and the event loop only:
once everything has been started, posted and called as often as the bounds allow, a
pool or a loop may have nothing to do but sleep.

### Bounds, and why they are enough

- *Threads.* Three for the mutexes and the lock: an owner, a waiter and one that
  comes in between. Every hazard listed needs no more. `generic_live` has two,
  because with three the graph is too large for a liveness check.
- *Mutexes and privates.* Two mutexes and two privates: the least with which a
  private goes from one mutex to the other under a slow thread. In `generic_safety`
  a thread that finds no private waits for one; the real list ends at
  index 0xffff (`qmutex.cpp:558`). `Progress` says "or the privates have run out".
- *`BigNumber`* is 10 rather than 0x100000; the only thing asked of it, in the
  source as in `BigNumberAssumption`, is to exceed the number of threads.
- *Depth 2* of a recursive lock: first, repeated, last.
- *Pool.* `MaxStarts` (2) starts of each task, `MaxReserved`, and a supply of
  thread objects; a call that could need more objects than are left is not made
  (`EnoughThreads`). One thread more than the limit lets the expired be replaced.

- *Events.* Three events to one object are the least with which the stale index of a
  call shows (`AlwaysInOrder`, section 6); two to two objects serve the filters. A
  thread that nests two sendPostedEvents() and one loop has an outer and an inner walk
  through the list, with any call in between. `MaxLength` bounds what moveToThread()
  may pile up.
- *Loop.* Two loops inside each other, and two starts, so that a second run meets what
  the first one left; one exit(), by the handler or by a client, and two posts.
- *Free list.* Three ids: one to read, one that follows it, one more; `MaxHeld` of them
  to a thread. ABA needs one release while a thread works with what it has read; three
  serial numbers leave room for it and one more.

### Fairness

`futex`, `generic_live`: every thread that can take a step of its own call takes
it, an owner unlocks in the end, and time passes for a timed call. In the generic
mutex that includes time-outs. Nobody is made to call, no signal and no spurious
wake-up has to come, and no thread is promised the mutex: the fast path of the code
lets a newcomer overtake, so `Progress` says that *somebody* owns the mutex, which
is what the code can promise.
`rw_recursive`: woken threads run, the QMutex goes to those who want it, and
holders unlock. Strong fairness of the last unlock stands for "a holder unlocks as
often as it locked": without it a recursive holder may lock and unlock for ever.
No time-out has to come.
`pool_resized`: pool threads run on, tasks end, clients inside waitForDone() go on.

`loop`: the thread takes its steps, handlers included, and what has begun goes on: a
wakeUp(), an exit() on its way through the loops, a woken thread on its way out of
wait(), for which strong fairness stands in for a QMutex that is given to each in the
end. Nobody has to call anything, run() may call exec() again or end, and no time limit
has to pass.

### Assumptions about the environment

Clients keep to the documented contract: only an owner unlocks, an owner does not
lock again (unless recursive, the same way), and a task that deletes itself is only
started again from its own run(). Who posts to an object keeps it alive, and the thread it
lives in from ending, until postEvent() is over (`Destroy`, `DeleteDispatcher`): the code
takes no lock for either. Nobody needs more ids than a free list has, and no thread is
overtaken in it by as many releases as there are serial numbers (128 in the default
list, `qfreelist_p.h:184`). Six constants narrow the schedules, and each says
in its module what it rules out:

- `Unhurried` (generic mutex): nobody runs between the grab of a mutex
  (`qmutex.cpp:468`) and `waiters.store(0)` (`:471`). Without it exclusion fails,
  see `generic_two_owners`; with it the rest of the protocol can be checked.
- `PromptEnd` (pool): finish() follows the end of run() before anybody else locks
  the pool. Without it, see `NoTaskLost` in section 6. Only `pool_resized`
  assumes it.
- `QuietReset` (pool): nobody calls the pool while a client is in reset().
- `Expiry = FALSE`: expiryTimeout is negative. `pool_safety` and `pool_transfers` have
  it TRUE.
- `UnhurriedExit` (event loop): exit() does not call interrupt() between a nested
  loop's test of its exit flag and its `interrupt = false`. Without it, see `WakeUpsKept`
  in section 6.
- `SpuriousWakeups`: TRUE in the lock's runs, `loop` and `pool_transfers`; FALSE in
  `pool_safety`, which checks `SignalledLeave`, and in `pool_resized`.

## 5. What is proved

### The futex mutex

`QMutexFutex_proofs`, for every set of threads and every mix of calls, from
`TimeoutsAssumption` only (it names the kinds of call):

| Theorem | States |
|---|---|
| `TypeCorrect` | `Spec => []TypeOK` |
| `Exclusion` | `Spec => []MutualExclusion` |
| `Truth` | `Spec => []WordIsTruthful` |
| `WakeupsKept` | `Spec => []NoLostWakeup` |
| `Implementation` | `Spec => ImplementsLock` |

The inductive invariant is the conjunction of the four safety properties, and none
of the later three is inductive alone. Exclusion rests on the word: a thread becomes
an owner only by finding 0, so 0 must mean that nobody owns. The word is truthful
because only one owner can store 0. And a sleeper is owed a wake-up because the
thread that turns a 3 into a 0 goes on to "wake", while the other way to unlock, the
compare-and-swap from 1, does not touch a 3. A woken thread passes through the exchange, which puts the 3 back;
that is why `NoLostWakeup` counts "exchange" and "retry". `TypeInductive`,
`ExclusionInductive` and `WakeupInductive` each take one step per action.

`StepRefines` maps steps: the two ways to find 0 are `Acquire`, leaving at
"refused" is `GiveUp`, the two stores of 0 are `Release`, and all else stutters. It
needs the invariant in two places: an acquiring thread must find `owners` empty, and
only a caller with a time limit may reach "refused".

### The read-write lock

`QReadWriteLock_proofs`, for every finite set of threads, every depth, both modes
and every choice of time limits and spurious wake-ups, from `RWAssumption` and
`NoThreadAssumption` (the name for "nobody", a null pointer in the code, is no
thread):

| Theorem | States |
|---|---|
| `TypeCorrect` | `Spec => []TypeOK`, bounds of all counts included |
| `Books` | `Spec => []BooksExact` |
| `Waits` | `Spec => []WaitersExact`, of both wait conditions |
| `Holders` | `Spec => []HoldersKnown` |
| `Implementation` | `Spec => ImplementsReadWrite` |

The inductive invariant `IInv` has three parts.

- `HoldInv`: `accessCount` is `Balance(held)`, the read holds less the write holds;
  the recursive books agree with `held`; and `WriterAlone`. That last part is why
  the code can tell from one integer who holds the lock: a negative `accessCount`
  is the depth of one writer, and nobody else holds, so that 0 means free and not
  "as many readers as writers". `NobodyHolds` draws these conclusions, and with
  them picks the branch `unlock()` takes.
- `WaitInv`: each wait condition is `Sound` (its `waiters` are the threads inside
  `wait()`), and `waitingReaders` and `waitingWriters` count `Waiters`: a larger set,
  which keeps the threads that have left `wait()` and not yet locked the QMutex.
- `WaitersHoldNothing`: without it a reader back from `wait()` might hold already,
  and setting its entry to 1 would falsify the books.

The lemmas go from data to steps: what adding an element does to a cardinality
(`HoldsOnce`, `BalanceUp`), what beginning, waking and returning do to the value of a
wait condition (`BeginSound`, `WakeOneSound`, `ReturnSound`), then one lemma for each
part of `IInv` with a case for each action (`HoldInductive`, `WaitInductive`,
`WaitersKept`). The refinement maps every step that changes `held` to the abstract
step of its name; `IInv` supplies the abstract guards, which the code never states.

### The generic mutex

`QMutexGeneric_proofs`, for every finite set of threads, every set of mutexes and of
privates, every mix of calls, and every `BigNumber` larger than the number of threads,
from the assumptions of `QMutexGeneric`. Each theorem is for the schedules `Unhurried`
asks for; `generic_two_owners` shows that without them even exclusion fails.

| Theorem | States |
|---|---|
| `InvariantHolds` | `Unhurried => (Spec => []IInv)` |
| `Excludes` | ... `Spec => []MutualExclusion` |
| `BooksAreSound` | ... `Spec => []BooksSound`: exact reference counts, and the assertions of the source |
| `NoWakeupLost` | ... `Spec => []NoLostWakeup` |
| `TypeCorrect` | ... `Spec => []TypeOK`: at most as many references as threads and two more, at most as many waiters as threads |
| `ImplementsTheLock` | ... `Spec => ImplementsLock` |

None of the properties is inductive. `IInv` has ten parts:

- `ServesOne`: while it is referenced, a private serves one mutex. What a thread that
  has seen the private in its word knows of it, another one's allocation must not
  change: a thread that allocates finds a private with no references, and by
  `RefCountExact` nobody who has seen it holds it (`FreeServesNone`).
- `WordSound`: at some places of the two functions the word is known to be one's private
  (`On`), at others it is known not to be any more (`Off`), although the thread does not
  look at it. This is the part that says what each load of `d_ptr` was good for.
- `Baton`: owners, and threads that have given the mutex up and not yet handed it on,
  are at most one together, and the wake-up flag is up if and only if there is none:
  exclusion is this, and so is half of `NoLostWakeup`.
- `CountSound`: `waiters` is the number of threads counted on the private, less
  `BigNumber` while an unlock is under way, and what the value tells the thread that
  reads it. This is what `Unhurried` is needed for: between the grab and
  `waiters.store(0)` nobody may count itself (`OneHurried` says no more than that).
- `Anchor`: a private in a word that nobody owns has a waiter, or a thread about to
  clear the word, or a raised flag. Each of them has a reference, so a private in a word
  is never on the free list.
- `RefCountExact`, as the run checks it; and, small: `LoweredOnce` (one thread takes the
  flag of a retired private down, which the bound of the counter needs), `Patient` (only
  a call with a timeout leaves without the mutex, which the refinement needs), and
  `Fields` (the types).

There is one lemma `...Inductive` for each part, with a case for each action; `StepOfOne`
and `FieldsKept` first say what a step leaves alone, so that a case is about one thread
and one private. The refinement needs `Baton` for `Acquire`: whoever finds 0, takes the
wake-up, or grabs the mutex from a thread at "clearWord" finds no owner.

### The list of free ids

`QFreeList_proofs`, for every finite set of threads, every `MaxIndex`, every division of the ids
into blocks and every number of serial numbers, from the assumptions of `QFreeList`:

| Theorem | States |
|---|---|
| `InvariantHolds` | `Spec => []IInv` |
| `ListIsSound` | `Spec => []ListSound` |
| `ImplementsPool` | `Spec => ImplementsIdPool` |

`Give` has a guard that the code does not have: a thread between its load of `_next` and
its exchange is not overtaken by as many releases as there are serial numbers. The proofs
rest on it as the run does. They show that nothing else is needed: `SerialsSound` says
that the serial number is as many releases ahead of the one a thread has read as there
were releases since, so that an exchange that finds the same number found no release in
between; `ReadSound`, that then the id a thread wants is still first and its successor is
the one it has read, or somebody has taken the id and the exchange fails by the index.
`BlocksSound` says that a block is not written before it is there, which is why the
loser of two allocations may throw its block away. `ListSound` says that there is a way
from `_next` to the end through every free id, once. `Take` shortens it by its first id
(`WayShortens`), `Give` puts one before it (`WayGrows`), where it must be shown that the
way does not get longer than there are ids, and all other steps leave it (`WayStays`).

For the refinement only two steps count: an exchange that succeeds in next() (`TakeOfPool`)
or in release() (`GiveOfPool`). A step that changes `held` is one of them (`StepOfPool`).

### The event loop and its thread

`QEventLoop_proofs`, for every finite set of clients, every choice of what the thread and
others may do, and loops nested to any depth, from the assumptions of `QEventLoop`:

| Theorem | States |
|---|---|
| `InvariantHolds` | `Spec => []IInv` |
| `TypeCorrect` | `Spec => []TypeOK` |
| `NoEventSleeps` | `Spec => []EventsWake`: a thread that sleeps with an event posted will be woken |
| `NoWakeUpLost` | `UnhurriedExit => (Spec => []WakeUpsKept)`: the same, and of exit() too |
| `NoLoopBegins` | `Spec => NoLoopAfterExit`, the part of `ExitObeyed` that is no liveness |

`IInv` is `Base`, which holds in all schedules, and `Told`, which takes `UnhurriedExit`
(section 6, last row, shows why). Of `Base`, `FlagSound` says what the flag `wakeUps`
stands for: exactly one byte that is in the pipe, on its way in, or just read and the
flag not yet reset; so whoever finds the flag set may leave without writing. `EventsSound`
says what `canWait` stands for: nothing was posted since sendPostedEvents() set it.
`Told` follows an exit() that has set the flag of a loop through the round the loop is in:
a nested loop finds `interrupt`, since nothing resets it any more (`NestedSound`); the
outermost one may have reset it, but then the byte is there, for no handler begins a
loop that would read it (`OutermostSound`). That `quitNow` keeps handlers from beginning
a loop is needed there: it is `ExitSound`.

The conditions are those of **`QWaitCondition_proofs`**: lemmas about any wait conditions
of any finite set of threads (`BeginSound`, `WakeOneSound`, `WakeAllSound`, `ReturnSound`,
`WaitingSound`), each saying what one operation does to the books of a value of `waits`;
and the same without spurious wake-ups (`BeginPromised` to `WaitingPromised`): there is a
wake-up for everybody who was signalled, so that nobody goes back to sleep.
The module holds no theorem of its own, as `QWaitCondition` has no specification.

### The thread pool

`QThreadPool_proofs`, for every finite set of threads, clients and tasks, every set of
limits and priorities, with and without expiry, stealing, time limits, spurious wake-ups
and unfinished threads, from `PoolAssumption`:

| Theorem | States |
|---|---|
| `InvariantHolds` | `Spec => []Members` |
| `TypeCorrect` | `Spec => []TypeOK`: `activeThreads` is neither negative nor more than the threads |
| `ActiveCounted` | `Spec => []ActiveExact` |
| `Implementation` | `Spec => ImplementsExecutor`: each start is kept until it is begun or stolen |
| `WokenLeave` | `~SpuriousWakeups => (Spec => SignalledLeave)` |
| `NoneDeletedEarly` | `Spec => []NotDeletedEarly`, for changing limits too |
| `TasksDeletedInTime` | `FixedLimit => (Spec => []DeletedWhenDone)`; without `FixedLimit` it fails, section 6 |
| `LimitKept` | `QuietReset => (Spec => []WithinLimit)` |
| `ThreadsRemoved` | `QuietReset`, one client: `Spec => AllRemoved`; with two clients it fails, section 6 |

The pool's functions are operators from a pool to its outcomes, and so are the lemmas
about them: `Sound` says what every function takes for granted of a pool and leaves so.
It has `ActiveExact`, and what the assertion at `qthreadpool.cpp:187` stands for: a
thread in `expiredThreads` has left run(), has no task and is there once, so that the
restart counts it right (`ThreadsSound`). `Adds` is what tryStart() and enqueueTask() do,
`Keeps` what a round of tryToStartMoreThreads() does, whose rounds are put together by
induction over their number (`KeptComposes`, `MoreThreadsKeep`); the search of
std::upper_bound() is shown to end within the queue, whatever its order
(`UpperBoundWithin`).

`Members` is `Sound` of the pool, the books of the wait conditions, and who is inside
wait(): exactly the threads whose phase says so. For each action a lemma `...Effect`
then shows that `Members` is kept and that the step is one of the things that may happen
to tasks (`Effect`): one is given to the pool, begun, taken back, ended, or ended as the
next one begins; or a client is told; or tasks move from the queue to threads. Each says
how often each task is then still to be run and is run (`Todo`, `Number`), and what
becomes of `starts` and `stolen`: only the first raises the one, only taking back the
other (`Uncalled`). An `Effect` is a step of `ExecutorSpec` (`EffectAllowed`). That a
client is told the truth needs `ActiveExact`: `activeThreads` is 0 only when no thread
has a task (`AllDoneTells`).

The theorems about deletion rest on `Members` and on a relation of `ref` to `Due`, how
often a task is still to be run or is run: `ref` is at least that (`References`), since
tryToStartMoreThreads() may count a task twice but no function counts one too little, and
exactly that as long as the limit is fixed (`ReferencesExact`).

The last two rest on `Members` and `Manned`, for any limits that change at any time, with
expiry, stealing and reserved threads. While no client is in reset() the pool is
`Staffed`: of its threads no more than the limit have not left, and those that left are
threads of the pool. That does not follow from the counters alone, since `waitingThreads`
is not exact (section 6): tryStart() starts a thread when
`allThreads - expiredThreads - waitingThreads + reservedThreads` is below the limit, and
only after `waitingThreads > 0` was refused, so that there is room for one even if the
counter is too low (`TryStartTaskHires`); a restart takes the thread out of
`expiredThreads`. The `...Hires` lemmas say so of each function, and `KeptComposes` of a
loop of them. While a client is in reset() nothing is queued or run (`CalmReset`), which
is all the limit needs there and why `QuietReset` is assumed. Every thread that is not
deleted is in `allThreads` or in the copy of a reset() that waits for it (`EachPlaced`):
with one client there is no other reset(), and it leaves when `allThreads` is empty.
The bound of `WithinLimit` is a maximum, so `PoolAssumption` has `MaxCounts` finite, as the
values of an int are.

### The posted events

`QPostedEvents_proofs`, for every finite set of threads and of objects, any posters and
priorities, calls and loops nested to any depth, with and without moving and removing,
from `EventsAssumption`:

| Theorem | States |
|---|---|
| `InvariantHolds` | `Spec => []IInv` |
| `TypeCorrect` | `Spec => []TypeOK` |
| `ListIsSound` | `Spec => []ListSound` |
| `NothingLeftBehind` | `Spec => []NoEventLeftBehind`: a loop does not sleep on an event |
| `DeletedAfterItsHandler` | `Spec => DeletedAfterReturn` |
| `PostedInOrder` | `Spec => InOrderPosted` |
| `RefinesMailbox` | `Spec => ImplementsMailbox` |

`IInv` says of each thread that its list and its calls are good (`ThreadGood`), and of all
threads together that a waiting event is in the list of the thread its receiver lives in
(`AtHome`), that `postedEvents` counts what waits (`Counted`), that a poster keeps its
receiver alive (`Addressed`) and that no event is waiting and handled, or handled twice
(`HandledOnce`). The parts of `ThreadGood`:

- `DataGood`: events are there once, in the order posted among those of one receiver and
  priority; the list is sorted from `insertionOffset` on, *only* from there on, which is
  what addEvent()'s search relies on; all entries before `startOffset` are empty.
- `Nested`: a handler is directly inside the call that called it, and a call does
  nothing while its handler runs.
- `Offsets`: `startOffset` is 0 unless a global call is active, and as long as any call is,
  `insertionOffset` stays within the list. This is why an inner call may cut the list.
- `Remembered`: if `canWait` is set, every ordinary event in the list is still ahead of the
  innermost active call (`WillCome`), or there is none (`NoneLeft`). It is what makes
  `NoEventLeftBehind` inductive: an inner call sets `canWait` although the outer ones have
  not finished, but it goes through the list itself, and when it ends with `canWait` still
  set there is nothing ordinary left that an outer one could miss.
- `HasPassed`: what a call for one receiver or type has behind it, it did not want.
  `InOrderPosted` rests on it. It holds unless a global call inside has cut
  the list (`cut`), for then `next` counts from the wrong place (`AlwaysInOrder` in section 6).

`Noted`, the last part, says that deleteLater() has noted the loop level of the
handler that called it. As long as that handler runs, a sendPostedEvents() inside it is at
that level or deeper, and `AllowDelete` refuses the event, unless one asks for deletions
by name at the very level; `DeletedAfterReturn` is the theorem made of that.

The lists change in few ways, and the lemmas follow them: an entry is inserted (`Adds`),
entries are emptied in place (`Empties`), or some are taken out (`Thins`); for each a lemma says
that `DataGood` survives, and one that the calls which have walked part of the list
survive too. The rounds of a sendPostedEvents() are a recursive function; `Walks`, what a
round does, is shown to be transitive, and the rounds are put together by induction over
their number. The prover cannot use the library's induction theorems, so `AllNumbers` and
`Recursion` derive what is needed from the well-foundedness of the natural numbers.
What the end of the rounds means is in `DeliveringThread` (an event has been found)
and `EndingThread` (the list has been walked through).

For the refinement, `pending` is what waits in any list (`PendingWaits`) and `running` are
the events of the calls that are handlers. A call that finds an event is `Deliver`, from
within the handler that runs; when a handler returns and the call goes on to the next
event, that is `Deliver` in place of the handler (`Front`), and `Return` when the call
ends (`ReturnMaps`). Removed and destroyed events are
`TakeBack` and `Destroy`. Everything that a call merely passes over stutters, a deletion
that is posted again included: it leaves the list and enters it in one step.

### Only model-checked

Everything temporal beyond the refinements and the action properties: `Progress`,
`TimedCallsReturn`, `WriterServed`, `TasksRun`, `ClientsReturn`, `EventsDelivered`,
`ExitObeyed` but for `NoLoopAfterExit`, `WaitReturns`. Liveness under fairness is out of the prover's reach.

## 6. Where the code and what is said of it differ

The run `generic_two_owners` shows a counterexample: three threads on a generic mutex.
One grabs the mutex between the unlocking thread's two operations; a second one counts
itself as a waiter and is forgotten by `waiters.store(0)` (`qmutex.cpp:471`).
"findings" quotes the lines.

The following formulas also fail on the code. They have no run; each can be seen by
checking the formula with the configuration named, changed as said (and with
`CHECK_DEADLOCK FALSE`).

| Formula | Configuration | What the code does |
|---|---|---|
| `NegativeTimeoutWaits` | `MCQMutexFutex` as it is | tryLock(-1) on a futex mutex returns false (`qmutex_linux.cpp:198`), where the documentation has it wait for ever (`qmutex.cpp:228`) |
| `NothingLeaks` | `MCQMutexGenericLive` as it is | a timed-out thread raises possiblyUnlocked (`qmutex.cpp:510`) after the unlocking thread lowered it (`:542`); the private stays referenced |
| `SignalledLeave` | `MCQThreadPoolSafety`, `SpuriousWakeups = TRUE` | a thread that stirs for no reason takes the wake-up of one that was signalled, which sleeps again (`qwaitcondition_unix.cpp:88`) |
| `WritersFirst` | `MCQReadWriteLockPlain` as it is | tryLockForRead() overtakes waiting writers (`qreadwritelock.cpp:207`, against `:76-78`) |
| `WriterServed` | `MCQReadWriteLockRecursive`, `Writers = {r2, w1}`, `TimedReaders = {r1}` | two writers: one may always come in before the other (wakeOne() does not hand the lock over) |
| `NoReaderStranded` | `MCQReadWriteLockPlain`, `Readers = {r1, r2}`, `Writers = {w1}`, `TimedWriters = {w1}`, no other time limits, try-locks or spurious wake-ups | a writer times out (`qreadwritelock.cpp:393`) and wakes nobody; the readers that waited only because of it sleep on a free lock (against `:135`) |
| `NoTaskStranded` | `MCQThreadPoolTransfers`, `PromptEnd = TRUE`, limit 2, 2 threads, no spurious wake-ups | tryStart() counts on a sleeping thread (`qthreadpool.cpp:179-184`) whose time runs out; it expires without a look at the queue (`:134-138`), the task stays and waitForDone() blocks (against `:412`) |
| `NoTaskLost` | `MCQThreadPoolTransfers` as it is | an expired thread is restarted before its QThread has finished (`qthreadpool.cpp:196`); start() finds it running and returns (`qthread_unix.cpp:517`), the task is never run (against `qthreadpool.cpp:457`) |
| `TasksDeleted` | `MCQThreadPoolTransfers`, `PromptEnd = TRUE`, `Expiry = FALSE` | a task that moves from the queue to a thread in tryToStartMoreThreads() is referenced twice (`qthreadpool.cpp:237`) and never deleted |
| `DeletedStayDeleted` | `MCQThreadPoolTransfers`, `QuietReset = FALSE` | reset() deletes threads that are still in expiredThreads (`:281`, `:289`); a call in between restarts one |
| `ActiveThreadCountTrue` | `MCQThreadPoolTransfers`, `MaxReserved = 1`, limit 1, `Expiry = FALSE`, `PromptEnd = TRUE` | start() over the limit wakes a waiting thread without taking it off waitingThreads (`:450`) |
| `QueueInOrder` | `MCQThreadPoolTransfers`, `Priorities = {0, 1}`, limit 1, 4 tasks, `MaxStarts = 1`, `Expiry = FALSE`, `PromptEnd = TRUE` | a task of a higher priority than the last one in the queue goes behind it, and one of a lower priority before it (`:217-218`) |
| `AllRemoved` | `MCQThreadPoolTransfers`, two clients | a client that calls reset() while another one waits for the threads finds `allThreads` empty (`qthreadpool.cpp:274-277`), and waitForDone() returns true before they are gone (against `:599`) |
| `ClientsReturn` | `MCQThreadPoolResized` with `FairSpec`, 2 clients, 1 task | the end of one reset() clears isExiting (`:291`) for the threads the other one still waits for |
| `AlwaysInOrder` | `MCQPostedEvents` as it is | a handler called by a filtered sendPostedEvents() calls a global one, which cuts the list; the outer call goes on at its old index (`qcoreapplication.cpp:1263`) and delivers a later event of the same priority first (against `:1100`) |
| `ListInOrder` | `MCQPostedEvents` as it is | insertionOffset stays after sendPostedEvents(receiver), so that a later event of a higher priority is put behind it (`qthread_p.h:125`, against `qcoreapplication.cpp:1096`) |
| `NoDeleteLeftBehind` | `MCQPostedEvents` as it is | a deletion that had to wait is posted again without canWait being reset (`qcoreapplication.cpp:1340`); when the inner loop has returned, the outer one may sleep on it (against `qobject.cpp:1916`) |
| `WakeUpsKept`, `ExitObeyed` | `MCQEventLoop`, `UnhurriedExit = FALSE` | exit() falls between a nested loop's `while (!d->exit)` (`qeventloop.cpp:211`) and `d->interrupt = false` (`qeventdispatcher_unix.cpp:567`): the nested loop takes the wake-up and ends, and the outer one sleeps although it was told to exit (against `qeventloop.cpp:251`) |

These are also the reason for the narrower constants of the passing runs.

## 7. Not modelled

- *Memory ordering.* The models are sequentially consistent; the acquire, release
  and relaxed variants of the atomics are not told apart.
- *Other platforms*: the macOS and Windows mutexes and conditions.
- *Posted events*: removePostedEvents() called by another thread than the receiver's,
  which reads threadData without a lock; removePostedEvent() of one event; events without
  a receiver; exceptions from handlers; children, which are moved and deleted with
  their parents.
- *The event loop*: timers, socket notifiers, other dispatchers, handlers that call
  processEvents(), the flags of processEvents(), return codes (an exit(n) between the two
  critical sections of exec() makes it return -1), priorities, terminate(), a thread that
  cannot be created, and the deferred deletions that finish() sends
  (`qthread_unix.cpp:352`).
- *QMutex in monitors* is a critical section, not `QMutexFutex` itself: the product
  would be too large, and `ImplementsLock` is the bridge.
- *Exceptions* from tasks, failed allocations, failed pthread calls.
- *Debug output and destruction* of a primitive while in use, which the
  documentation forbids.
- *Everything else of Qt*: `PROJECT.json`, "components", gives each part and the
  reason. QSemaphore, the recursive QMutex, connections, futures, shared pointers and the
  network's connection handling are candidates for further modules; containers, parsers, painting, widgets, databases,
  vendored code and tools are sequential or external and stay out.
