---------------------------- MODULE QThreadPool ----------------------------
(***************************************************************************)
(* QThreadPool: corelib/thread/qthreadpool.cpp and qthreadpool_p.h, over   *)
(* the wait conditions of QWaitCondition and the start(), finish() and     *)
(* wait() of QThread.                                                      *)
(*                                                                         *)
(* The state of the pool is guarded by QThreadPoolPrivate::mutex, so one   *)
(* step is what a thread does from locking it to unlocking it or to        *)
(* beginning a wait.  QThreadPool::tryStart() looks at the counts before   *)
(* it locks, but then does nothing or looks again: that look is no step.   *)
(*                                                                         *)
(* A QThread whose run() has returned is "ended" until finish() notes it.  *)
(* QThread::start() waits for a finish() that goes on, does nothing for a  *)
(* thread that is running in the eyes of QThread, and starts the others.   *)
(***************************************************************************)
EXTENDS Integers, SequencesExt, FiniteSetsExt

CONSTANTS
  PoolThreads,        \* the QThreadPoolThread objects there will ever be
  Clients,            \* the threads that call waitForDone()
  Tasks,              \* the QRunnables,
  AutoDelete,         \* and those of them the pool deletes
  Priorities,
  MaxCounts,          \* the values of maxThreadCount, the first one at first:
  FirstMaxCount,
  MaxStarts,          \* bound: how often each task is started
  MaxReserved,        \* bound: reserveThread() and releaseThread() keep
                      \* reservedThreads in -MaxReserved..MaxReserved
  Stealing,           \* whether QFutureInterface takes tasks back
  Expiry,             \* whether expiryTimeout is not negative
  TimedClients,       \* whether waitForDone() may be given a time limit
  SpuriousWakeups,
  PromptEnd,          \* environment: finish() comes before anybody locks again
  QuietReset          \* environment: nobody calls the pool during reset()

NoTask == "none"    \* a null pointer

ASSUME PoolAssumption ==
  /\ IsFiniteSet(PoolThreads) /\ IsFiniteSet(Clients) /\ IsFiniteSet(Tasks)
  /\ PoolThreads \cap Clients = {} /\ NoTask \notin Tasks
  /\ AutoDelete \subseteq Tasks
  /\ Priorities \subseteq Int /\ 0 \in Priorities
  /\ MaxCounts \subseteq Int /\ IsFiniteSet(MaxCounts) /\ FirstMaxCount \in MaxCounts
  /\ MaxStarts \in Nat /\ MaxReserved \in Nat
  /\ {Stealing, Expiry, TimedClients, SpuriousWakeups, PromptEnd, QuietReset}
       \subseteq BOOLEAN

Threads == PoolThreads \cup Clients

VARIABLES
  pool,      \* the members of QThreadPoolPrivate; ref of each task and those
             \* that were deleted; of each thread its runnable and its phase
  job,       \* the task each thread runs: r of QThreadPoolThread::run()
  client,    \* what each client does in waitForDone()
  doomed,    \* allThreadsCopy of the reset() a client is in
  starts,    \* how often each task has been started
  stolen,    \* history: how often each task has been taken back
  waits      \* the state of runnableReady and noActiveThreads

vars == <<pool, job, client, doomed, starts, stolen, waits>>

W == INSTANCE QWaitCondition WITH
       Conditions <- {"runnableReady", "noActiveThreads"}

\* "unused" objects are still to be created, "deleted" ones are gone; the others
\* are on their way to lock the mutex, run a task, wait, have returned from
\* run(), or have been through finish().
Phases == {"unused", "started", "running", "waiting", "ended", "finished", "deleted"}

Init ==
  /\ pool = [allThreads |-> {}, expiredThreads |-> <<>>, queue |-> <<>>,
             isExiting |-> FALSE, maxThreadCount |-> FirstMaxCount,
             reservedThreads |-> 0, waitingThreads |-> 0, activeThreads |-> 0,
             ref |-> [r \in Tasks |-> IF r \in AutoDelete THEN 0 ELSE -1],
             deleted |-> {},
             runnable |-> [t \in PoolThreads |-> NoTask],
             phase |-> [t \in PoolThreads |-> "unused"]]
  /\ job = [t \in PoolThreads |-> NoTask]
  /\ client = [c \in Clients |-> "out"]
  /\ doomed = [c \in Clients |-> {}]
  /\ starts = [r \in Tasks |-> 0]
  /\ stolen = [r \in Tasks |-> 0]
  /\ waits = W!Start

-----------------------------------------------------------------------------
(* QThreadPoolPrivate: what its functions make of the pool p and the waits *)
(* w.  Those that wake up a thread or create one return a set of outcomes. *)

ActiveThreadCount(p) ==
  Cardinality(p.allThreads) - Len(p.expiredThreads) - p.waitingThreads + p.reservedThreads

\* Broken: even the last thread is one too many.
TooManyThreadsActive_LastToo(p) == ActiveThreadCount(p) > p.maxThreadCount

TooManyThreadsActive(p) ==
  /\ ActiveThreadCount(p) > p.maxThreadCount
  /\ ActiveThreadCount(p) - p.reservedThreads > 1

Referenced(ref, r) == IF r \in AutoDelete THEN [ref EXCEPT ![r] = @ + 1] ELSE ref

\* Broken: the thread is not counted as active.
Restarted_Uncounted(p, t, r) ==
  [p EXCEPT !.ref = Referenced(@, r), !.runnable[t] = r,
            !.phase[t] = IF @ = "ended" THEN "ended" ELSE "started"]

\* The thread is given a task, and QThread::start() is called.
Restarted(p, t, r) ==
  [p EXCEPT !.activeThreads = @ + 1, !.ref = Referenced(@, r), !.runnable[t] = r,
            !.phase[t] = IF @ = "ended" THEN "ended" ELSE "started"]

StartThread(p, w, r) ==
  {<<Restarted([p EXCEPT !.allThreads = @ \cup {t}], t, r), w>> :
     t \in {u \in PoolThreads : p.phase[u] = "unused"}}

\* std::upper_bound() on all of q but its last element: how many elements come
\* before the new one
UpperBound(q, priority) ==
  LET search[part \in {x \in (0..Len(q)) \X (0..Len(q)) : x[1] + x[2] < Len(q)}] ==
        LET from == part[1]
            half == part[2] \div 2
        IN  IF part[2] = 0 THEN from
            ELSE IF q[from + half + 1].priority < priority
                 THEN search[<<from, half>>]
                 ELSE search[<<from + half + 1, part[2] - half - 1>>]
  IN  search[<<0, Len(q) - 1>>]

QueuePlace(q, priority) ==
  IF q # <<>> /\ priority < Last(q).priority THEN UpperBound(q, priority) ELSE Len(q)

EnqueueTask(p, w, r, priority) ==
  LET entry == [task |-> r, priority |-> priority]
      after == [p EXCEPT !.ref = Referenced(@, r),
                         !.queue = InsertAt(@, QueuePlace(@, priority) + 1, entry)]
  IN  {<<after, x>> : x \in W!AfterWakeOne(w, "runnableReady")}

\* Broken: one thread more than the limit.
TryStartTask_OneMore(p, w, r) ==
  IF p.allThreads = {} THEN StartThread(p, w, r)
  ELSE IF ActiveThreadCount(p) > p.maxThreadCount THEN {}
  ELSE IF p.waitingThreads > 0
       THEN EnqueueTask([p EXCEPT !.waitingThreads = @ - 1], w, r, 0)
  ELSE IF p.expiredThreads # <<>>
       THEN {<<Restarted([p EXCEPT !.expiredThreads = Tail(@)],
                         Head(p.expiredThreads), r), w>>}
  ELSE StartThread(p, w, r)

\* The empty set stands for false.
TryStartTask(p, w, r) ==
  IF p.allThreads = {} THEN StartThread(p, w, r)
  ELSE IF ActiveThreadCount(p) >= p.maxThreadCount THEN {}
  ELSE IF p.waitingThreads > 0
       THEN EnqueueTask([p EXCEPT !.waitingThreads = @ - 1], w, r, 0)
  ELSE IF p.expiredThreads # <<>>
       THEN {<<Restarted([p EXCEPT !.expiredThreads = Tail(@)],
                         Head(p.expiredThreads), r), w>>}
  ELSE StartThread(p, w, r)

\* Broken: what moves to a thread stays in the queue.
Pushed_KeepsEntry(o) ==
  LET more == IF o[1].queue = <<>> THEN {}
              ELSE TryStartTask(o[1], o[2], Head(o[1].queue).task)
  IN  IF more = {} THEN {o} ELSE more

\* What a round of the loop makes of the outcome o of the rounds before; an outcome
\* that leaves the loop stays as it is.
Pushed(o) ==
  LET more == IF o[1].queue = <<>> THEN {}
              ELSE TryStartTask(o[1], o[2], Head(o[1].queue).task)
  IN  IF more = {} THEN {o}
      ELSE {<<[m[1] EXCEPT !.queue = Tail(@)], m[2]>> : m \in more}

TryToStartMoreThreads(p, w) ==
  LET enough == Len(p.queue) + (IF p.waitingThreads > 0 THEN p.waitingThreads ELSE 0)
      rounds[n \in 0..enough] ==
        IF n = 0 THEN {<<p, w>>} ELSE UNION {Pushed(o) : o \in rounds[n - 1]}
  IN  rounds[enough]

\* Broken: waitForDone() is not woken.
Inactive_Silent(p, w) == <<[p EXCEPT !.activeThreads = @ - 1], w>>

Inactive(p, w) ==
  <<[p EXCEPT !.activeThreads = @ - 1],
    IF p.activeThreads = 1 THEN W!AfterWakeAll(w, "noActiveThreads") ELSE w>>

-----------------------------------------------------------------------------
(* The functions of QThreadPool, called by anybody *)

\* A client that was told that all is done is in reset(), or about to be.
Resetting == \E c \in Clients : client[c] \in {"done", "joining"}

MayCall == QuietReset => ~Resetting

\* Bound: there are QThreadPoolThread objects left for what the call may start.
EnoughThreads(n) == Cardinality({t \in PoolThreads : pool.phase[t] = "unused"}) >= n

Runs(r) == {t \in PoolThreads : pool.phase[t] = "running" /\ job[t] = r}

\* A task that deletes itself is only started again from its own run().
MayStart(r) ==
  /\ r \notin pool.deleted /\ starts[r] < MaxStarts
  /\ r \in AutoDelete => starts[r] = 0 \/ Runs(r) # {}

Outcome(outcomes) == \E o \in outcomes : pool' = o[1] /\ waits' = o[2]

\* start()
Start(r, priority) ==
  /\ MayCall /\ MayStart(r) /\ EnoughThreads(1)
  /\ LET tried == TryStartTask(pool, waits, r)
     IN  Outcome(IF tried # {} THEN tried ELSE EnqueueTask(pool, waits, r, priority))
  /\ starts' = [starts EXCEPT ![r] = @ + 1]
  /\ UNCHANGED <<job, client, doomed, stolen>>

\* tryStart() that succeeds
TryStart(r) ==
  /\ MayCall /\ MayStart(r) /\ EnoughThreads(1)
  /\ Outcome(TryStartTask(pool, waits, r))
  /\ starts' = [starts EXCEPT ![r] = @ + 1]
  /\ UNCHANGED <<job, client, doomed, stolen>>

SetMaxThreadCount(max) ==
  /\ MayCall /\ EnoughThreads(Len(pool.queue))
  /\ max # pool.maxThreadCount
  /\ Outcome(TryToStartMoreThreads([pool EXCEPT !.maxThreadCount = max], waits))
  /\ UNCHANGED <<job, client, doomed, starts, stolen>>

ReserveThread ==
  /\ MayCall /\ pool.reservedThreads < MaxReserved
  /\ pool' = [pool EXCEPT !.reservedThreads = @ + 1]
  /\ UNCHANGED <<job, client, doomed, starts, stolen, waits>>

ReleaseThread ==
  /\ MayCall /\ EnoughThreads(Len(pool.queue))
  /\ pool.reservedThreads > -MaxReserved
  /\ Outcome(TryToStartMoreThreads([pool EXCEPT !.reservedThreads = @ - 1], waits))
  /\ UNCHANGED <<job, client, doomed, starts, stolen>>

\* stealRunnable() of a task that was started once; the caller runs it.
StealRunnable(r) ==
  /\ Stealing /\ MayCall /\ starts[r] = 1
  /\ \E i \in DOMAIN pool.queue :
       /\ pool.queue[i].task = r
       /\ \A j \in 1..(i - 1) : pool.queue[j].task # r
       /\ pool' = [pool EXCEPT
            !.queue = RemoveAt(@, i),
            !.ref[r] = IF r \in AutoDelete THEN @ - 1 ELSE @,
            !.deleted = IF r \in AutoDelete /\ pool.ref[r] = 1 THEN @ \cup {r} ELSE @]
  /\ stolen' = [stolen EXCEPT ![r] = @ + 1]
  /\ UNCHANGED <<job, client, doomed, starts, waits>>

-----------------------------------------------------------------------------
(* QThreadPoolThread::run() *)

\* The rest of the loop, for a thread without a task that has the mutex: it takes
\* the next task, leaves run(), or waits for work.
LookForWork(p, w, t) ==
  \/ /\ ~TooManyThreadsActive(p) /\ p.queue # <<>>
     /\ pool' = [p EXCEPT !.queue = Tail(@), !.phase[t] = "running"]
     /\ job' = [job EXCEPT ![t] = Head(p.queue).task]
     /\ waits' = w
  \/ /\ TooManyThreadsActive(p) \/ p.queue = <<>>
     /\ p.isExiting \/ TooManyThreadsActive(p)
     /\ LET left == [p EXCEPT !.phase[t] = "ended",
                       !.expiredThreads = IF p.isExiting THEN @ ELSE Append(@, t)]
        IN  Outcome({Inactive(left, w)})
     /\ job' = [job EXCEPT ![t] = NoTask]
  \/ /\ ~TooManyThreadsActive(p) /\ p.queue = <<>> /\ ~p.isExiting
     /\ LET idle == Inactive([p EXCEPT !.waitingThreads = @ + 1,
                                       !.phase[t] = "waiting"], w)
        IN  /\ pool' = idle[1]
            /\ waits' = W!AfterBegin(idle[2], t, "runnableReady", Expiry)
     /\ job' = [job EXCEPT ![t] = NoTask]

\* The thread has been started and gets the mutex.
BeginRun(t) ==
  /\ pool.phase[t] = "started"
  /\ pool' = [pool EXCEPT !.runnable[t] = NoTask, !.phase[t] = "running"]
  /\ job' = [job EXCEPT ![t] = pool.runnable[t]]
  /\ UNCHANGED <<client, doomed, starts, stolen, waits>>

\* Broken: the count is tested before it goes down.
EndTask_TestsFirst(t) ==
  /\ pool.phase[t] = "running"
  /\ LET r == job[t]
         counted == [pool EXCEPT
           !.ref[r] = IF r \in AutoDelete THEN @ - 1 ELSE @,
           !.deleted = IF r \in AutoDelete /\ pool.ref[r] = 0 THEN @ \cup {r} ELSE @]
     IN  LookForWork(counted, waits, t)
  /\ UNCHANGED <<client, doomed, starts, stolen>>

\* The task is done and the thread gets the mutex again.
EndTask(t) ==
  /\ pool.phase[t] = "running"
  /\ LET r == job[t]
         counted == [pool EXCEPT
           !.ref[r] = IF r \in AutoDelete THEN @ - 1 ELSE @,
           !.deleted = IF r \in AutoDelete /\ pool.ref[r] = 1 THEN @ \cup {r} ELSE @]
     IN  LookForWork(counted, waits, t)
  /\ UNCHANGED <<client, doomed, starts, stolen>>

\* runnableReady.wait() is over: there is work, or the thread expires.
WakeForWork(t) ==
  /\ waits.place[t] = "succeeded"
  /\ LookForWork([pool EXCEPT !.activeThreads = @ + 1], W!AfterReturn(waits, t), t)
  /\ UNCHANGED <<client, doomed, starts, stolen>>

\* Broken: the thread takes itself off the active ones once too often.
Expire_Uncounted(t) ==
  /\ waits.place[t] = "failed"
  /\ LET left == [pool EXCEPT !.waitingThreads = @ - 1,
                    !.expiredThreads = Append(@, t), !.phase[t] = "ended"]
     IN  Outcome({Inactive(left, W!AfterReturn(waits, t))})
  /\ UNCHANGED <<job, client, doomed, starts, stolen>>

Expire(t) ==
  /\ waits.place[t] = "failed"
  /\ LET left == [pool EXCEPT !.activeThreads = @ + 1, !.waitingThreads = @ - 1,
                    !.expiredThreads = Append(@, t), !.phase[t] = "ended"]
     IN  Outcome({Inactive(left, W!AfterReturn(waits, t))})
  /\ UNCHANGED <<job, client, doomed, starts, stolen>>

\* QThreadPrivate::finish()
Finish(t) ==
  /\ pool.phase[t] = "ended"
  /\ pool' = [pool EXCEPT !.phase[t] = "finished"]
  /\ UNCHANGED <<job, client, doomed, starts, stolen, waits>>

-----------------------------------------------------------------------------
(* QThreadPool::waitForDone() *)

\* Broken: the queue does not matter.
AllDone_ActiveOnly == pool.activeThreads = 0

AllDone == pool.queue = <<>> /\ pool.activeThreads = 0

\* The loop: all is done, or another wait.
LookIfDone(c, w) ==
  \/ /\ AllDone
     /\ client' = [client EXCEPT ![c] = "done"]
     /\ waits' = w
  \/ /\ ~AllDone
     /\ client' = [client EXCEPT ![c] = "waiting"]
     /\ \E timed \in {FALSE, TimedClients} :
          /\ client[c] = "waiting" => timed = waits.timed[c]
          /\ waits' = W!AfterBegin(w, c, "noActiveThreads", timed)

WaitForDone(c) ==
  /\ MayCall /\ client[c] = "out"
  /\ LookIfDone(c, waits)
  /\ UNCHANGED <<pool, job, doomed, starts, stolen>>

\* noActiveThreads.wait() is over.  The time of a timed call may be, too.
WakeIfDone(c) ==
  /\ waits.place[c] \in W!Done
  /\ \/ LookIfDone(c, W!AfterReturn(waits, c))
     \/ /\ waits.timed[c] /\ ~AllDone
        /\ client' = [client EXCEPT ![c] = "out"]
        /\ waits' = W!AfterReturn(waits, c)
  /\ UNCHANGED <<pool, job, doomed, starts, stolen>>

\* The loop of reset(): the threads are moved out, or there are none left.
MoveThreadsOut(c, p, w) ==
  \/ /\ p.allThreads # {}
     /\ doomed' = [doomed EXCEPT ![c] = p.allThreads]
     /\ pool' = [p EXCEPT !.allThreads = {}]
     /\ client' = [client EXCEPT ![c] = "joining"]
     /\ waits' = w
  \/ /\ p.allThreads = {}
     /\ pool' = [p EXCEPT !.waitingThreads = 0, !.expiredThreads = <<>>,
                          !.isExiting = FALSE]
     /\ client' = [client EXCEPT ![c] = "out"]
     /\ waits' = w
     /\ UNCHANGED doomed

BeginReset(c) ==
  /\ client[c] = "done"
  /\ MoveThreadsOut(c, [pool EXCEPT !.isExiting = TRUE],
                       W!AfterWakeAll(waits, "runnableReady"))
  /\ UNCHANGED <<job, starts, stolen>>

\* thread->wait() returns and the thread is deleted.
DeleteThread(c, t) ==
  /\ client[c] = "joining" /\ t \in doomed[c]
  /\ pool.phase[t] = "finished"
  /\ pool' = [pool EXCEPT !.phase[t] = "deleted"]
  /\ doomed' = [doomed EXCEPT ![c] = @ \ {t}]
  /\ UNCHANGED <<job, client, starts, stolen, waits>>

\* Broken: reset() goes on before all threads have been waited for.
RepeatReset_Early(c) ==
  /\ client[c] = "joining"
  /\ MoveThreadsOut(c, pool, waits)
  /\ UNCHANGED <<job, starts, stolen>>

RepeatReset(c) ==
  /\ client[c] = "joining" /\ doomed[c] = {}
  /\ MoveThreadsOut(c, pool, waits)
  /\ UNCHANGED <<job, starts, stolen>>

-----------------------------------------------------------------------------
\* Threads inside QWaitCondition::wait()
Waiting(t) ==
  /\ W!Timeout(t) \/ W!SpuriousWakeup(t) \/ W!Proceed(t)
  /\ UNCHANGED <<pool, job, client, doomed, starts, stolen>>

CallPool ==
  \/ \E r \in Tasks : \/ \E priority \in Priorities : Start(r, priority)
                      \/ TryStart(r) \/ StealRunnable(r)
  \/ \E max \in MaxCounts : SetMaxThreadCount(max)
  \/ ReserveThread \/ ReleaseThread

Work(t) == BeginRun(t) \/ EndTask(t) \/ WakeForWork(t) \/ Expire(t)

WaitingForDone(c) ==
  \/ WaitForDone(c) \/ WakeIfDone(c) \/ BeginReset(c) \/ RepeatReset(c)
  \/ \E t \in PoolThreads : DeleteThread(c, t)

Locked ==
  /\ PromptEnd => \A t \in PoolThreads : pool.phase[t] # "ended"
  /\ \/ CallPool
     \/ \E t \in PoolThreads : Work(t)
     \/ \E c \in Clients : WaitingForDone(c)

Next ==
  \/ Locked
  \/ \E t \in PoolThreads : Finish(t)
  \/ \E t \in Threads : Waiting(t)

Spec == Init /\ [][Next]_vars

\* Threads run on and tasks come to an end; nobody has to call the pool, and no
\* time limit has to pass.
Fairness ==
  /\ \A t \in PoolThreads : WF_vars(Locked /\ Work(t)) /\ WF_vars(Finish(t))
  /\ \A t \in Threads :
       WF_vars(W!Proceed(t) /\ UNCHANGED <<pool, job, client, doomed, starts, stolen>>)
  /\ \A c \in Clients : WF_vars(Locked /\ client[c] # "out" /\ WaitingForDone(c))

FairSpec == Spec /\ Fairness

-----------------------------------------------------------------------------
(* Properties *)

TypeOK ==
  /\ pool.allThreads \subseteq PoolThreads
  /\ pool.expiredThreads \in Seq(PoolThreads)
  /\ pool.queue \in Seq([task : Tasks, priority : Priorities])
  /\ pool.maxThreadCount \in MaxCounts
  /\ pool.reservedThreads \in -MaxReserved..MaxReserved
  /\ pool.activeThreads \in 0..Cardinality(PoolThreads)
  /\ pool.waitingThreads \in Int
  /\ pool.ref \in [Tasks -> Int] /\ pool.deleted \subseteq AutoDelete
  /\ pool.runnable \in [PoolThreads -> Tasks \cup {NoTask}]
  /\ pool.phase \in [PoolThreads -> Phases]
  /\ job \in [PoolThreads -> Tasks \cup {NoTask}]
  /\ client \in [Clients -> {"out", "waiting", "done", "joining"}]
  /\ doomed \in [Clients -> SUBSET PoolThreads]
  /\ W!TypeOK

\* How often a task is still to be run: it is in the queue or given to a thread.
Queued(r) == {i \in DOMAIN pool.queue : pool.queue[i].task = r}
Given(r)  == {t \in PoolThreads : pool.runnable[t] = r}
Outstanding(r) == Cardinality(Queued(r)) + Cardinality(Given(r)) + Cardinality(Runs(r))

Busy(t) == pool.phase[t] \in {"started", "running"}

\* activeThreads, on which waitForDone() relies, counts every thread that has or
\* was given a task, and no other.
ActiveExact ==
  pool.activeThreads =
    Cardinality({t \in PoolThreads : Busy(t) \/ pool.runnable[t] # NoTask})

\* No more tasks run at a time than maxThreadCount allows, and one is always
\* allowed ("The thread pool will always use at least 1 thread, even if
\* maxThreadCount limit is zero or negative", qthreadpool.cpp:518).
WithinLimit ==
  Cardinality({t \in PoolThreads : Busy(t)})
    <= Max({1} \cup MaxCounts) + MaxReserved

\* A task is deleted by nobody while somebody will run it or runs it.
NotDeletedEarly ==
  \A r \in pool.deleted : Outstanding(r) = 0

\* Each start of a task is kept, in the queue or by a thread, until a thread begins to
\* run it or stealRunnable() takes it back, whatever is moved about meanwhile: none
\* disappears and none is run twice; and waitForDone() returns true only when nothing
\* is left.  Whether what is kept will be run, NoTaskStranded and NoTaskLost ask.
Executor == INSTANCE ExecutorSpec WITH
  started   <- starts,
  withdrawn <- stolen,
  pending   <- [r \in Tasks |-> Cardinality(Queued(r)) + Cardinality(Given(r))],
  running   <- [r \in Tasks |-> Cardinality(Runs(r))],
  told      <- {c \in Clients : client[c] \in {"done", "joining"}}

ImplementsExecutor == Executor!Spec

\* "runnable will be deleted automatically by the thread pool after the
\* runnable->run() returns" (qthreadpool.cpp:434-436): no task is left over.
TasksDeleted ==
  \A r \in AutoDelete : starts[r] > 0 /\ Outstanding(r) = 0 => r \in pool.deleted

\* Together: a task that deletes itself is deleted when its last run is over, and then
\* at once.
DeletedWhenDone == NotDeletedEarly /\ TasksDeleted

\* A queued task has somebody who will look at the queue: a thread with a task of
\* its own, or one that has been woken ("will block until all runnables have been
\* completed", qthreadpool.cpp:412).
NoTaskStranded ==
  pool.queue # <<>> =>
    \E t \in PoolThreads :
      \/ Busy(t)
      \/ waits.place[t] \in {"signalled", "stirred", "succeeded"}

\* A thread that is given a task will run it ("runnable is run immediately using
\* one available thread", qthreadpool.cpp:457).
NoTaskLost ==
  \A t \in PoolThreads : pool.runnable[t] # NoTask => pool.phase[t] = "started"

\* "This property represents the number of active threads in the thread pool"
\* (qthreadpool.cpp:544): with nothing to do it is the number of reserved threads.
ActiveThreadCountTrue ==
  (\A t \in PoolThreads :
     \/ pool.phase[t] \in {"unused", "finished", "deleted"}
     \/ pool.phase[t] = "waiting" /\ waits.place[t] = "asleep")
  /\ AllDone /\ ~Resetting
    => ActiveThreadCount(pool) = pool.reservedThreads

\* A thread that was deleted is not started again, although calls come in while
\* reset() deletes threads ("newly arrived threads", qthreadpool.cpp:285).
DeletedStayDeleted ==
  [][\A t \in PoolThreads : pool.phase[t] = "deleted" => pool'.phase[t] = "deleted"]_vars

\* "The priority argument can be used to control the run queue's order of
\* execution" (qthreadpool.cpp:430), and the one with the higher number comes
\* first (operator<, qthreadpool.cpp:205).
QueueInOrder ==
  \A i, j \in DOMAIN pool.queue :
    i < j => pool.queue[i].priority >= pool.queue[j].priority

\* "Returns true if all threads were removed" (qthreadpool.cpp:599): a client that
\* leaves reset() leaves no thread behind.
AllRemoved ==
  [][\A c \in Clients :
       client[c] \in {"done", "joining"} /\ client'[c] = "out" =>
         \A t \in PoolThreads : pool'.phase[t] \in {"unused", "deleted"}]_vars

\* Whoever is woken leaves wait(): nobody comes late for a wake-up.
SignalledLeave == W!SignalledLeave

\* Every task that is started is run.
TasksRun == \A r \in Tasks : (Outstanding(r) > 0) ~> (Outstanding(r) = 0)

\* A client without a time limit comes back, when there is nothing left to do.
ClientsReturn == \A c \in Clients : (client[c] # "out") ~> (client[c] = "out")
=============================================================================
