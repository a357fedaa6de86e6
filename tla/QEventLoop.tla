----------------------------- MODULE QEventLoop -----------------------------
(***************************************************************************)
(* A QThread that runs event loops, and the threads that post to it, wake  *)
(* it, stop it, wait for it and start it again: corelib/thread/qthread.cpp *)
(* and qthread_unix.cpp, corelib/kernel/qeventloop.cpp, and the wake-ups   *)
(* of corelib/kernel/qeventdispatcher_unix.cpp.                            *)
(*                                                                         *)
(* What runs under the mutex of QThreadPrivate is one step, except in      *)
(* exit(), which wakes up the loops while it holds the mutex and meets     *)
(* what the loops read without it.  Of the list of posted events           *)
(* (QPostedEvents) only the numbers are kept: what is in it, and how much  *)
(* of that the current sendPostedEvents() may deliver.  Timers, sockets,   *)
(* return codes, and handlers that call processEvents() are left out.      *)
(***************************************************************************)
EXTENDS Integers, Sequences, FiniteSets

CONSTANTS
  Clients,            \* the other threads
  Loop,               \* the thread of the QThread
  NoOne,
  Calls,              \* the functions of Functions that each thread calls
  MaxStarts, MaxExits, MaxPosts,  \* bounds: how often each is called
  MaxLoops,           \* bound: event loops inside each other
  UnhurriedExit,      \* whether exit() leaves a nested loop time to begin its round
  SpuriousWakeups

Functions == {"start", "wait", "exit", "post"}

ASSUME LoopAssumption ==
  /\ IsFiniteSet(Clients) /\ Loop \notin Clients /\ NoOne \notin Clients \cup {Loop}
  /\ Calls \in [Clients \cup {Loop} -> SUBSET Functions]
  /\ {MaxStarts, MaxExits, MaxPosts, MaxLoops} \subseteq Nat
  /\ {UnhurriedExit, SpuriousWakeups} \subseteq BOOLEAN

VARIABLES
  thread,       \* QThreadPrivate: running, finished, isInFinish, exited; and quitNow
  pc,           \* where the thread is, or its innermost event loop
  stack,        \* exit of each event loop of the thread, the outermost first
  events,       \* pending, toSend and canWait
  dispatcher,   \* interrupt, wakeUps, thread_pipe; and whether data points to it
  waker,        \* where each thread is in wakeUp()
  exiting,      \* who is in exit() and holds the mutex, and the loop it is at
  call,         \* the function of the thread that each client is in
  waits,        \* the wait condition thread_done
  used          \* how often the bounded functions were called

vars == <<thread, pc, stack, events, dispatcher, waker, exiting, call, waits, used>>

W == INSTANCE QWaitCondition WITH Threads <- Clients, Conditions <- {"thread_done"}

Actors == Clients \cup {Loop}

NewDispatcher == [there |-> TRUE, interrupt |-> FALSE, wakeUps |-> 0, pipe |-> FALSE]
NotExiting    == [by |-> NoOne, loop |-> 0, flagged |-> FALSE]

Init ==
  /\ thread = [running |-> FALSE, finished |-> FALSE, isInFinish |-> FALSE,
               exited |-> FALSE, quitNow |-> FALSE]
  /\ pc = "none"
  /\ stack = <<>>
  /\ events = [pending |-> 0, toSend |-> 0, canWait |-> TRUE]
  /\ dispatcher = [NewDispatcher EXCEPT !.there = FALSE]
  /\ waker = [a \in Actors |-> "no"]
  /\ exiting = NotExiting
  /\ call = [c \in Clients |-> "none"]
  /\ waits = W!Start
  /\ used = [starts |-> 0, exits |-> 0, posts |-> 0]

MutexFree == exiting.by = NoOne

\* CleanUp of sendPostedEvents() wakes up the dispatcher with the list locked.
ListFree == ~(pc = "decide" /\ waker[Loop] # "no")

\* The thread goes on from here.
At(place) == pc = place /\ waker[Loop] = "no" /\ exiting.by # Loop

Idle(c) == call[c] = "none" /\ waker[c] = "no" /\ exiting.by # c

\* A client, or a handler of the thread itself
MayCall(a, f) == f \in Calls[a] /\ IF a = Loop THEN At("handler") ELSE Idle(a)

-----------------------------------------------------------------------------
(* wakeUp() *)

TestAndSet(a) ==
  /\ waker[a] = "testAndSet"
  /\ IF dispatcher.wakeUps = 0
     THEN /\ dispatcher' = [dispatcher EXCEPT !.wakeUps = 1]
          /\ waker' = [waker EXCEPT ![a] = "write"]
     ELSE /\ waker' = [waker EXCEPT ![a] = "no"]
          /\ UNCHANGED dispatcher
  /\ UNCHANGED <<thread, pc, stack, events, exiting, call, waits, used>>

WritePipe(a) ==
  /\ waker[a] = "write"
  /\ dispatcher' = [dispatcher EXCEPT !.pipe = TRUE]
  /\ waker' = [waker EXCEPT ![a] = "no"]
  /\ UNCHANGED <<thread, pc, stack, events, exiting, call, waits, used>>

-----------------------------------------------------------------------------
(* postEvent() *)

PostEvent(a) ==
  /\ MayCall(a, "post") /\ ListFree /\ used.posts < MaxPosts
  /\ events' = [events EXCEPT !.pending = @ + 1, !.canWait = FALSE]
  /\ waker' = [waker EXCEPT ![a] = "posted"]
  /\ used' = [used EXCEPT !.posts = @ + 1]
  /\ UNCHANGED <<thread, pc, stack, dispatcher, exiting, call, waits>>

\* The list is unlocked; there may be no dispatcher (yet, or any more).
FindDispatcher(a) ==
  /\ waker[a] = "posted"
  /\ waker' = [waker EXCEPT ![a] = IF dispatcher.there THEN "testAndSet" ELSE "no"]
  /\ UNCHANGED <<thread, pc, stack, events, dispatcher, exiting, call, waits, used>>

-----------------------------------------------------------------------------
(* QThread::exit() *)

Exit(a) ==
  /\ MayCall(a, "exit") /\ MutexFree /\ used.exits < MaxExits
  /\ thread' = [thread EXCEPT !.exited = TRUE, !.quitNow = TRUE]
  /\ exiting' = [by |-> a, loop |-> 1, flagged |-> FALSE]
  /\ used' = [used EXCEPT !.exits = @ + 1]
  /\ UNCHANGED <<pc, stack, events, dispatcher, waker, call, waits>>

\* QEventLoop::exit() of the next loop: its flag, ...
FlagLoop(a) ==
  /\ exiting.by = a /\ waker[a] = "no" /\ ~exiting.flagged
  /\ exiting.loop <= Len(stack)
  /\ stack' = [stack EXCEPT ![exiting.loop] = TRUE]
  /\ exiting' = [exiting EXCEPT !.flagged = TRUE]
  /\ UNCHANGED <<thread, pc, events, dispatcher, waker, call, waits, used>>

\* Broken: nobody is woken up.
InterruptLoop_Silent(a) ==
  /\ exiting.by = a /\ exiting.flagged
  /\ UnhurriedExit => ~(pc = "reset" /\ Len(stack) > 1)
  /\ dispatcher' = [dispatcher EXCEPT !.interrupt = TRUE]
  /\ exiting' = [exiting EXCEPT !.loop = @ + 1, !.flagged = FALSE]
  /\ UNCHANGED <<thread, pc, stack, events, waker, call, waits, used>>

\* ... and interrupt().  UnhurriedExit: not after a nested loop found that it has not
\* been told to exit, and before it resets interrupt.
InterruptLoop(a) ==
  /\ exiting.by = a /\ exiting.flagged
  /\ UnhurriedExit => ~(pc = "reset" /\ Len(stack) > 1)
  /\ dispatcher' = [dispatcher EXCEPT !.interrupt = TRUE]
  /\ waker' = [waker EXCEPT ![a] = "testAndSet"]
  /\ exiting' = [exiting EXCEPT !.loop = @ + 1, !.flagged = FALSE]
  /\ UNCHANGED <<thread, pc, stack, events, call, waits, used>>

EndExit(a) ==
  /\ exiting.by = a /\ waker[a] = "no"
  /\ exiting.loop > Len(stack)
  /\ exiting' = NotExiting
  /\ UNCHANGED <<thread, pc, stack, events, dispatcher, waker, call, waits, used>>

-----------------------------------------------------------------------------
(* QThread::start() and wait() *)

\* The rest of start(), when the caller has the mutex and does not wait (any more)
Started ==
  IF thread.running THEN UNCHANGED <<thread, pc>>
  ELSE /\ thread' = [thread EXCEPT !.running = TRUE, !.finished = FALSE, !.exited = FALSE]
       /\ pc' = "created"

Start(c) ==
  /\ MayCall(c, "start") /\ MutexFree /\ used.starts < MaxStarts
  /\ IF thread.isInFinish
     THEN /\ waits' = W!AfterBegin(waits, c, "thread_done", FALSE)
          /\ call' = [call EXCEPT ![c] = "start"]
          /\ UNCHANGED <<thread, pc>>
     ELSE Started /\ UNCHANGED <<waits, call>>
  /\ used' = [used EXCEPT !.starts = @ + 1]
  /\ UNCHANGED <<stack, events, dispatcher, waker, exiting>>

StartWakes(c) ==
  /\ call[c] = "start" /\ waits.place[c] \in W!Done /\ MutexFree
  /\ Started
  /\ waits' = W!AfterReturn(waits, c)
  /\ call' = [call EXCEPT ![c] = "none"]
  /\ UNCHANGED <<stack, events, dispatcher, waker, exiting, used>>

\* wait() that does not return at once
Wait(c) ==
  /\ MayCall(c, "wait") /\ MutexFree
  /\ thread.running /\ ~thread.finished
  /\ \E timed \in BOOLEAN : waits' = W!AfterBegin(waits, c, "thread_done", timed)
  /\ call' = [call EXCEPT ![c] = "wait"]
  /\ UNCHANGED <<thread, pc, stack, events, dispatcher, waker, exiting, used>>

WaitWakes(c) ==
  /\ call[c] = "wait" /\ waits.place[c] \in W!Done /\ MutexFree
  /\ IF waits.place[c] = "succeeded" /\ thread.running
     THEN /\ waits' = W!AfterBegin(waits, c, "thread_done", waits.timed[c])
          /\ UNCHANGED call
     ELSE /\ waits' = W!AfterReturn(waits, c)
          /\ call' = [call EXCEPT ![c] = "none"]
  /\ UNCHANGED <<thread, pc, stack, events, dispatcher, waker, exiting, used>>

InWait(c) ==
  /\ W!Timeout(c) \/ W!SpuriousWakeup(c) \/ W!Proceed(c)
  /\ UNCHANGED <<thread, pc, stack, events, dispatcher, waker, exiting, call, used>>

-----------------------------------------------------------------------------
(* The thread: QThreadPrivate::start(), run(), QThreadPrivate::finish() *)

ThreadBegins ==
  /\ At("created") /\ MutexFree
  /\ thread' = [thread EXCEPT !.quitNow = thread.exited]
  /\ pc' = "starting"
  /\ UNCHANGED <<stack, events, dispatcher, waker, exiting, call, waits, used>>

CreateDispatcher ==
  /\ At("starting")
  /\ dispatcher' = NewDispatcher
  /\ pc' = "run"
  /\ UNCHANGED <<thread, stack, events, waker, exiting, call, waits, used>>

\* QThread::exec(), called by run(); it returns at once if exit() came before.
Exec ==
  /\ At("run") /\ MutexFree
  /\ thread' = [thread EXCEPT !.quitNow = FALSE, !.exited = FALSE]
  /\ pc' = IF thread.exited THEN "run" ELSE "exec"
  /\ UNCHANGED <<stack, events, dispatcher, waker, exiting, call, waits, used>>

ExecReturns ==
  /\ At("execDone") /\ MutexFree
  /\ thread' = [thread EXCEPT !.exited = FALSE]
  /\ pc' = "run"
  /\ UNCHANGED <<stack, events, dispatcher, waker, exiting, call, waits, used>>

\* run() is over.
Finish ==
  /\ At("run") /\ MutexFree
  /\ thread' = [thread EXCEPT !.isInFinish = TRUE]
  /\ pc' = "finish"
  /\ UNCHANGED <<stack, events, dispatcher, waker, exiting, call, waits, used>>

\* finished() has been emitted without the mutex.
ResetDispatcher ==
  /\ At("finish") /\ MutexFree
  /\ dispatcher' = [dispatcher EXCEPT !.there = FALSE]
  /\ pc' = "closing"
  /\ UNCHANGED <<thread, stack, events, waker, exiting, call, waits, used>>

\* The dispatcher is deleted, without the mutex.  Environment: who posts to an object
\* of the thread keeps the thread from ending meanwhile.
DeleteDispatcher ==
  /\ At("closing")
  /\ \A c \in Clients : waker[c] \notin {"testAndSet", "write"}
  /\ dispatcher' = [NewDispatcher EXCEPT !.there = FALSE]
  /\ pc' = "closed"
  /\ UNCHANGED <<thread, stack, events, waker, exiting, call, waits, used>>

\* Broken: only those that begin to wait later will notice.
Finished_Silent ==
  /\ At("closed") /\ MutexFree
  /\ thread' = [thread EXCEPT !.running = FALSE, !.finished = TRUE, !.isInFinish = FALSE]
  /\ pc' = "none"
  /\ UNCHANGED <<stack, events, dispatcher, waker, exiting, call, waits, used>>

Finished ==
  /\ At("closed") /\ MutexFree
  /\ thread' = [thread EXCEPT !.running = FALSE, !.finished = TRUE, !.isInFinish = FALSE]
  /\ waits' = W!AfterWakeAll(waits, "thread_done")
  /\ pc' = "none"
  /\ UNCHANGED <<stack, events, dispatcher, waker, exiting, call, used>>

-----------------------------------------------------------------------------
(* QEventLoop::exec() *)

\* Broken: exit() is not asked for.
EnterLoop_Unasked ==
  /\ \/ At("exec")
     \/ At("handler") /\ Len(stack) < MaxLoops
  /\ MutexFree
  /\ stack' = Append(stack, FALSE) /\ pc' = "test"
  /\ UNCHANGED <<thread, events, dispatcher, waker, exiting, call, waits, used>>

\* The loop of QThread::exec(), or one that a handler begins.
EnterLoop ==
  /\ \/ At("exec")
     \/ At("handler") /\ Len(stack) < MaxLoops
  /\ MutexFree /\ ~thread.quitNow
  /\ stack' = Append(stack, FALSE) /\ pc' = "test"
  /\ UNCHANGED <<thread, events, dispatcher, waker, exiting, call, waits, used>>

\* exit() came between: no loop begins.
RefuseLoop ==
  /\ At("exec") /\ MutexFree /\ thread.quitNow
  /\ pc' = "execDone"
  /\ UNCHANGED <<thread, stack, events, dispatcher, waker, exiting, call, waits, used>>

\* while (!d->exit)
TestExit ==
  /\ At("test")
  /\ pc' = IF stack[Len(stack)] THEN "leave" ELSE "reset"
  /\ UNCHANGED <<thread, stack, events, dispatcher, waker, exiting, call, waits, used>>

LeaveLoop ==
  /\ At("leave") /\ MutexFree
  /\ stack' = SubSeq(stack, 1, Len(stack) - 1)
  /\ pc' = IF Len(stack) = 1 THEN "execDone" ELSE "handler"
  /\ UNCHANGED <<thread, events, dispatcher, waker, exiting, call, waits, used>>

-----------------------------------------------------------------------------
(* QEventDispatcherUNIX::processEvents() *)

ResetInterrupt ==
  /\ At("reset")
  /\ dispatcher' = [dispatcher EXCEPT !.interrupt = FALSE]
  /\ pc' = "send"
  /\ UNCHANGED <<thread, stack, events, waker, exiting, call, waits, used>>

\* sendPostedEvents() begins.
Send ==
  /\ At("send")
  /\ events' = [events EXCEPT !.canWait = TRUE, !.toSend = events.pending]
  /\ pc' = IF events.pending = 0 THEN "decide" ELSE "deliver"
  /\ UNCHANGED <<thread, stack, dispatcher, waker, exiting, call, waits, used>>

\* Broken: the offsets stay.
Deliver_KeepsOffset ==
  /\ At("deliver") /\ events.toSend > 0
  /\ events' = [events EXCEPT !.pending = @ - 1]
  /\ pc' = "handler"
  /\ UNCHANGED <<thread, stack, dispatcher, waker, exiting, call, waits, used>>

\* The next event; a call inside this one may have delivered what it was to deliver.
Deliver ==
  /\ At("deliver") /\ events.toSend > 0
  /\ events' = [events EXCEPT !.pending = @ - 1, !.toSend = @ - 1]
  /\ pc' = "handler"
  /\ UNCHANGED <<thread, stack, dispatcher, waker, exiting, call, waits, used>>

HandlerReturns ==
  /\ At("handler")
  /\ pc' = "deliver"
  /\ UNCHANGED <<thread, stack, events, dispatcher, waker, exiting, call, waits, used>>

\* The handler calls exit() of the innermost loop.
ExitLoop ==
  /\ At("handler") /\ ~stack[Len(stack)]
  /\ stack' = [stack EXCEPT ![Len(stack)] = TRUE]
  /\ dispatcher' = [dispatcher EXCEPT !.interrupt = TRUE]
  /\ waker' = [waker EXCEPT ![Loop] = "testAndSet"]
  /\ UNCHANGED <<thread, pc, events, exiting, call, waits, used>>

\* CleanUp, where the outermost call sees to what was posted meanwhile
Sent ==
  /\ At("deliver") /\ events.toSend = 0
  /\ waker' = [waker EXCEPT ![Loop] =
                 IF Len(stack) = 1 /\ ~events.canWait THEN "testAndSet" ELSE "no"]
  /\ pc' = "decide"
  /\ UNCHANGED <<thread, stack, events, dispatcher, exiting, call, waits, used>>

\* canWait
Decide ==
  /\ At("decide")
  /\ pc' = IF events.canWait THEN "block" ELSE "poll"
  /\ UNCHANGED <<thread, stack, events, dispatcher, waker, exiting, call, waits, used>>

\* if (!d->interrupt)
TestInterrupt ==
  /\ pc \in {"block", "poll"} /\ At(pc)
  /\ pc' = IF dispatcher.interrupt THEN "test"
           ELSE IF pc = "block" THEN "asleep" ELSE "look"
  /\ UNCHANGED <<thread, stack, events, dispatcher, waker, exiting, call, waits, used>>

\* select() finds the pipe readable, and the pipe is drained, ...
Drain ==
  /\ pc \in {"asleep", "look"} /\ dispatcher.pipe
  /\ dispatcher' = [dispatcher EXCEPT !.pipe = FALSE]
  /\ pc' = "rearm"
  /\ UNCHANGED <<thread, stack, events, waker, exiting, call, waits, used>>

\* ... or it finds nothing and does not wait.
FindNothing ==
  /\ pc = "look" /\ ~dispatcher.pipe
  /\ pc' = "test"
  /\ UNCHANGED <<thread, stack, events, dispatcher, waker, exiting, call, waits, used>>

\* Broken: the flag stays, and later wake-ups write nothing.
Rearm_Forgotten ==
  /\ pc = "rearm"
  /\ pc' = "test"
  /\ UNCHANGED <<thread, stack, events, dispatcher, waker, exiting, call, waits, used>>

\* wakeUps.testAndSetRelease(1, 0)
Rearm ==
  /\ pc = "rearm"
  /\ dispatcher' = [dispatcher EXCEPT !.wakeUps = IF @ = 1 THEN 0 ELSE @]
  /\ pc' = "test"
  /\ UNCHANGED <<thread, stack, events, waker, exiting, call, waits, used>>

-----------------------------------------------------------------------------
\* What the thread does by itself, and what has to go on once it is begun
InThread ==
  \/ ThreadBegins \/ CreateDispatcher \/ ExecReturns
  \/ ResetDispatcher \/ DeleteDispatcher \/ Finished
  \/ (At("exec") /\ EnterLoop) \/ RefuseLoop \/ TestExit \/ LeaveLoop
  \/ ResetInterrupt \/ Send \/ Deliver \/ HandlerReturns \/ Sent
  \/ Decide \/ TestInterrupt \/ Drain \/ FindNothing \/ Rearm

Choices == Exec \/ Finish \/ (At("handler") /\ EnterLoop) \/ ExitLoop

Going(a) ==
  \/ TestAndSet(a) \/ WritePipe(a) \/ FindDispatcher(a)
  \/ FlagLoop(a) \/ InterruptLoop(a) \/ EndExit(a)

Next ==
  \/ InThread \/ Choices
  \/ \E a \in Actors : PostEvent(a) \/ Exit(a) \/ Going(a)
  \/ \E c \in Clients : Start(c) \/ StartWakes(c) \/ Wait(c) \/ WaitWakes(c) \/ InWait(c)

Spec == Init /\ [][Next]_vars

\* Threads that can go on do: handlers return, and what has begun to wake a loop up,
\* to stop it or to return from a wait goes on.  Nobody has to call anything, run()
\* need not end, and no time is over by itself.
FairSpec ==
  /\ Spec
  /\ WF_vars(InThread)
  /\ \A a \in Actors : WF_vars(Going(a))
  /\ \A c \in Clients : WF_vars(W!Proceed(c) /\ InWait(c)) /\ SF_vars(StartWakes(c) \/ WaitWakes(c))

-----------------------------------------------------------------------------
(* Properties *)

InLoop == stack # <<>>

\* Types, and the order in which things come to be: a thread that does not run is
\* nowhere, it has a dispatcher from CreateDispatcher to ResetDispatcher, and only
\* events that are there are to be sent (qcoreapplication.cpp:1294).
TypeOK ==
  /\ thread \in [{"running", "finished", "isInFinish", "exited", "quitNow"} -> BOOLEAN]
  /\ events.pending \in Nat /\ events.toSend \in 0..events.pending
  /\ events.canWait \in BOOLEAN
  /\ dispatcher.wakeUps \in {0, 1}
  /\ thread.running <=> pc # "none"
  /\ dispatcher.there <=>
       pc \notin {"none", "created", "starting", "closing", "closed"}
  /\ InLoop <=> pc \notin {"none", "created", "starting", "run", "exec", "execDone",
                           "finish", "closing", "closed"}
  /\ W!TypeOK

\* What a thread does next in wakeUp() or on its way there
WakeUpComing == \E a \in Actors : waker[a] # "no" \/ exiting.flagged

\* A wake-up is not lost: a loop that sleeps has nothing to do, or the pipe is
\* readable, or somebody is about to write to it.  That rests on the flag: while it is
\* set, the byte is in the pipe, or about to be written, or just read; so the
\* testAndSet of processThreadWakeUp() finds it set ("hopefully, this is dead code",
\* qeventdispatcher_unix.cpp:287).
WakeUpsKept ==
  /\ pc = "asleep" /\ (events.pending > 0 \/ stack[Len(stack)]) =>
       dispatcher.pipe \/ WakeUpComing
  /\ dispatcher.wakeUps = 1 <=>
       dispatcher.pipe \/ pc = "rearm" \/ \E a \in Actors : waker[a] = "write"

\* An event that is in the list of a running loop is delivered, unless the loop is
\* left.
EventsDelivered == InLoop /\ events.pending > 0 ~> events.pending = 0 \/ ~InLoop

\* "No QEventLoops will be started anymore in this thread until QThread::exec() has
\* been called again" (qthread.cpp:542).
NoLoopAfterExit == [][Len(stack') > Len(stack) => ~thread.exited]_vars

\* exit() is obeyed: no loop begins after it, and the loops that run end ("the thread
\* leaves the event loop", qthread.cpp:531).
ExitObeyed ==
  /\ NoLoopAfterExit
  /\ InLoop /\ thread.exited ~> ~InLoop

\* wait() returns when the thread has finished, unless it has been started again.
WaitReturns ==
  \A c \in Clients : call[c] = "wait" /\ ~thread.running ~> call[c] # "wait" \/ thread.running
=============================================================================
