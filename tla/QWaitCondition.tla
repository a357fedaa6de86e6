--------------------------- MODULE QWaitCondition ---------------------------
(***************************************************************************)
(* QWaitCondition on Unix: corelib/thread/qwaitcondition_unix.cpp.  The    *)
(* module describes any number of wait conditions and the threads inside   *)
(* their wait().  Everything a thread does under the pthread mutex of a    *)
(* condition is one step: beginning to wait, each look at wakeups after    *)
(* pthread_cond_wait(), wakeOne() and wakeAll().                           *)
(*                                                                         *)
(* The components that use wait conditions (QReadWriteLock, QThreadPool)   *)
(* INSTANCE this module and run it: they call wait() and wake up others in *)
(* critical sections of their own QMutex; the operators on a value w of    *)
(* waits are for those steps.  A thread whose wait() is over stays at      *)
(* "succeeded" or "failed" until it has locked its QMutex again.           *)
(***************************************************************************)
EXTENDS Integers, FiniteSets

CONSTANTS
  Threads,
  Conditions,         \* the QWaitCondition objects
  SpuriousWakeups     \* whether pthread_cond_wait() may return unsignalled

VARIABLE
  waits   \* waiters and wakeups of each condition; and of each thread its
          \* place in wait(), the condition it is on, and whether time limits it

\* "asleep" in pthread_cond_wait(); out of it but without the pthread mutex,
\* because of a signal ("signalled"), for no reason ("stirred") or at the end of
\* its time ("timedOut"); and back in the caller.
Unlocked == {"asleep", "signalled", "stirred", "timedOut"}
Done     == {"succeeded", "failed"}
Places   == Unlocked \cup Done \cup {"out"}

Inside(w, c) == {t \in Threads : w.place[t] \in Unlocked /\ w.on[t] = c}
Asleep(w, c) == {t \in Inside(w, c) : w.place[t] = "asleep"}

Start ==
  [waiters |-> [c \in Conditions |-> 0],
   wakeups |-> [c \in Conditions |-> 0],
   place   |-> [t \in Threads |-> "out"],
   on      |-> [t \in Threads |-> CHOOSE c \in Conditions : TRUE],
   timed   |-> [t \in Threads |-> FALSE]]

-----------------------------------------------------------------------------
(* What the three operations make of w *)

\* wait() up to the first pthread_cond_wait()
AfterBegin(w, t, c, timed) ==
  [w EXCEPT !.waiters[c] = @ + 1, !.place[t] = "asleep",
            !.on[t] = c, !.timed[t] = timed]

\* wakeOne(): the values it may lead to
AfterWakeOne(w, c) ==
  LET counted == [w EXCEPT !.wakeups[c] =
                    IF @ + 1 <= w.waiters[c] THEN @ + 1 ELSE w.waiters[c]]
  IN  IF Asleep(w, c) = {}
      THEN {counted}
      ELSE {[counted EXCEPT !.place[t] = "signalled"] : t \in Asleep(w, c)}

\* Broken: everybody is signalled, but there is one wake-up only.
AfterWakeAll_One(w, c) ==
  [w EXCEPT !.wakeups[c] = IF w.waiters[c] = 0 THEN 0 ELSE 1,
            !.place = [t \in Threads |->
                         IF t \in Asleep(w, c) THEN "signalled" ELSE @[t]]]

\* wakeAll()
AfterWakeAll(w, c) ==
  [w EXCEPT !.wakeups[c] = w.waiters[c],
            !.place = [t \in Threads |->
                         IF t \in Asleep(w, c) THEN "signalled" ELSE @[t]]]

\* The caller has its QMutex again, and the answer of wait().
AfterReturn(w, t) == [w EXCEPT !.place[t] = "out"]

-----------------------------------------------------------------------------
(* What happens to a thread inside wait() *)

\* The time a wait was given is over before it is signalled.
Timeout(t) ==
  /\ waits.place[t] = "asleep"
  /\ waits.timed[t]
  /\ waits' = [waits EXCEPT !.place[t] = "timedOut"]

SpuriousWakeup(t) ==
  /\ SpuriousWakeups
  /\ waits.place[t] = "asleep"
  /\ waits' = [waits EXCEPT !.place[t] = "stirred"]

\* Broken: a thread that timed out stays counted.
LeaveTimedOut_Counted(t) ==
  /\ waits.place[t] = "timedOut"
  /\ waits' = [waits EXCEPT !.place[t] = "failed"]

\* The thread has the pthread mutex again: it leaves with code ETIMEDOUT ...
LeaveTimedOut(t) ==
  /\ waits.place[t] = "timedOut"
  /\ waits' = [waits EXCEPT !.place[t] = "failed", !.waiters[waits.on[t]] = @ - 1]

\* ... or with a wake-up ...
LeaveWoken(t) ==
  /\ waits.place[t] \in {"signalled", "stirred"}
  /\ waits.wakeups[waits.on[t]] # 0
  /\ waits' = [waits EXCEPT !.place[t] = "succeeded",
                            !.waiters[waits.on[t]] = @ - 1,
                            !.wakeups[waits.on[t]] = @ - 1]

\* ... or waits again, if there is no wake-up left for it.
WaitAgain(t) ==
  /\ waits.place[t] \in {"signalled", "stirred"}
  /\ waits.wakeups[waits.on[t]] = 0
  /\ waits' = [waits EXCEPT !.place[t] = "asleep"]

Proceed(t) == LeaveTimedOut(t) \/ LeaveWoken(t) \/ WaitAgain(t)

-----------------------------------------------------------------------------
(* Properties *)

TypeOK ==
  waits \in [waiters : [Conditions -> 0..Cardinality(Threads)],
             wakeups : [Conditions -> 0..Cardinality(Threads)],
             place   : [Threads -> Places],
             on      : [Threads -> Conditions],
             timed   : [Threads -> BOOLEAN]]

\* waiters is the number of threads inside wait(), those included that were
\* woken or timed out and still have to say so.
WaitersExact == \A c \in Conditions : waits.waiters[c] = Cardinality(Inside(waits, c))

\* A thread that was signalled leaves wait(); it never goes back to sleep because
\* somebody else took its wake-up (wakeAll() "wakes all threads waiting on the
\* wait condition", qwaitcondition.qdoc:115).
SignalledLeave ==
  [][\A t \in Threads :
       waits.place[t] = "signalled" => waits'.place[t] # "asleep"]_waits
=============================================================================
