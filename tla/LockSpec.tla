------------------------------ MODULE LockSpec ------------------------------
(***************************************************************************)
(* What QMutex promises, whatever it is built from (corelib/thread/        *)
(* qmutex.h): at most one thread owns the mutex; a thread that called      *)
(* lock() only leaves the call as the owner; a thread that called          *)
(* tryLock() leaves it as the owner or with the answer false; only the     *)
(* owner gives the mutex back.  QMutexFutex and QMutexGeneric implement it.*)
(***************************************************************************)
CONSTANT Threads

VARIABLES
  owners,   \* the threads that own the mutex
  wants     \* what each thread is asking for: "nothing", "lock" or "tryLock"

vars == <<owners, wants>>

Calls == {"lock", "tryLock"}

Init ==
  /\ owners = {}
  /\ wants = [t \in Threads |-> "nothing"]

\* A thread that does not own the mutex calls lock() or tryLock().
Request(t) ==
  /\ t \notin owners
  /\ wants[t] = "nothing"
  /\ \E c \in Calls : wants' = [wants EXCEPT ![t] = c]
  /\ UNCHANGED owners

\* The call ends with the mutex in the caller's hands.
Acquire(t) ==
  /\ wants[t] # "nothing"
  /\ owners = {}
  /\ owners' = {t}
  /\ wants' = [wants EXCEPT ![t] = "nothing"]

\* tryLock() answers false; lock() never does.
GiveUp(t) ==
  /\ wants[t] = "tryLock"
  /\ wants' = [wants EXCEPT ![t] = "nothing"]
  /\ UNCHANGED owners

Release(t) ==
  /\ t \in owners
  /\ owners' = owners \ {t}
  /\ UNCHANGED wants

Next == \E t \in Threads : Request(t) \/ Acquire(t) \/ GiveUp(t) \/ Release(t)

Spec == Init /\ [][Next]_vars
=============================================================================
