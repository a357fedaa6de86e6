---------------------------- MODULE ExecutorSpec ----------------------------
(***************************************************************************)
(* What a thread pool promises: a task that is started waits until a       *)
(* thread begins to run it or somebody takes it back, once for each time   *)
(* it was started; and whoever waits for the pool to be done is told so    *)
(* while nothing waits and nothing runs.  That what waits will be run is   *)
(* another question.                                                       *)
(***************************************************************************)
EXTENDS Naturals

CONSTANTS Tasks, Clients

VARIABLES
  started,    \* how often each task was started,
  withdrawn,  \* taken back,
  pending,    \* and is still to be run
  running,    \* how many threads run each task
  told        \* the clients that were told that all is done

vars == <<started, withdrawn, pending, running, told>>

None == [r \in Tasks |-> 0]

Init ==
  /\ started = None /\ withdrawn = None /\ pending = None /\ running = None
  /\ told = {}

Start(r) ==
  /\ started' = [started EXCEPT ![r] = @ + 1]
  /\ pending' = [pending EXCEPT ![r] = @ + 1]
  /\ UNCHANGED <<withdrawn, running, told>>

\* Somebody takes a task back that no thread has begun to run.
Withdraw(r) ==
  /\ pending[r] > 0
  /\ withdrawn' = [withdrawn EXCEPT ![r] = @ + 1]
  /\ pending' = [pending EXCEPT ![r] = @ - 1]
  /\ UNCHANGED <<started, running, told>>

Begin(r) ==
  /\ pending[r] > 0
  /\ pending' = [pending EXCEPT ![r] = @ - 1]
  /\ running' = [running EXCEPT ![r] = @ + 1]
  /\ UNCHANGED <<started, withdrawn, told>>

End(r) ==
  /\ running[r] > 0
  /\ running' = [running EXCEPT ![r] = @ - 1]
  /\ UNCHANGED <<started, withdrawn, pending, told>>

\* A thread that ends one task begins the next at once.
EndAndBegin(r, s) ==
  /\ running[r] > 0 /\ pending[s] > 0
  /\ pending' = [pending EXCEPT ![s] = @ - 1]
  /\ running' = [[running EXCEPT ![r] = @ - 1] EXCEPT ![s] = @ + 1]
  /\ UNCHANGED <<started, withdrawn, told>>

Tell(c) ==
  /\ pending = None /\ running = None
  /\ told' = told \cup {c}
  /\ UNCHANGED <<started, withdrawn, pending, running>>

GoOn(c) ==
  /\ told' = told \ {c}
  /\ UNCHANGED <<started, withdrawn, pending, running>>

Next ==
  \/ \E r \in Tasks : Start(r) \/ Withdraw(r) \/ Begin(r) \/ End(r)
  \/ \E r, s \in Tasks : EndAndBegin(r, s)
  \/ \E c \in Clients : Tell(c) \/ GoOn(c)

Spec == Init /\ [][Next]_vars
=============================================================================
