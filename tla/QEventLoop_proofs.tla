------------------------- MODULE QEventLoop_proofs --------------------------
(***************************************************************************)
(* For any clients, any mix of calls and any number of loops inside each   *)
(* other: a wake-up of the thread is not lost, and no loop begins after    *)
(* exit().                                                                 *)
(***************************************************************************)
EXTENDS QEventLoop, FiniteSetTheorems, SequenceTheorems, TLAPS

C == INSTANCE QWaitCondition_proofs WITH Threads <- Clients, Conditions <- {"thread_done"}

Outer     == {"none", "created", "starting", "run", "exec", "execDone", "finish",
              "closing", "closed"}
Rounds    == {"test", "leave", "reset", "send", "deliver", "handler", "decide",
              "block", "poll", "asleep", "look", "rearm"}
Wakers    == {"no", "posted", "testAndSet", "write"}

\* What the variables hold
Fields ==
  /\ thread \in [{"running", "finished", "isInFinish", "exited", "quitNow"} -> BOOLEAN]
  /\ pc \in Outer \cup Rounds
  /\ stack \in Seq(BOOLEAN)
  /\ events \in [pending : Nat, toSend : Nat, canWait : BOOLEAN]
  /\ dispatcher \in [there : BOOLEAN, interrupt : BOOLEAN, wakeUps : {0, 1}, pipe : BOOLEAN]
  /\ waker \in [Actors -> Wakers]
  /\ exiting \in [by : Actors \cup {NoOne}, loop : Nat, flagged : BOOLEAN]
  /\ call \in [Clients -> {"none", "start", "wait"}]

\* Where the thread is, and what it has there
Places ==
  /\ thread.running <=> pc # "none"
  /\ dispatcher.there <=> pc \notin {"none", "created", "starting", "closing", "closed"}
  /\ InLoop <=> pc \in Rounds

\* exit() is at a loop that runs, and no loop begins meanwhile, nor after it.
ExitSound ==
  /\ exiting.flagged => /\ exiting.by # NoOne /\ exiting.loop \in 1..Len(stack)
                        /\ waker[exiting.by] = "no"
  /\ exiting.by # NoOne => exiting.loop # 0 /\ thread.quitNow
  /\ thread.exited => thread.quitNow

\* Who waits has called wait() or start().
WaitsSound ==
  /\ C!Sound(waits)
  /\ \A c \in Clients : call[c] = "none" <=> waits.place[c] = "out"

Waking == \E a \in Actors : waker[a] # "no"

\* The flag wakeUps stands for one byte: in the pipe, on its way in, or just read.  A
\* dispatcher begins with neither.
FlagSound ==
  /\ dispatcher.wakeUps = 1 <=>
       dispatcher.pipe \/ pc = "rearm" \/ \E a \in Actors : waker[a] = "write"
  /\ dispatcher.pipe => pc # "rearm"
  /\ \A a \in Actors : waker[a] = "write" =>
       /\ ~dispatcher.pipe /\ pc # "rearm"
       /\ \A b \in Actors : waker[b] = "write" => b = a
  /\ pc \in {"none", "created", "starting", "closed"} =>
       \A a \in Actors : waker[a] \notin {"testAndSet", "write"}

\* What is posted after sendPostedEvents() began is no part of what it sends; if it
\* finds canWait, nothing was.  What comes later comes with a wake-up.
EventsSound ==
  /\ events.toSend <= events.pending
  /\ events.canWait => events.pending = events.toSend
  /\ pc = "decide" => events.toSend = 0
  /\ pc \in {"block", "asleep"} /\ events.pending > 0 => dispatcher.pipe \/ Waking

Innermost == stack[Len(stack)]

\* Of the innermost loop, exit() has set the flag and not interrupted yet.
AtInnermost == exiting.flagged /\ exiting.loop = Len(stack)

\* A nested loop that was told to exit finds interrupt, which nothing has reset since:
\* it would take a round that began before, which UnhurriedExit excludes.
NestedSound ==
  Len(stack) > 1 /\ Innermost =>
    /\ dispatcher.interrupt \/ AtInnermost
    /\ pc = "reset" => AtInnermost

\* The outermost loop may have reset interrupt; then the byte is still there, because
\* quitNow keeps handlers from beginning a loop that would read it.
WokenForExit == thread.quitNow /\ (dispatcher.pipe \/ Waking)

OutermostSound ==
  Len(stack) = 1 /\ Innermost =>
    /\ pc \notin {"rearm", "test", "leave", "look"} =>
         dispatcher.interrupt \/ exiting.flagged \/ WokenForExit
    /\ pc = "reset" => exiting.flagged \/ WokenForExit

\* A loop that is left was told to; one that sleeps will be woken up if it was.
LeavingSound ==
  /\ pc = "leave" => Innermost
  /\ pc = "asleep" /\ Innermost => dispatcher.pipe \/ WakeUpComing

\* What holds however exit() and the loops take turns
Base ==
  /\ Fields /\ Places /\ ExitSound /\ WaitsSound /\ FlagSound /\ EventsSound

\* What loops that were told to exit make of it, if exit() leaves them time
Told == NestedSound /\ OutermostSound /\ LeavingSound

IInv == Base /\ (UnhurriedExit => Told)

-----------------------------------------------------------------------------
(* What the actions make of the loops inside each other *)

\* Setting one flag of a sequence
LEMMA OneFlagSet ==
  ASSUME NEW s \in Seq(BOOLEAN), NEW i \in 1..Len(s), NEW r, r = [s EXCEPT ![i] = TRUE]
  PROVE  /\ r \in Seq(BOOLEAN) /\ Len(r) = Len(s) /\ r[i]
         /\ \A j \in 1..Len(s) : j # i => r[j] = s[j]
<1>1. TRUE \in BOOLEAN
      OBVIOUS
<1>2. QED BY <1>1, ExceptSeq

\* A sequence without its last element
LEMMA LastLeft ==
  ASSUME NEW S, NEW s \in Seq(S), Len(s) # 0, NEW r, r = SubSeq(s, 1, Len(s) - 1)
  PROVE  /\ Len(s) \in Nat /\ Len(s) > 0
         /\ r \in Seq(S) /\ Len(r) = Len(s) - 1
         /\ \A j \in 1..(Len(s) - 1) : r[j] = s[j]
<1> DEFINE n == Len(s) - 1
<1>1. Len(s) \in Nat /\ Len(s) > 0
      OBVIOUS
<1>2. n \in Int /\ n >= 0 /\ \A i \in 1..n : s[i] \in S
      BY <1>1
<1> HIDE DEF n
<1>3. /\ SubSeq(s, 1, n) \in Seq(S)
      /\ Len(SubSeq(s, 1, n)) = IF 1 <= n THEN n - 1 + 1 ELSE 0
      /\ \A i \in 1..(n - 1 + 1) : SubSeq(s, 1, n)[i] = s[1 + i - 1]
      BY <1>2, SubSeqProperties
<1>4. Len(SubSeq(s, 1, n)) = n /\ \A i \in 1..n : SubSeq(s, 1, n)[i] = s[i]
      BY <1>2, <1>3
<1>5. QED BY <1>1, <1>3, <1>4 DEF n

\* A loop is told to exit ...
LEMMA FlagLoopStack ==
  ASSUME Base, NEW a \in Actors, FlagLoop(a)
  PROVE  /\ stack' \in Seq(BOOLEAN) /\ Len(stack') = Len(stack)
         /\ exiting.loop \in 1..Len(stack) /\ stack'[exiting.loop]
         /\ \A i \in 1..Len(stack) : i # exiting.loop => stack'[i] = stack[i]
<1>1. exiting.loop \in 1..Len(stack) /\ stack \in Seq(BOOLEAN)
      BY LoopAssumption DEF FlagLoop, Base, Fields, ExitSound, Actors
<1>2. QED BY <1>1, OneFlagSet DEF FlagLoop

\* ... by a handler, if it is the innermost; ...
LEMMA ExitLoopStack ==
  ASSUME Base, ExitLoop
  PROVE  /\ stack' \in Seq(BOOLEAN) /\ Len(stack') = Len(stack)
         /\ \A i \in 1..Len(stack) : i # Len(stack) => stack'[i] = stack[i]
<1>1. Len(stack) \in 1..Len(stack) /\ stack \in Seq(BOOLEAN)
      BY DEF ExitLoop, Base, Fields, Places, InLoop, At, Rounds
<1> DEFINE last == Len(stack)
<1>2. last \in 1..Len(stack) /\ stack' = [stack EXCEPT ![last] = TRUE]
      BY <1>1 DEF ExitLoop
<1>3. stack' \in Seq(BOOLEAN) /\ Len(stack') = Len(stack)
      /\ \A i \in 1..Len(stack) : i # last => stack'[i] = stack[i]
      <2> HIDE DEF last
      <2>1. QED BY <1>1, <1>2, OneFlagSet
<1>4. QED BY <1>3

\* ... one begins that was not told to; ...
LEMMA EnterLoopStack ==
  ASSUME Base, EnterLoop
  PROVE  /\ stack' \in Seq(BOOLEAN) /\ Len(stack') = Len(stack) + 1
         /\ ~stack'[Len(stack')]
<1>1. stack \in Seq(BOOLEAN) /\ FALSE \in BOOLEAN /\ stack' = Append(stack, FALSE)
      BY DEF EnterLoop, Base, Fields
<1>2. QED BY <1>1, AppendProperties

\* ... or the innermost is left.
LEMMA LeaveLoopStack ==
  ASSUME Base, LeaveLoop
  PROVE  /\ Len(stack) \in Nat /\ Len(stack) > 0
         /\ stack' \in Seq(BOOLEAN) /\ Len(stack') = Len(stack) - 1
         /\ \A i \in 1..(Len(stack) - 1) : stack'[i] = stack[i]
<1>1. stack \in Seq(BOOLEAN) /\ Len(stack) # 0
      BY DEF LeaveLoop, Base, Fields, Places, InLoop, At, Rounds
<1>2. \A r : r = SubSeq(stack, 1, Len(stack) - 1) =>
              /\ Len(stack) \in Nat /\ Len(stack) > 0
              /\ r \in Seq(BOOLEAN) /\ Len(r) = Len(stack) - 1
              /\ \A j \in 1..(Len(stack) - 1) : r[j] = stack[j]
      BY <1>1, LastLeft
<1>3. stack' = SubSeq(stack, 1, Len(stack) - 1)
      BY DEF LeaveLoop
<1>4. QED BY <1>2, <1>3

\* start() of a thread that runs does nothing; else it begins, not told to exit.
LEMMA StartedFields ==
  ASSUME Fields, UNCHANGED <<thread, pc>> \/ Started
  PROVE  /\ thread' \in [{"running", "finished", "isInFinish", "exited", "quitNow"} -> BOOLEAN]
         /\ pc' \in Outer \cup Rounds
         /\ \/ thread' = thread /\ pc' = pc
            \/ /\ ~thread.running /\ thread'.running /\ ~thread'.exited
               /\ thread'.quitNow = thread.quitNow /\ pc' = "created"
<1>1. CASE UNCHANGED <<thread, pc>>
      BY <1>1 DEF Fields
<1>2. CASE Started /\ ~thread.running
      <2>1. /\ thread' = [thread EXCEPT !.running = TRUE, !.finished = FALSE, !.exited = FALSE]
            /\ pc' = "created"
            BY <1>2 DEF Started
      <2>2. /\ thread' \in [{"running", "finished", "isInFinish", "exited", "quitNow"} -> BOOLEAN]
            /\ thread'.running /\ ~thread'.exited /\ thread'.quitNow = thread.quitNow
            BY <2>1 DEF Fields
      <2>3. QED BY <1>2, <2>1, <2>2 DEF Outer
<1>3. CASE Started /\ thread.running
      BY <1>3 DEF Started, Fields
<1>4. QED BY <1>1, <1>2, <1>3

\* The variables keep their types.
LEMMA FieldsInductive == Base /\ [Next]_vars => Fields'
<1> SUFFICES ASSUME Base, [Next]_vars PROVE Fields'
    OBVIOUS
<1> USE LoopAssumption DEF Base, Fields, Outer, Rounds, Wakers, Actors, At, NotExiting
<1>1. CASE UNCHANGED vars
      BY <1>1 DEF vars
<1>2. ASSUME NEW a \in Actors, TestAndSet(a) PROVE Fields'
      BY <1>2 DEF TestAndSet
<1>3. ASSUME NEW a \in Actors, WritePipe(a) PROVE Fields'
      BY <1>3 DEF WritePipe
<1>4. ASSUME NEW a \in Actors, PostEvent(a) PROVE Fields'
      <2>1. events' \in [pending : Nat, toSend : Nat, canWait : BOOLEAN]
            <3>1. events.pending + 1 \in Nat
                  OBVIOUS
            <3>2. QED BY <1>4, <3>1 DEF PostEvent
      <2>2. QED BY <1>4, <2>1 DEF PostEvent
<1>5. ASSUME NEW a \in Actors, FindDispatcher(a) PROVE Fields'
      BY <1>5 DEF FindDispatcher
<1>6. ASSUME NEW a \in Actors, Exit(a) PROVE Fields'
      BY <1>6 DEF Exit
<1>7. ASSUME NEW a \in Actors, FlagLoop(a) PROVE Fields'
      <2>1. stack' \in Seq(BOOLEAN)
            BY <1>7, FlagLoopStack
      <2>2. QED BY <1>7, <2>1 DEF FlagLoop
<1>8. ASSUME NEW a \in Actors, InterruptLoop(a) PROVE Fields'
      <2>1. exiting' \in [by : Actors \cup {NoOne}, loop : Nat, flagged : BOOLEAN]
            <3>1. exiting.loop + 1 \in Nat
                  OBVIOUS
            <3>2. QED BY <1>8, <3>1 DEF InterruptLoop
      <2>2. QED BY <1>8, <2>1 DEF InterruptLoop
<1>9. ASSUME NEW a \in Actors, EndExit(a) PROVE Fields'
      BY <1>9 DEF EndExit
<1>10. ASSUME NEW c \in Clients, Start(c) PROVE Fields'
      <2>1. thread' \in [{"running", "finished", "isInFinish", "exited", "quitNow"} -> BOOLEAN]
            BY <1>10, StartedFields DEF Start
      <2>2. pc' \in Outer \cup Rounds
            BY <1>10, StartedFields DEF Start
      <2>3. call' \in [Clients -> {"none", "start", "wait"}]
            BY <1>10 DEF Start
      <2>4. QED BY <1>10, <2>1, <2>2, <2>3 DEF Start
<1>11. ASSUME NEW c \in Clients, StartWakes(c) PROVE Fields'
      <2>1. thread' \in [{"running", "finished", "isInFinish", "exited", "quitNow"} -> BOOLEAN]
            BY <1>11, StartedFields DEF StartWakes
      <2>2. pc' \in Outer \cup Rounds
            BY <1>11, StartedFields DEF StartWakes
      <2>3. QED BY <1>11, <2>1, <2>2 DEF StartWakes
<1>12. ASSUME NEW c \in Clients, Wait(c) PROVE Fields'
      BY <1>12 DEF Wait
<1>13. ASSUME NEW c \in Clients, WaitWakes(c) PROVE Fields'
      BY <1>13 DEF WaitWakes
<1>14. ASSUME NEW c \in Clients, InWait(c) PROVE Fields'
      BY <1>14 DEF InWait
<1>15. ASSUME ThreadBegins PROVE Fields'
      BY <1>15 DEF ThreadBegins
<1>16. ASSUME CreateDispatcher PROVE Fields'
      <2>1. dispatcher' \in [there : BOOLEAN, interrupt : BOOLEAN, wakeUps : {0, 1}, pipe : BOOLEAN]
            BY <1>16 DEF CreateDispatcher, NewDispatcher
      <2>2. QED BY <1>16, <2>1 DEF CreateDispatcher
<1>17. ASSUME Exec PROVE Fields'
      BY <1>17 DEF Exec
<1>18. ASSUME ExecReturns PROVE Fields'
      BY <1>18 DEF ExecReturns
<1>19. ASSUME Finish PROVE Fields'
      BY <1>19 DEF Finish
<1>20. ASSUME ResetDispatcher PROVE Fields'
      BY <1>20 DEF ResetDispatcher
<1>21. ASSUME DeleteDispatcher PROVE Fields'
      <2>1. dispatcher' \in [there : BOOLEAN, interrupt : BOOLEAN, wakeUps : {0, 1}, pipe : BOOLEAN]
            BY <1>21 DEF DeleteDispatcher, NewDispatcher
      <2>2. QED BY <1>21, <2>1 DEF DeleteDispatcher
<1>22. ASSUME Finished PROVE Fields'
      BY <1>22 DEF Finished
<1>23. ASSUME EnterLoop PROVE Fields'
      BY <1>23 DEF EnterLoop
<1>24. ASSUME RefuseLoop PROVE Fields'
      BY <1>24 DEF RefuseLoop
<1>25. ASSUME TestExit PROVE Fields'
      BY <1>25 DEF TestExit
<1>26. ASSUME LeaveLoop PROVE Fields'
      BY <1>26 DEF LeaveLoop
<1>27. ASSUME ResetInterrupt PROVE Fields'
      BY <1>27 DEF ResetInterrupt
<1>28. ASSUME Send PROVE Fields'
      BY <1>28 DEF Send
<1>29. ASSUME Deliver PROVE Fields'
      <2>1. events' \in [pending : Nat, toSend : Nat, canWait : BOOLEAN]
            <3>1. events.toSend > 0 => events.pending - 1 \in Nat /\ events.toSend - 1 \in Nat
                  BY DEF EventsSound
            <3>2. QED BY <1>29, <3>1 DEF Deliver
      <2>2. QED BY <1>29, <2>1 DEF Deliver
<1>30. ASSUME HandlerReturns PROVE Fields'
      BY <1>30 DEF HandlerReturns
<1>31. ASSUME ExitLoop PROVE Fields'
      <2>1. stack' \in Seq(BOOLEAN)
            BY <1>31, ExitLoopStack
      <2>2. QED BY <1>31, <2>1 DEF ExitLoop
<1>32. ASSUME Sent PROVE Fields'
      BY <1>32 DEF Sent
<1>33. ASSUME Decide PROVE Fields'
      BY <1>33 DEF Decide
<1>34. ASSUME TestInterrupt PROVE Fields'
      BY <1>34 DEF TestInterrupt
<1>35. ASSUME Drain PROVE Fields'
      BY <1>35 DEF Drain
<1>36. ASSUME FindNothing PROVE Fields'
      BY <1>36 DEF FindNothing
<1>37. ASSUME Rearm PROVE Fields'
      BY <1>37 DEF Rearm
<1>38. QED BY <1>1, <1>2, <1>3, <1>4, <1>5, <1>6, <1>7, <1>8, <1>9, <1>10, <1>11, <1>12,
              <1>13, <1>14, <1>15, <1>16, <1>17, <1>18, <1>19, <1>20, <1>21, <1>22, <1>23,
              <1>24, <1>25, <1>26, <1>27, <1>28, <1>29, <1>30, <1>31, <1>32, <1>33, <1>34,
              <1>35, <1>36, <1>37
              DEF Next, InThread, Choices, Going

\* A thread that does not run is nowhere, and one in a loop has a dispatcher.
LEMMA PlacesInductive == Base /\ [Next]_vars => Places'
<1> SUFFICES ASSUME Base, [Next]_vars PROVE Places'
    OBVIOUS
<1> USE DEF Base, Fields, Places, Rounds, InLoop, At
<1>1. CASE UNCHANGED vars
      BY <1>1 DEF vars
<1>2. ASSUME NEW a \in Actors,
             PostEvent(a) \/ TestAndSet(a) \/ WritePipe(a) \/ FindDispatcher(a) \/ EndExit(a)
      PROVE  Places'
      BY <1>2 DEF PostEvent, TestAndSet, WritePipe, FindDispatcher, EndExit
<1>3. ASSUME NEW a \in Actors, Exit(a) \/ InterruptLoop(a) PROVE Places'
      <2>1. UNCHANGED <<pc, stack>>
            BY <1>3 DEF Exit, InterruptLoop
      <2>2. thread'.running = thread.running /\ dispatcher'.there = dispatcher.there
            <3>1. CASE Exit(a)
                  BY <3>1 DEF Exit
            <3>2. CASE InterruptLoop(a)
                  BY <3>2 DEF InterruptLoop
            <3>3. QED BY <1>3, <3>1, <3>2
      <2>3. QED BY <2>1, <2>2
<1>4. ASSUME NEW a \in Actors, FlagLoop(a) PROVE Places'
      <2>1. stack' # <<>> <=> stack # <<>>
            BY <1>4, FlagLoopStack
      <2>2. QED BY <1>4, <2>1 DEF FlagLoop
<1>5. ASSUME NEW c \in Clients, Start(c) \/ StartWakes(c) PROVE Places'
      <2>1. UNCHANGED <<thread, pc>> \/ Started
            BY <1>5 DEF Start, StartWakes
      <2>2. UNCHANGED <<stack, dispatcher>>
            BY <1>5 DEF Start, StartWakes
      <2>3. QED BY <2>1, <2>2, StartedFields
<1>6. ASSUME NEW c \in Clients, Wait(c) \/ WaitWakes(c) \/ InWait(c) PROVE Places'
      BY <1>6 DEF Wait, WaitWakes, InWait
<1>7. CASE ThreadBegins \/ Exec \/ ExecReturns \/ Finish
      <2>1. CASE ThreadBegins
            BY <2>1 DEF ThreadBegins
      <2>2. CASE Exec
            BY <2>2 DEF Exec
      <2>3. CASE ExecReturns
            BY <2>3 DEF ExecReturns
      <2>4. CASE Finish
            BY <2>4 DEF Finish
      <2>5. QED BY <1>7, <2>1, <2>2, <2>3, <2>4
<1>8. CASE CreateDispatcher \/ ResetDispatcher \/ DeleteDispatcher
      BY <1>8 DEF CreateDispatcher, ResetDispatcher, DeleteDispatcher, NewDispatcher
<1>9. CASE Finished \/ RefuseLoop \/ TestExit
      BY <1>9 DEF Finished, RefuseLoop, TestExit
<1>10. CASE EnterLoop
      <2>1. stack' # <<>>
            BY <1>10, EnterLoopStack
      <2>2. QED BY <1>10, <2>1 DEF EnterLoop
<1>11. CASE LeaveLoop
      <2>a. /\ Len(stack) \in Nat /\ Len(stack) > 0
            /\ stack' \in Seq(BOOLEAN) /\ Len(stack') = Len(stack) - 1
            BY <1>11, LeaveLoopStack
      <2>1. stack' # <<>> <=> Len(stack) # 1
            BY <2>a, EmptySeq
      <2>2. QED BY <1>11, <2>1 DEF LeaveLoop
<1>12. CASE ExitLoop
      <2>1. stack' # <<>> <=> stack # <<>>
            BY <1>12, ExitLoopStack
      <2>2. QED BY <1>12, <2>1 DEF ExitLoop
<1>13. CASE ResetInterrupt \/ Send \/ Deliver \/ HandlerReturns \/ Sent \/ Decide
      BY <1>13 DEF ResetInterrupt, Send, Deliver, HandlerReturns, Sent, Decide
<1>14. CASE TestInterrupt \/ Drain \/ FindNothing \/ Rearm
      BY <1>14 DEF TestInterrupt, Drain, FindNothing, Rearm
<1>15. QED BY <1>1, <1>2, <1>3, <1>4, <1>5, <1>6, <1>7, <1>8, <1>9, <1>10, <1>11, <1>12,
              <1>13, <1>14 DEF Next, InThread, Choices, Going

\* exit() holds the mutex, without which no loop begins or ends.
LEMMA ExitInductive == Base /\ [Next]_vars => ExitSound'
<1> SUFFICES ASSUME Base, [Next]_vars PROVE ExitSound'
    OBVIOUS
<1> USE LoopAssumption DEF Base, Fields, ExitSound, MutexFree, Actors
<1>1. CASE UNCHANGED vars
      BY <1>1 DEF vars
<1>2. ASSUME NEW a \in Actors,
             PostEvent(a) \/ TestAndSet(a) \/ WritePipe(a) \/ FindDispatcher(a)
      PROVE  ExitSound'
      <2>1. UNCHANGED <<thread, exiting, stack>> /\ (exiting.flagged => exiting.by # a)
            BY <1>2 DEF PostEvent, TestAndSet, WritePipe, FindDispatcher, MayCall, Idle, At
      <2>2. \A b \in Actors : b # a => waker'[b] = waker[b]
            BY <1>2 DEF PostEvent, TestAndSet, WritePipe, FindDispatcher
      <2>3. QED BY <2>1, <2>2
<1>3. ASSUME NEW a \in Actors, Exit(a) \/ EndExit(a) PROVE ExitSound'
      <2>1. CASE Exit(a)
            <3>1. ~exiting'.flagged /\ exiting'.loop = 1 /\ thread'.quitNow
                  BY <2>1 DEF Exit
            <3>2. QED BY <3>1
      <2>2. CASE EndExit(a)
            <3>1. ~exiting'.flagged /\ exiting'.by = NoOne /\ UNCHANGED thread
                  BY <2>2 DEF EndExit, NotExiting
            <3>2. QED BY <3>1
      <2>3. QED BY <1>3, <2>1, <2>2
<1>4. ASSUME NEW a \in Actors, InterruptLoop(a) PROVE ExitSound'
      BY <1>4 DEF InterruptLoop
<1>5. ASSUME NEW a \in Actors, FlagLoop(a) PROVE ExitSound'
      BY <1>5, FlagLoopStack DEF FlagLoop
<1>6. ASSUME NEW c \in Clients, Start(c) \/ StartWakes(c) PROVE ExitSound'
      <2>1. UNCHANGED <<thread, pc>> \/ Started
            BY <1>6 DEF Start, StartWakes
      <2>2. UNCHANGED <<stack, exiting>> /\ MutexFree
            BY <1>6 DEF Start, StartWakes
      <2>3. QED BY <2>1, <2>2, StartedFields
<1>7. ASSUME NEW c \in Clients, Wait(c) \/ WaitWakes(c) \/ InWait(c) PROVE ExitSound'
      BY <1>7 DEF Wait, WaitWakes, InWait
<1>8. CASE ThreadBegins \/ Exec \/ ExecReturns \/ Finish \/ Finished
      <2>1. UNCHANGED <<exiting, stack>> /\ exiting.by = NoOne
            BY <1>8 DEF ThreadBegins, Exec, ExecReturns, Finish, Finished
      <2>2. thread'.exited => thread'.quitNow
            <3>1. CASE ThreadBegins
                  BY <3>1 DEF ThreadBegins
            <3>2. CASE Exec \/ ExecReturns
                  BY <3>2 DEF Exec, ExecReturns
            <3>3. CASE Finish \/ Finished
                  BY <3>3 DEF Finish, Finished
            <3>4. QED BY <1>8, <3>1, <3>2, <3>3
      <2>3. QED BY <2>1, <2>2
<1>9. CASE CreateDispatcher \/ ResetDispatcher \/ DeleteDispatcher \/ RefuseLoop \/ TestExit
      BY <1>9 DEF CreateDispatcher, ResetDispatcher, DeleteDispatcher, RefuseLoop, TestExit
<1>10. CASE EnterLoop \/ LeaveLoop
      BY <1>10 DEF EnterLoop, LeaveLoop
<1>11. CASE ExitLoop \/ Sent
      <2>1. UNCHANGED <<thread, exiting>> /\ Len(stack') = Len(stack) /\ exiting.by # Loop
            BY <1>11, ExitLoopStack DEF ExitLoop, Sent, At
      <2>2. \A b \in Actors : b # Loop => waker'[b] = waker[b]
            BY <1>11 DEF ExitLoop, Sent
      <2>3. QED BY <2>1, <2>2
<1>12. CASE ResetInterrupt \/ Send \/ Deliver \/ HandlerReturns \/ Decide
      BY <1>12 DEF ResetInterrupt, Send, Deliver, HandlerReturns, Decide
<1>13. CASE TestInterrupt \/ Drain \/ FindNothing \/ Rearm
      BY <1>13 DEF TestInterrupt, Drain, FindNothing, Rearm
<1>14. QED BY <1>1, <1>2, <1>3, <1>4, <1>5, <1>6, <1>7, <1>8, <1>9, <1>10, <1>11, <1>12, <1>13
              DEF Next, InThread, Choices, Going

-----------------------------------------------------------------------------
(* The wait condition thread_done: QWaitCondition_proofs says it of the clients *)

\* There are finitely many of them.
LEMMA ClientsFinite == C!IsFiniteSet(Clients)
BY LoopAssumption DEF C!IsFiniteSet, IsFiniteSet

\* QEventLoop and QWaitCondition_proofs mean the same wait condition.
LEMMA SameWaits ==
  /\ \A w, c, b, t : W!AfterBegin(w, c, b, t) = C!AfterBegin(w, c, b, t)
  /\ \A w, b : W!AfterWakeAll(w, b) = C!AfterWakeAll(w, b)
  /\ \A w, c : W!AfterReturn(w, c) = C!AfterReturn(w, c)
  /\ W!Places = C!Places /\ W!Done = C!Done
<1>1. \A w, c, b, t : W!AfterBegin(w, c, b, t) = C!AfterBegin(w, c, b, t)
      BY DEF W!AfterBegin, C!AfterBegin
<1>2. \A w, b : W!AfterWakeAll(w, b) = C!AfterWakeAll(w, b)
      BY DEF W!AfterWakeAll, C!AfterWakeAll, W!Asleep, C!Asleep, W!Inside, C!Inside,
             W!Unlocked, C!Unlocked
<1>3. \A w, c : W!AfterReturn(w, c) = C!AfterReturn(w, c)
      BY DEF W!AfterReturn, C!AfterReturn
<1>4. W!Places = C!Places /\ W!Done = C!Done
      BY DEF W!Places, C!Places, W!Done, C!Done, W!Unlocked, C!Unlocked
<1>5. QED BY <1>1, <1>2, <1>3, <1>4

\* The steps of a client inside wait() are the same.
LEMMA SameSteps ==
  ASSUME NEW c \in Clients, W!Timeout(c) \/ W!SpuriousWakeup(c) \/ W!Proceed(c)
  PROVE  C!Timeout(c) \/ C!SpuriousWakeup(c) \/ C!Proceed(c)
<1>1. CASE W!Timeout(c)
      BY <1>1 DEF W!Timeout, C!Timeout
<1>2. CASE W!SpuriousWakeup(c)
      BY <1>2 DEF W!SpuriousWakeup, C!SpuriousWakeup
<1>3. CASE W!Proceed(c)
      BY <1>3 DEF W!Proceed, C!Proceed, W!LeaveTimedOut, C!LeaveTimedOut, W!LeaveWoken,
                  C!LeaveWoken, W!WaitAgain, C!WaitAgain
<1>4. QED BY <1>1, <1>2, <1>3

\* A client begins to wait ...
LEMMA BeginsToWait ==
  ASSUME Base, NEW c \in Clients, waits.place[c] \in {"out"} \cup W!Done,
         NEW timed \in BOOLEAN, waits' = W!AfterBegin(waits, c, "thread_done", timed)
  PROVE  C!Sound(waits') /\ waits'.place = [waits.place EXCEPT ![c] = "asleep"]
<1>1. C!Sound(waits) /\ waits.place[c] \notin C!Unlocked /\ "thread_done" \in {"thread_done"}
      BY DEF Base, WaitsSound, W!Done, C!Unlocked
<1>2. waits' = C!AfterBegin(waits, c, "thread_done", timed)
      BY SameWaits
<1>3. DEFINE x == C!AfterBegin(waits, c, "thread_done", timed)
<1>4. C!Sound(x) /\ x.place = [waits.place EXCEPT ![c] = "asleep"]
      BY <1>1, ClientsFinite, C!BeginSound, Zenon
<1>5. QED BY <1>2, <1>4

\* ... and comes back.
LEMMA ComesBack ==
  ASSUME Base, NEW c \in Clients, waits.place[c] \in W!Done, waits' = W!AfterReturn(waits, c)
  PROVE  C!Sound(waits') /\ waits'.place = [waits.place EXCEPT ![c] = "out"]
<1>1. C!Sound(waits) /\ waits.place[c] \in C!Done
      BY SameWaits DEF Base, WaitsSound
<1>2. waits' = C!AfterReturn(waits, c)
      BY SameWaits
<1>3. QED BY <1>1, <1>2, C!ReturnSound

\* Who waits has called for it.
LEMMA WaitsInductive == Base /\ [Next]_vars => WaitsSound'
<1> SUFFICES ASSUME Base, [Next]_vars PROVE WaitsSound'
    OBVIOUS
<1>a. /\ call \in [Clients -> {"none", "start", "wait"}]
      /\ C!Sound(waits)
      /\ DOMAIN waits.place = Clients
      /\ \A c \in Clients : call[c] = "none" <=> waits.place[c] = "out"
      BY DEF Base, Fields, WaitsSound, C!Sound, C!Shape
<1>1. CASE UNCHANGED <<call, waits>>
      BY <1>1, <1>a DEF WaitsSound, C!Sound, C!Shape, C!Counted, C!Inside
<1>2. ASSUME NEW c \in Clients, Start(c) PROVE WaitsSound'
      <2>1. CASE thread.isInFinish
            <3>1. waits' = W!AfterBegin(waits, c, "thread_done", FALSE) /\ call[c] = "none"
                  BY <1>2, <2>1, LoopAssumption DEF Start, MayCall, Idle
            <3>2. C!Sound(waits') /\ waits'.place = [waits.place EXCEPT ![c] = "asleep"]
                  BY <1>a, <3>1, BeginsToWait
            <3>3. call' = [call EXCEPT ![c] = "start"]
                  BY <1>2, <2>1 DEF Start
            <3>4. QED BY <1>a, <3>2, <3>3 DEF WaitsSound
      <2>2. CASE ~thread.isInFinish
            BY <1>1, <1>2, <2>2 DEF Start
      <2>3. QED BY <2>1, <2>2
<1>3. ASSUME NEW c \in Clients, StartWakes(c) PROVE WaitsSound'
      <2>1. C!Sound(waits') /\ waits'.place = [waits.place EXCEPT ![c] = "out"]
            BY <1>3, ComesBack DEF StartWakes
      <2>2. call' = [call EXCEPT ![c] = "none"]
            BY <1>3 DEF StartWakes
      <2>3. QED BY <1>a, <2>1, <2>2 DEF WaitsSound
<1>4. ASSUME NEW c \in Clients, Wait(c) PROVE WaitsSound'
      <2>1. PICK timed \in BOOLEAN : waits' = W!AfterBegin(waits, c, "thread_done", timed)
            BY <1>4 DEF Wait
      <2>2. call[c] = "none" /\ call' = [call EXCEPT ![c] = "wait"]
            BY <1>4, LoopAssumption DEF Wait, MayCall, Idle
      <2>3. C!Sound(waits') /\ waits'.place = [waits.place EXCEPT ![c] = "asleep"]
            BY <1>a, <2>1, <2>2, BeginsToWait
      <2>4. QED BY <1>a, <2>2, <2>3 DEF WaitsSound
<1>5. ASSUME NEW c \in Clients, WaitWakes(c) PROVE WaitsSound'
      <2>1. CASE waits.place[c] = "succeeded" /\ thread.running
            <3>1. waits' = W!AfterBegin(waits, c, "thread_done", waits.timed[c])
                  BY <1>5, <2>1 DEF WaitWakes
            <3>2. waits.timed[c] \in BOOLEAN /\ waits.place[c] \in W!Done
                  BY <1>a, <1>5 DEF WaitWakes, C!Sound, C!Shape
            <3>3. C!Sound(waits') /\ waits'.place = [waits.place EXCEPT ![c] = "asleep"]
                  BY <3>1, <3>2, BeginsToWait
            <3>4. UNCHANGED call /\ call[c] # "none"
                  BY <1>5, <2>1 DEF WaitWakes
            <3>5. QED BY <1>a, <3>3, <3>4 DEF WaitsSound
      <2>2. CASE ~(waits.place[c] = "succeeded" /\ thread.running)
            <3>1. C!Sound(waits') /\ waits'.place = [waits.place EXCEPT ![c] = "out"]
                  BY <1>5, <2>2, ComesBack DEF WaitWakes
            <3>2. call' = [call EXCEPT ![c] = "none"]
                  BY <1>5, <2>2 DEF WaitWakes
            <3>3. QED BY <1>a, <3>1, <3>2 DEF WaitsSound
      <2>3. QED BY <2>1, <2>2
<1>6. ASSUME NEW c \in Clients, InWait(c) PROVE WaitsSound'
      <2>1. C!Timeout(c) \/ C!SpuriousWakeup(c) \/ C!Proceed(c)
            BY <1>6, SameSteps DEF InWait
      <2>2. /\ C!Sound(waits')
            /\ \A s \in Clients : waits'.place[s] = "out" <=> waits.place[s] = "out"
            BY <1>a, <2>1, ClientsFinite, C!WaitingSound
      <2>3. QED BY <1>a, <1>6, <2>2 DEF WaitsSound, InWait
<1>7. CASE Finished
      <2>1. waits' = C!AfterWakeAll(waits, "thread_done") /\ "thread_done" \in {"thread_done"}
            BY <1>7, SameWaits DEF Finished
      <2>2. C!Sound(waits') /\ C!Roused(waits, waits')
            BY <1>a, <2>1, ClientsFinite, C!WakeAllSound
      <2>3. \A c \in Clients : waits'.place[c] = "out" <=> waits.place[c] = "out"
            BY <2>2 DEF C!Roused
      <2>4. QED BY <1>a, <1>7, <2>2, <2>3 DEF WaitsSound, Finished
<1>8. CASE UNCHANGED vars
      BY <1>1, <1>8 DEF vars
<1>9. ASSUME NEW a \in Actors, PostEvent(a) \/ Exit(a) \/ Going(a) PROVE UNCHANGED <<call, waits>>
      BY <1>9 DEF PostEvent, Exit, Going, TestAndSet, WritePipe, FindDispatcher, FlagLoop,
                  InterruptLoop, EndExit
<1>10. CASE InThread /\ ~Finished
      BY <1>1, <1>10 DEF InThread, ThreadBegins, CreateDispatcher, ExecReturns, ResetDispatcher,
             DeleteDispatcher, EnterLoop, RefuseLoop, TestExit, LeaveLoop, ResetInterrupt, Send,
             Deliver, HandlerReturns, Sent, Decide, TestInterrupt, Drain, FindNothing, Rearm
<1>11. CASE Choices
      BY <1>1, <1>11 DEF Choices, Exec, Finish, EnterLoop, ExitLoop
<1>12. QED BY <1>1, <1>2, <1>3, <1>4, <1>5, <1>6, <1>7, <1>8, <1>9, <1>10, <1>11 DEF Next

-----------------------------------------------------------------------------
(* The flag wakeUps *)

\* The steps that leave the wake-ups as they are
LEMMA FlagKept ==
  ASSUME Base,
         dispatcher'.wakeUps = dispatcher.wakeUps, dispatcher'.pipe = dispatcher.pipe,
         \A a \in Actors : waker'[a] = "write" <=> waker[a] = "write",
         pc' = "rearm" <=> pc = "rearm",
         pc' \in {"none", "created", "starting", "closed"} =>
           \A a \in Actors : waker'[a] \notin {"testAndSet", "write"}
  PROVE  FlagSound'
BY Zenon DEF Base, FlagSound

\* It is set by who finds it clear and writes the byte, and cleared by who read it.
LEMMA FlagInductive == Base /\ [Next]_vars => FlagSound'
<1> SUFFICES ASSUME Base, [Next]_vars PROVE FlagSound'
    OBVIOUS
<1> USE DEF At, Wakers
<1>a. waker \in [Actors -> Wakers] /\ Loop \in Actors /\ pc \in Outer \cup Rounds
      /\ dispatcher \in [there : BOOLEAN, interrupt : BOOLEAN, wakeUps : {0, 1}, pipe : BOOLEAN]
      BY DEF Base, Fields, Actors
<1>b. \A a \in Actors : pc \in {"none", "created", "starting", "closed"} =>
        waker[a] \notin {"testAndSet", "write"}
      BY DEF Base, FlagSound
<1>c. dispatcher.there => pc \notin {"none", "created", "starting", "closed"}
      BY DEF Base, Places
<1>1. CASE UNCHANGED vars
      BY <1>1, <1>b, FlagKept DEF vars
<1>2. ASSUME NEW a \in Actors, TestAndSet(a) PROVE FlagSound'
      <2>1. CASE dispatcher.wakeUps = 0
            <3>1. dispatcher'.wakeUps = 1 /\ dispatcher'.pipe = dispatcher.pipe /\ pc' = pc
                  /\ waker' = [waker EXCEPT ![a] = "write"]
                  BY <1>2, <1>a, <2>1 DEF TestAndSet
            <3>2. ~dispatcher.pipe /\ pc # "rearm" /\ \A b \in Actors : waker[b] # "write"
                  BY <1>a, <2>1 DEF Base, FlagSound
            <3>3. pc \notin {"none", "created", "starting", "closed"}
                  BY <1>2, <1>b DEF TestAndSet
            <3>4. QED BY <1>a, <3>1, <3>2, <3>3 DEF FlagSound
      <2>2. CASE dispatcher.wakeUps # 0
            BY <1>2, <1>a, <1>b, <2>2, FlagKept DEF TestAndSet
      <2>3. QED BY <2>1, <2>2
<1>3. ASSUME NEW a \in Actors, WritePipe(a) PROVE FlagSound'
      <2>1. dispatcher'.wakeUps = dispatcher.wakeUps /\ dispatcher'.pipe /\ pc' = pc
            /\ waker' = [waker EXCEPT ![a] = "no"] /\ waker[a] = "write"
            BY <1>3, <1>a DEF WritePipe
      <2>2. dispatcher.wakeUps = 1 /\ pc # "rearm"
            /\ \A b \in Actors : waker[b] = "write" => b = a
            BY <2>1 DEF Base, FlagSound
      <2>3. QED BY <1>a, <1>b, <2>1, <2>2 DEF FlagSound
<1>4. ASSUME NEW a \in Actors, PostEvent(a) \/ Exit(a) PROVE FlagSound'
      <2>1. waker' = waker \/ (waker' = [waker EXCEPT ![a] = "posted"] /\ waker[a] = "no")
            BY <1>4 DEF PostEvent, Exit, MayCall, Idle
      <2>2. UNCHANGED <<pc, dispatcher>>
            BY <1>4 DEF PostEvent, Exit
      <2>3. QED BY <1>a, <1>b, <2>1, <2>2, FlagKept
<1>5. ASSUME NEW a \in Actors, FindDispatcher(a) PROVE FlagSound'
      BY <1>5, <1>a, <1>b, <1>c, FlagKept DEF FindDispatcher
<1>6. ASSUME NEW a \in Actors, FlagLoop(a) \/ EndExit(a) PROVE FlagSound'
      BY <1>6, <1>b, FlagKept DEF FlagLoop, EndExit
<1>7. ASSUME NEW a \in Actors, InterruptLoop(a) PROVE FlagSound'
      <2>1. pc \in Rounds /\ waker[a] # "write"
            BY <1>7, LoopAssumption
               DEF InterruptLoop, Base, Fields, ExitSound, Places, InLoop, FlagSound, Actors
      <2>2. QED BY <1>7, <1>a, <2>1, FlagKept DEF InterruptLoop, Rounds
<1>8. ASSUME NEW c \in Clients, Start(c) \/ StartWakes(c) PROVE FlagSound'
      <2>1. UNCHANGED <<thread, pc>> \/ Started
            BY <1>8 DEF Start, StartWakes
      <2>2. UNCHANGED <<waker, dispatcher>>
            BY <1>8 DEF Start, StartWakes
      <2>3. pc' = pc \/ (pc = "none" /\ pc' = "created")
            BY <2>1, StartedFields DEF Base, Fields, Places
      <2>4. QED BY <1>b, <2>2, <2>3, FlagKept
<1>9. ASSUME NEW c \in Clients, Wait(c) \/ WaitWakes(c) \/ InWait(c) PROVE FlagSound'
      BY <1>9, <1>b, FlagKept DEF Wait, WaitWakes, InWait
<1>10. CASE ThreadBegins \/ Exec \/ ExecReturns \/ Finish \/ Finished
      BY <1>10, <1>b, FlagKept DEF ThreadBegins, Exec, ExecReturns, Finish, Finished
<1>11. CASE CreateDispatcher \/ DeleteDispatcher
      <2>1. dispatcher'.wakeUps = 0 /\ ~dispatcher'.pipe /\ waker' = waker /\ pc' # "rearm"
            BY <1>11 DEF CreateDispatcher, DeleteDispatcher, NewDispatcher
      <2>2. \A a \in Actors : waker[a] \notin {"testAndSet", "write"}
            BY <1>11, <1>b DEF CreateDispatcher, DeleteDispatcher, Actors
      <2>3. QED BY <2>1, <2>2 DEF FlagSound
<1>12. CASE ResetDispatcher
      BY <1>12, <1>a, FlagKept DEF ResetDispatcher
<1>13. CASE EnterLoop \/ RefuseLoop \/ TestExit \/ LeaveLoop
      BY <1>13, FlagKept DEF EnterLoop, RefuseLoop, TestExit, LeaveLoop
<1>14. CASE ExitLoop
      BY <1>14, <1>a, FlagKept DEF ExitLoop
<1>15. CASE Sent
      BY <1>15, <1>a, FlagKept DEF Sent
<1>16. CASE ResetInterrupt \/ Send \/ Deliver \/ HandlerReturns \/ Decide
      BY <1>16, <1>a, FlagKept DEF ResetInterrupt, Send, Deliver, HandlerReturns, Decide
<1>17. CASE TestInterrupt \/ FindNothing
      BY <1>17, FlagKept DEF TestInterrupt, FindNothing
<1>18. CASE Drain
      <2>1. dispatcher'.wakeUps = dispatcher.wakeUps /\ ~dispatcher'.pipe
            /\ waker' = waker /\ pc' = "rearm" /\ dispatcher.pipe
            BY <1>18, <1>a DEF Drain
      <2>2. dispatcher.wakeUps = 1 /\ \A a \in Actors : waker[a] # "write"
            BY <2>1 DEF Base, FlagSound
      <2>3. QED BY <2>1, <2>2 DEF FlagSound
<1>19. CASE Rearm
      <2>1. dispatcher.wakeUps = 1 /\ ~dispatcher.pipe /\ \A a \in Actors : waker[a] # "write"
            BY <1>19, <1>a DEF Rearm, Base, FlagSound
      <2>2. dispatcher'.wakeUps = 0 /\ ~dispatcher'.pipe /\ waker' = waker /\ pc' = "test"
            BY <1>19, <1>a, <2>1 DEF Rearm
      <2>3. QED BY <2>1, <2>2 DEF FlagSound
<1>20. QED BY <1>1, <1>2, <1>3, <1>4, <1>5, <1>6, <1>7, <1>8, <1>9, <1>10, <1>11, <1>12, <1>13,
              <1>14, <1>15, <1>16, <1>17, <1>18, <1>19 DEF Next, InThread, Choices, Going

-----------------------------------------------------------------------------
(* The list of posted events *)

\* The steps that leave the list as it is
LEMMA EventsKept ==
  ASSUME Base, UNCHANGED events, pc' = "decide" => pc = "decide",
         pc' \in {"block", "asleep"} /\ events.pending > 0 => dispatcher'.pipe \/ Waking'
  PROVE  EventsSound'
BY Zenon DEF Base, EventsSound

\* Who is on its way in wakeUp() leaves a byte, or finds that another is.
LEMMA StaysWoken ==
  ASSUME Base, NEW a \in Actors, TestAndSet(a) \/ WritePipe(a) \/ FindDispatcher(a),
         pc \in Rounds \ {"rearm"}
  PROVE  dispatcher'.pipe \/ Waking'
<1>a. waker \in [Actors -> Wakers]
      /\ dispatcher \in [there : BOOLEAN, interrupt : BOOLEAN, wakeUps : {0, 1}, pipe : BOOLEAN]
      BY DEF Base, Fields
<1>1. CASE WritePipe(a)
      BY <1>1, <1>a DEF WritePipe
<1>2. CASE FindDispatcher(a)
      <2>1. waker'[a] = "testAndSet"
            BY <1>2, <1>a DEF FindDispatcher, Base, Places, Rounds
      <2>2. QED BY <2>1 DEF Waking, Actors
<1>3. CASE TestAndSet(a) /\ dispatcher.wakeUps = 0
      <2>1. waker'[a] = "write"
            BY <1>3, <1>a DEF TestAndSet
      <2>2. QED BY <2>1 DEF Waking, Actors
<1>4. CASE TestAndSet(a) /\ dispatcher.wakeUps # 0
      <2>1. waker' = [waker EXCEPT ![a] = "no"] /\ UNCHANGED dispatcher /\ waker[a] = "testAndSet"
            BY <1>4 DEF TestAndSet
      <2>2. dispatcher.pipe \/ \E b \in Actors : waker[b] = "write"
            BY <1>4, <1>a DEF Base, FlagSound
      <2>3. CASE dispatcher.pipe
            BY <2>1, <2>3
      <2>4. ASSUME NEW b \in Actors, waker[b] = "write" PROVE Waking'
            <3>1. waker'[b] = "write"
                  BY <1>a, <2>1, <2>4
            <3>2. QED BY <3>1 DEF Waking, Actors
      <2>5. QED BY <2>2, <2>3, <2>4
<1>5. QED BY <1>1, <1>2, <1>3, <1>4

\* Who posts an event sees to it that the thread wakes up.
LEMMA EventsInductive == Base /\ [Next]_vars => EventsSound'
<1> SUFFICES ASSUME Base, [Next]_vars PROVE EventsSound'
    OBVIOUS
<1> USE DEF At
<1>a. waker \in [Actors -> Wakers] /\ Loop \in Actors
      /\ dispatcher \in [there : BOOLEAN, interrupt : BOOLEAN, wakeUps : {0, 1}, pipe : BOOLEAN]
      BY DEF Base, Fields, Actors
<1>b. pc \in {"block", "asleep"} /\ events.pending > 0 => dispatcher.pipe \/ Waking
      BY DEF Base, EventsSound
<1>c. events \in [pending : Nat, toSend : Nat, canWait : BOOLEAN]
      /\ events.toSend <= events.pending
      /\ (events.canWait => events.pending = events.toSend)
      /\ (pc = "decide" => events.toSend = 0)
      BY DEF Base, Fields, EventsSound
<1>1. CASE UNCHANGED <<pc, events, dispatcher, waker>>
      BY <1>1, <1>b, EventsKept DEF Waking
<1>2. ASSUME NEW a \in Actors, TestAndSet(a) \/ WritePipe(a) \/ FindDispatcher(a)
      PROVE  EventsSound'
      <2>1. UNCHANGED <<pc, events>>
            BY <1>2 DEF TestAndSet, WritePipe, FindDispatcher
      <2>2. pc \in {"block", "asleep"} => dispatcher'.pipe \/ Waking'
            BY <1>2, StaysWoken DEF Rounds
      <2>3. QED BY <2>1, <2>2, EventsKept
<1>3. ASSUME NEW a \in Actors, PostEvent(a) PROVE EventsSound'
      <2>1. waker'[a] # "no" /\ UNCHANGED pc
            BY <1>3, <1>a DEF PostEvent
      <2>2. Waking'
            BY <2>1 DEF Waking, Actors
      <2>3. events'.pending = events.pending + 1 /\ events'.toSend = events.toSend
            /\ ~events'.canWait
            BY <1>3, <1>c DEF PostEvent
      <2>4. QED BY <1>c, <2>1, <2>2, <2>3 DEF EventsSound
<1>4. ASSUME NEW a \in Actors, Exit(a) \/ FlagLoop(a) \/ EndExit(a) PROVE EventsSound'
      BY <1>1, <1>4 DEF Exit, FlagLoop, EndExit
<1>5. ASSUME NEW a \in Actors, InterruptLoop(a) PROVE EventsSound'
      <2>1. waker'[a] # "no" /\ UNCHANGED <<pc, events>>
            BY <1>5, <1>a DEF InterruptLoop
      <2>2. Waking'
            BY <2>1 DEF Waking, Actors
      <2>3. QED BY <2>1, <2>2, EventsKept
<1>6. ASSUME NEW c \in Clients, Start(c) \/ StartWakes(c) PROVE EventsSound'
      <2>1. UNCHANGED <<thread, pc>> \/ Started
            BY <1>6 DEF Start, StartWakes
      <2>2. UNCHANGED <<waker, dispatcher, events>>
            BY <1>6 DEF Start, StartWakes
      <2>3. pc' = pc \/ pc' = "created"
            BY <2>1, StartedFields DEF Base
      <2>4. QED BY <1>b, <2>2, <2>3, EventsKept DEF Waking
<1>7. ASSUME NEW c \in Clients, Wait(c) \/ WaitWakes(c) \/ InWait(c) PROVE EventsSound'
      BY <1>1, <1>7 DEF Wait, WaitWakes, InWait
<1>8. CASE ThreadBegins \/ Exec \/ ExecReturns \/ Finish \/ Finished
      BY <1>8, EventsKept DEF ThreadBegins, Exec, ExecReturns, Finish, Finished
<1>9. CASE CreateDispatcher \/ ResetDispatcher \/ DeleteDispatcher
      BY <1>9, EventsKept DEF CreateDispatcher, ResetDispatcher, DeleteDispatcher
<1>10. CASE EnterLoop \/ RefuseLoop \/ TestExit \/ LeaveLoop \/ ExitLoop
      BY <1>10, EventsKept DEF EnterLoop, RefuseLoop, TestExit, LeaveLoop, ExitLoop
<1>11. CASE ResetInterrupt \/ HandlerReturns \/ Drain \/ FindNothing \/ Rearm
      BY <1>11, EventsKept DEF ResetInterrupt, HandlerReturns, Drain, FindNothing, Rearm
<1>12. CASE Send
      <2>1. /\ events'.pending = events.pending /\ events'.toSend = events.pending
            /\ pc' \in {"decide", "deliver"} /\ (pc' = "decide" => events.pending = 0)
            BY <1>12, <1>c DEF Send
      <2>2. QED BY <1>c, <2>1 DEF EventsSound
<1>13. CASE Deliver
      <2>1. /\ events'.pending = events.pending - 1 /\ events'.toSend = events.toSend - 1
            /\ events'.canWait = events.canWait /\ pc' = "handler"
            BY <1>13, <1>c DEF Deliver
      <2>2. QED BY <1>c, <2>1 DEF EventsSound
<1>14. CASE Sent
      BY <1>14, <1>c DEF Sent, EventsSound
<1>15. CASE Decide
      BY <1>15, <1>c DEF Decide, EventsSound
<1>16. CASE TestInterrupt
      <2>1. UNCHANGED <<events, dispatcher, waker>> /\ pc' # "decide" /\ pc' # "block"
            /\ (pc' = "asleep" => pc = "block")
            BY <1>16 DEF TestInterrupt
      <2>2. QED BY <1>b, <2>1, EventsKept DEF Waking
<1>17. CASE UNCHANGED vars
      BY <1>1, <1>17 DEF vars
<1>18. QED BY <1>2, <1>3, <1>4, <1>5, <1>6, <1>7, <1>8, <1>9, <1>10, <1>11,
              <1>12, <1>13, <1>14, <1>15, <1>16, <1>17 DEF Next, InThread, Choices, Going

-----------------------------------------------------------------------------
(* The loops inside each other *)

\* The steps that leave the loops, and what exit() does to them, as they are
LEMMA NestedKept ==
  ASSUME NestedSound, UNCHANGED <<stack, exiting>>,
         dispatcher'.interrupt = dispatcher.interrupt,
         pc' = "reset" => pc = "reset" \/ ~Innermost
  PROVE  NestedSound'
BY DEF NestedSound, Innermost, AtInnermost

\* exit() does not have a nested loop forget that it was told to exit.
LEMMA NestedInductive == Base /\ UnhurriedExit /\ Told /\ [Next]_vars => NestedSound'
<1> SUFFICES ASSUME Base, UnhurriedExit, Told, [Next]_vars PROVE NestedSound'
    OBVIOUS
<1> USE DEF At
<1>a. NestedSound /\ (pc = "leave" => Innermost)
      BY DEF Told, LeavingSound
<1>b. /\ dispatcher \in [there : BOOLEAN, interrupt : BOOLEAN, wakeUps : {0, 1}, pipe : BOOLEAN]
      /\ exiting \in [by : Actors \cup {NoOne}, loop : Nat, flagged : BOOLEAN]
      /\ stack \in Seq(BOOLEAN) /\ Len(stack) \in Nat
      /\ Len(stack) # 0 => pc \in Rounds
      BY DEF Base, Fields, Places, InLoop
<1>c. exiting.flagged => exiting.by # NoOne /\ exiting.loop \in 1..Len(stack)
      BY DEF Base, ExitSound
<1>1. CASE UNCHANGED vars
      BY <1>1, <1>a, NestedKept DEF vars
<1>2. ASSUME NEW a \in Actors,
             PostEvent(a) \/ TestAndSet(a) \/ WritePipe(a) \/ FindDispatcher(a)
      PROVE  NestedSound'
      BY <1>2, <1>a, <1>b, NestedKept DEF PostEvent, TestAndSet, WritePipe, FindDispatcher
<1>3. ASSUME NEW a \in Actors, Exit(a) \/ EndExit(a) PROVE NestedSound'
      <2>1. ~exiting.flagged
            BY <1>3, <1>b, <1>c DEF Exit, EndExit, MutexFree
      <2>2. UNCHANGED <<pc, stack, dispatcher>>
            BY <1>3 DEF Exit, EndExit
      <2>3. QED BY <1>a, <2>1, <2>2 DEF NestedSound, Innermost, AtInnermost
<1>4. ASSUME NEW a \in Actors, FlagLoop(a) PROVE NestedSound'
      <2>1. /\ UNCHANGED <<pc, dispatcher>> /\ ~exiting.flagged
            /\ exiting'.flagged /\ exiting'.loop = exiting.loop
            BY <1>4, <1>b DEF FlagLoop
      <2>2. Len(stack') = Len(stack)
            /\ (Len(stack) > 1 /\ exiting.loop # Len(stack) => stack'[Len(stack)] = stack[Len(stack)])
            BY <1>4, <1>b, FlagLoopStack
      <2>3. QED BY <1>a, <2>1, <2>2 DEF NestedSound, Innermost, AtInnermost
<1>5. ASSUME NEW a \in Actors, InterruptLoop(a) PROVE NestedSound'
      <2>1. /\ UNCHANGED <<pc, stack>> /\ dispatcher'.interrupt
            /\ ~(pc = "reset" /\ Len(stack) > 1)
            BY <1>5, <1>b DEF InterruptLoop
      <2>2. QED BY <2>1 DEF NestedSound
<1>6. ASSUME NEW c \in Clients, Start(c) \/ StartWakes(c) PROVE NestedSound'
      <2>1. UNCHANGED <<thread, pc>> \/ Started
            BY <1>6 DEF Start, StartWakes
      <2>2. UNCHANGED <<stack, dispatcher, exiting>>
            BY <1>6 DEF Start, StartWakes
      <2>3. pc' = pc \/ pc' = "created"
            BY <2>1, StartedFields DEF Base
      <2>4. QED BY <1>a, <2>2, <2>3, NestedKept
<1>7. ASSUME NEW c \in Clients, Wait(c) \/ WaitWakes(c) \/ InWait(c) PROVE NestedSound'
      BY <1>7, <1>a, NestedKept DEF Wait, WaitWakes, InWait
<1>8. CASE ThreadBegins \/ Exec \/ ExecReturns \/ Finish \/ Finished
      BY <1>8, <1>a, NestedKept DEF ThreadBegins, Exec, ExecReturns, Finish, Finished
<1>9. CASE CreateDispatcher \/ ResetDispatcher \/ DeleteDispatcher
      BY <1>9, <1>b DEF CreateDispatcher, ResetDispatcher, DeleteDispatcher, NestedSound, Rounds
<1>10. CASE EnterLoop
      BY <1>10, EnterLoopStack DEF NestedSound, Innermost
<1>11. CASE LeaveLoop
      <2>1. /\ UNCHANGED <<dispatcher, exiting>> /\ ~exiting.flagged /\ pc = "leave"
            /\ pc' # "reset"
            BY <1>11, <1>c DEF LeaveLoop, MutexFree
      <2>2. Len(stack') = Len(stack) - 1
            BY <1>11, LeaveLoopStack
      <2>3. Len(stack') > 1 => dispatcher.interrupt
            BY <1>a, <1>b, <2>1, <2>2 DEF NestedSound, AtInnermost
      <2>4. QED BY <2>1, <2>3 DEF NestedSound
<1>12. CASE TestExit
      BY <1>12, <1>a, NestedKept DEF TestExit, Innermost
<1>13. CASE ResetInterrupt
      <2>1. pc = "reset" /\ pc' = "send" /\ UNCHANGED <<stack, exiting>>
            BY <1>13 DEF ResetInterrupt
      <2>2. QED BY <1>a, <2>1 DEF NestedSound, Innermost, AtInnermost
<1>14. CASE ExitLoop
      <2>1. pc' = "handler" /\ dispatcher'.interrupt
            BY <1>14, <1>b DEF ExitLoop
      <2>2. QED BY <2>1 DEF NestedSound
<1>15. CASE RefuseLoop \/ Send \/ Deliver \/ HandlerReturns \/ Sent \/ Decide
      BY <1>15, <1>a, NestedKept DEF RefuseLoop, Send, Deliver, HandlerReturns, Sent, Decide
<1>16. CASE TestInterrupt \/ Drain \/ FindNothing \/ Rearm
      BY <1>16, <1>a, <1>b, NestedKept DEF TestInterrupt, Drain, FindNothing, Rearm
<1>17. QED BY <1>1, <1>2, <1>3, <1>4, <1>5, <1>6, <1>7, <1>8, <1>9, <1>10, <1>11, <1>12, <1>13,
              <1>14, <1>15, <1>16 DEF Next, InThread, Choices, Going

\* The steps that take nothing from a loop that was told to exit
LEMMA OutermostKept ==
  ASSUME OutermostSound, Fields, UNCHANGED <<stack, exiting>>, thread'.quitNow = thread.quitNow,
         dispatcher.interrupt => dispatcher'.interrupt,
         pc # "rearm" /\ (dispatcher.pipe \/ Waking) => dispatcher'.pipe \/ Waking',
         pc' \in {"rearm", "test", "leave", "look"} \/ pc \notin {"rearm", "test", "leave", "look"},
         pc' = "reset" => pc = "reset"
  PROVE  OutermostSound'
<1>1. CASE pc' \in {"rearm", "test", "leave", "look"}
      BY <1>1 DEF OutermostSound
<1>2. CASE pc' \notin {"rearm", "test", "leave", "look"}
      <2>1. WokenForExit => WokenForExit'
            BY <1>2 DEF WokenForExit, Fields
      <2>2. QED BY <1>2, <2>1 DEF OutermostSound, Innermost
<1>3. QED BY <1>1, <1>2

\* The outermost loop sees interrupt, or wakes up.
LEMMA OutermostInductive == Base /\ UnhurriedExit /\ Told /\ [Next]_vars => OutermostSound'
<1> SUFFICES ASSUME Base, UnhurriedExit, Told, [Next]_vars PROVE OutermostSound'
    OBVIOUS
<1> USE DEF At
<1>a. NestedSound /\ OutermostSound /\ (pc = "leave" => Innermost) /\ Fields
      BY DEF Told, LeavingSound, Base
<1>b. /\ dispatcher \in [there : BOOLEAN, interrupt : BOOLEAN, wakeUps : {0, 1}, pipe : BOOLEAN]
      /\ exiting \in [by : Actors \cup {NoOne}, loop : Nat, flagged : BOOLEAN]
      /\ stack \in Seq(BOOLEAN) /\ Len(stack) \in Nat
      /\ Len(stack) # 0 <=> pc \in Rounds
      /\ waker \in [Actors -> Wakers] /\ Loop \in Actors
      BY DEF Base, Fields, Places, InLoop, Actors
<1>c. exiting.flagged => exiting.by # NoOne /\ exiting.loop \in 1..Len(stack)
      BY DEF Base, ExitSound
<1>1. CASE UNCHANGED vars
      BY <1>1, <1>a, OutermostKept DEF vars, Waking
<1>2. ASSUME NEW a \in Actors, TestAndSet(a) \/ WritePipe(a) \/ FindDispatcher(a)
      PROVE  OutermostSound'
      <2>1. CASE pc \in Rounds \ {"rearm"}
            <3>1. dispatcher'.pipe \/ Waking'
                  BY <1>2, <2>1, StaysWoken
            <3>2. UNCHANGED <<thread, pc, stack, exiting>>
                  /\ dispatcher'.interrupt = dispatcher.interrupt
                  BY <1>2, <1>b DEF TestAndSet, WritePipe, FindDispatcher
            <3>3. QED BY <1>a, <3>1, <3>2, OutermostKept
      <2>2. CASE pc \notin Rounds \ {"rearm"}
            <3>1. UNCHANGED <<pc, stack>>
                  BY <1>2 DEF TestAndSet, WritePipe, FindDispatcher
            <3>2. Len(stack) = 0 \/ pc = "rearm"
                  BY <1>b, <2>2
            <3>3. QED BY <3>1, <3>2 DEF OutermostSound
      <2>3. QED BY <2>1, <2>2
<1>3. ASSUME NEW a \in Actors, PostEvent(a) PROVE OutermostSound'
      <2>1. Waking'
            BY <1>3, <1>b DEF PostEvent, Waking, Actors
      <2>2. QED BY <1>3, <1>a, <2>1, OutermostKept DEF PostEvent
<1>4. ASSUME NEW a \in Actors, Exit(a) PROVE OutermostSound'
      <2>1. ~exiting.flagged /\ UNCHANGED <<pc, stack, dispatcher, waker>> /\ thread'.quitNow
            BY <1>4, <1>a, <1>b, <1>c DEF Exit, MutexFree, Fields
      <2>2. WokenForExit => WokenForExit'
            BY <2>1 DEF WokenForExit, Waking
      <2>3. QED BY <1>a, <2>1, <2>2 DEF OutermostSound, Innermost
<1>5. ASSUME NEW a \in Actors, EndExit(a) PROVE OutermostSound'
      <2>1. ~exiting.flagged /\ UNCHANGED <<thread, pc, stack, dispatcher, waker>>
            BY <1>5, <1>b, <1>c DEF EndExit
      <2>2. WokenForExit' <=> WokenForExit
            BY <2>1 DEF WokenForExit, Waking
      <2>3. QED BY <1>a, <2>1, <2>2 DEF OutermostSound, Innermost
<1>6. ASSUME NEW a \in Actors, FlagLoop(a) PROVE OutermostSound'
      <2>1. exiting'.flagged
            BY <1>6, <1>b DEF FlagLoop
      <2>2. QED BY <2>1 DEF OutermostSound
<1>7. ASSUME NEW a \in Actors, InterruptLoop(a) PROVE OutermostSound'
      <2>1. waker'[a] # "no" /\ thread'.quitNow
            BY <1>7, <1>b, <1>c DEF InterruptLoop, Base, ExitSound
      <2>2. WokenForExit'
            BY <2>1 DEF WokenForExit, Waking, Actors
      <2>3. QED BY <2>2 DEF OutermostSound
<1>8. ASSUME NEW c \in Clients, Start(c) \/ StartWakes(c) PROVE OutermostSound'
      <2>1. UNCHANGED <<thread, pc>> \/ Started
            BY <1>8 DEF Start, StartWakes
      <2>2. UNCHANGED <<stack, dispatcher, exiting, waker>>
            BY <1>8 DEF Start, StartWakes
      <2>3. (thread' = thread /\ pc' = pc) \/ Len(stack) = 0
            BY <1>a, <1>b, <2>1, StartedFields DEF Base, Fields, Places, Rounds
      <2>4. CASE Len(stack) = 0
            BY <2>2, <2>4 DEF OutermostSound
      <2>5. QED BY <1>a, <2>2, <2>3, <2>4, OutermostKept DEF Waking
<1>9. ASSUME NEW c \in Clients, Wait(c) \/ WaitWakes(c) \/ InWait(c) PROVE OutermostSound'
      BY <1>9, <1>a, OutermostKept DEF Wait, WaitWakes, InWait, Waking
<1>10. CASE ThreadBegins \/ Exec \/ ExecReturns \/ Finish \/ Finished \/ RefuseLoop
      <2>1. UNCHANGED stack /\ Len(stack) = 0
            BY <1>10, <1>b
               DEF ThreadBegins, Exec, ExecReturns, Finish, Finished, RefuseLoop, Rounds
      <2>2. QED BY <2>1 DEF OutermostSound
<1>11. CASE CreateDispatcher \/ ResetDispatcher \/ DeleteDispatcher
      <2>1. UNCHANGED stack /\ Len(stack) = 0
            BY <1>11, <1>b DEF CreateDispatcher, ResetDispatcher, DeleteDispatcher, Rounds
      <2>2. QED BY <2>1 DEF OutermostSound
<1>12. CASE EnterLoop
      BY <1>12, EnterLoopStack DEF OutermostSound, Innermost
<1>13. CASE LeaveLoop
      <2>1. /\ UNCHANGED <<dispatcher, exiting>> /\ ~exiting.flagged /\ pc = "leave"
            /\ pc' # "reset"
            BY <1>13, <1>c DEF LeaveLoop, MutexFree
      <2>2. Len(stack') = Len(stack) - 1
            BY <1>13, LeaveLoopStack
      <2>3. Len(stack') = 1 => dispatcher.interrupt
            <3>1. Len(stack') = 1 => Len(stack) > 1
                  <4>1. \A m, n \in Nat : m = n - 1 /\ m = 1 => n > 1
                        OBVIOUS
                  <4>2. Len(stack') \in Nat /\ Len(stack) \in Nat
                        BY <1>13, LeaveLoopStack
                  <4>3. QED BY <2>2, <4>1, <4>2
            <3>2. Innermost /\ ~AtInnermost
                  BY <1>a, <2>1 DEF AtInnermost
            <3>3. QED BY <1>a, <3>1, <3>2 DEF NestedSound
      <2>4. QED BY <2>1, <2>3 DEF OutermostSound
<1>14. CASE TestExit
      BY <1>14 DEF TestExit, OutermostSound, Innermost
<1>15. CASE ResetInterrupt
      <2>1. pc = "reset" /\ pc' = "send" /\ UNCHANGED <<thread, stack, exiting, waker>>
            /\ dispatcher'.pipe = dispatcher.pipe
            BY <1>15, <1>b DEF ResetInterrupt
      <2>2. WokenForExit => WokenForExit'
            BY <2>1 DEF WokenForExit, Waking
      <2>3. QED BY <1>a, <2>1, <2>2 DEF OutermostSound, Innermost
<1>16. CASE ExitLoop
      <2>1. pc' = "handler" /\ dispatcher'.interrupt
            BY <1>16, <1>b DEF ExitLoop
      <2>2. QED BY <2>1 DEF OutermostSound
<1>17. CASE Sent
      <2>1. Waking => Waking'
            BY <1>17, <1>b DEF Sent, Waking
      <2>2. QED BY <1>17, <1>a, <2>1, OutermostKept DEF Sent
<1>18. CASE Send \/ Deliver \/ HandlerReturns \/ Decide
      BY <1>18, <1>a, OutermostKept DEF Send, Deliver, HandlerReturns, Decide, Waking
<1>19. CASE TestInterrupt
      BY <1>19, <1>a, OutermostKept DEF TestInterrupt, Waking
<1>20. CASE Drain \/ FindNothing \/ Rearm
      BY <1>20 DEF Drain, FindNothing, Rearm, OutermostSound
<1>21. QED BY <1>1, <1>2, <1>3, <1>4, <1>5, <1>6, <1>7, <1>8, <1>9, <1>10, <1>11, <1>12, <1>13,
              <1>14, <1>15, <1>16, <1>17, <1>18, <1>19, <1>20 DEF Next, InThread, Choices, Going

\* A loop that sleeps did not know of exit(), and learns of it.
LEMMA LeavingInductive == Base /\ UnhurriedExit /\ Told /\ [Next]_vars => LeavingSound'
<1> SUFFICES ASSUME Base, UnhurriedExit, Told, [Next]_vars PROVE LeavingSound'
    OBVIOUS
<1> USE DEF At
<1>a. /\ pc = "leave" => Innermost
      /\ pc = "asleep" /\ Innermost => dispatcher.pipe \/ Waking \/ exiting.flagged
      BY DEF Told, LeavingSound, WakeUpComing, Waking
<1>b. /\ dispatcher \in [there : BOOLEAN, interrupt : BOOLEAN, wakeUps : {0, 1}, pipe : BOOLEAN]
      /\ exiting \in [by : Actors \cup {NoOne}, loop : Nat, flagged : BOOLEAN]
      /\ stack \in Seq(BOOLEAN) /\ Len(stack) \in Nat
      /\ Len(stack) # 0 <=> pc \in Rounds
      /\ waker \in [Actors -> Wakers] /\ Loop \in Actors
      BY DEF Base, Fields, Places, InLoop, Actors
<1>c. exiting.flagged => exiting.by # NoOne /\ exiting.loop \in 1..Len(stack)
      BY DEF Base, ExitSound
<1>d. LeavingSound' <=>
        /\ pc' = "leave" => Innermost'
        /\ pc' = "asleep" /\ Innermost' => dispatcher'.pipe \/ Waking' \/ exiting'.flagged
      BY DEF LeavingSound, WakeUpComing, Waking, Actors
<1>1. CASE UNCHANGED <<pc, stack, dispatcher, waker>>
           /\ (exiting.flagged => exiting'.flagged)
      BY <1>1, <1>a, <1>d DEF Innermost, Waking
<1>2. ASSUME NEW a \in Actors, TestAndSet(a) \/ WritePipe(a) \/ FindDispatcher(a)
      PROVE  LeavingSound'
      <2>1. UNCHANGED <<pc, stack>>
            BY <1>2 DEF TestAndSet, WritePipe, FindDispatcher
      <2>2. pc = "asleep" => dispatcher'.pipe \/ Waking'
            BY <1>2, StaysWoken DEF Rounds
      <2>3. QED BY <1>a, <1>d, <2>1, <2>2 DEF Innermost
<1>3. ASSUME NEW a \in Actors, PostEvent(a) \/ InterruptLoop(a) PROVE LeavingSound'
      <2>1. UNCHANGED <<pc, stack>> /\ waker'[a] # "no"
            BY <1>3, <1>b DEF PostEvent, InterruptLoop
      <2>2. Waking'
            BY <2>1 DEF Waking, Actors
      <2>3. QED BY <1>a, <1>d, <2>1, <2>2 DEF Innermost
<1>4. ASSUME NEW a \in Actors, Exit(a) \/ EndExit(a) PROVE LeavingSound'
      <2>1. ~exiting.flagged /\ UNCHANGED <<pc, stack, dispatcher, waker>>
            BY <1>4, <1>b, <1>c DEF Exit, EndExit, MutexFree
      <2>2. QED BY <1>1, <2>1
<1>5. ASSUME NEW a \in Actors, FlagLoop(a) PROVE LeavingSound'
      <2>1. exiting'.flagged /\ UNCHANGED pc
            BY <1>5, <1>b DEF FlagLoop
      <2>2. Len(stack') = Len(stack) /\ (Len(stack) # 0 /\ Innermost => stack'[Len(stack)])
            BY <1>5, <1>b, FlagLoopStack DEF Innermost
      <2>3. QED BY <1>a, <1>b, <1>d, <2>1, <2>2 DEF Innermost, Rounds
<1>6. ASSUME NEW c \in Clients, Start(c) \/ StartWakes(c) PROVE LeavingSound'
      <2>1. UNCHANGED <<thread, pc>> \/ Started
            BY <1>6 DEF Start, StartWakes
      <2>2. UNCHANGED <<stack, dispatcher, exiting, waker>>
            BY <1>6 DEF Start, StartWakes
      <2>3. pc' = pc \/ pc' = "created"
            BY <2>1, StartedFields DEF Base
      <2>4. QED BY <1>1, <1>d, <2>2, <2>3
<1>7. ASSUME NEW c \in Clients, Wait(c) \/ WaitWakes(c) \/ InWait(c) PROVE LeavingSound'
      BY <1>1, <1>7 DEF Wait, WaitWakes, InWait
<1>8. CASE ThreadBegins \/ Exec \/ ExecReturns \/ Finish \/ Finished \/ RefuseLoop
      BY <1>8, <1>d DEF ThreadBegins, Exec, ExecReturns, Finish, Finished, RefuseLoop
<1>9. CASE CreateDispatcher \/ ResetDispatcher \/ DeleteDispatcher \/ EnterLoop \/ LeaveLoop
      BY <1>9, <1>d
         DEF CreateDispatcher, ResetDispatcher, DeleteDispatcher, EnterLoop, LeaveLoop
<1>10. CASE TestExit
      BY <1>10, <1>d DEF TestExit, Innermost
<1>11. CASE ResetInterrupt \/ Send \/ Deliver \/ HandlerReturns \/ ExitLoop \/ Sent \/ Decide
      BY <1>11, <1>d
         DEF ResetInterrupt, Send, Deliver, HandlerReturns, ExitLoop, Sent, Decide
<1>12. CASE TestInterrupt
      <2>1. CASE pc = "block" /\ ~dispatcher.interrupt
            <3>1. UNCHANGED <<stack, dispatcher, waker, exiting>> /\ pc' = "asleep"
                  BY <1>12, <2>1 DEF TestInterrupt
            <3>2. Len(stack) # 0
                  BY <1>b, <2>1 DEF Rounds
            <3>3. Innermost => exiting.flagged \/ dispatcher.pipe \/ Waking
                  <4>1. CASE Len(stack) > 1
                        BY <2>1, <4>1 DEF Told, NestedSound, AtInnermost
                  <4>2. CASE Len(stack) = 1
                        BY <2>1, <4>2 DEF Told, OutermostSound, WokenForExit
                  <4>3. \A n \in Nat : n = 0 \/ n = 1 \/ n > 1
                        OBVIOUS
                  <4>4. Len(stack) = 1 \/ Len(stack) > 1
                        BY <1>b, <3>2, <4>3
                  <4>5. QED BY <4>1, <4>2, <4>4
            <3>4. QED BY <1>d, <3>1, <3>3 DEF Innermost, Waking
      <2>2. CASE ~(pc = "block" /\ ~dispatcher.interrupt)
            BY <1>12, <1>d, <2>2 DEF TestInterrupt
      <2>3. QED BY <2>1, <2>2
<1>13. CASE Drain \/ FindNothing \/ Rearm
      BY <1>13, <1>d DEF Drain, FindNothing, Rearm
<1>14. CASE UNCHANGED vars
      BY <1>1, <1>14 DEF vars
<1>15. QED BY <1>2, <1>3, <1>4, <1>5, <1>6, <1>7, <1>8, <1>9, <1>10, <1>11, <1>12, <1>13, <1>14
              DEF Next, InThread, Choices, Going

-----------------------------------------------------------------------------
(* The theorems *)

\* No thread runs, and nobody has called anything.
LEMMA InitSound == Init => IInv
<1> SUFFICES ASSUME Init PROVE IInv
    OBVIOUS
<1>1. /\ thread = [running |-> FALSE, finished |-> FALSE, isInFinish |-> FALSE,
                   exited |-> FALSE, quitNow |-> FALSE]
      /\ pc = "none" /\ stack = <<>>
      /\ events = [pending |-> 0, toSend |-> 0, canWait |-> TRUE]
      /\ dispatcher = [there |-> FALSE, interrupt |-> FALSE, wakeUps |-> 0, pipe |-> FALSE]
      /\ waker = [a \in Actors |-> "no"]
      /\ exiting = [by |-> NoOne, loop |-> 0, flagged |-> FALSE]
      /\ call = [c \in Clients |-> "none"]
      BY DEF Init, NewDispatcher, NotExiting
<1>2. Fields
      <2>1. stack \in Seq(BOOLEAN)
            BY <1>1, EmptySeq
      <2>2. thread \in [{"running", "finished", "isInFinish", "exited", "quitNow"} -> BOOLEAN]
            <3>1. thread \in [running : BOOLEAN, finished : BOOLEAN, isInFinish : BOOLEAN,
                              exited : BOOLEAN, quitNow : BOOLEAN]
                  BY <1>1
            <3>2. \A r : r \in [running : BOOLEAN, finished : BOOLEAN, isInFinish : BOOLEAN,
                                exited : BOOLEAN, quitNow : BOOLEAN] =>
                         r \in [{"running", "finished", "isInFinish", "exited", "quitNow"} -> BOOLEAN]
                  BY Zenon
            <3>3. QED BY <3>1, <3>2
      <2>3. /\ events \in [pending : Nat, toSend : Nat, canWait : BOOLEAN]
            /\ dispatcher \in [there : BOOLEAN, interrupt : BOOLEAN, wakeUps : {0, 1},
                               pipe : BOOLEAN]
            BY <1>1
      <2>4. waker \in [Actors -> Wakers] /\ call \in [Clients -> {"none", "start", "wait"}]
            BY <1>1 DEF Wakers
      <2>5. exiting \in [by : Actors \cup {NoOne}, loop : Nat, flagged : BOOLEAN]
            BY <1>1
      <2>6. QED BY <1>1, <2>1, <2>2, <2>3, <2>4, <2>5 DEF Fields, Outer
<1>3. Places /\ ExitSound
      BY <1>1 DEF Places, ExitSound, InLoop, Rounds
<1>4. WaitsSound
      <2>1. waits = W!Start
            BY DEF Init
      <2>2. C!Shape(waits) /\ \A c \in Clients : waits.place[c] = "out"
            BY <2>1 DEF W!Start, C!Shape, C!Places, C!Unlocked, C!Done
      <2>3. C!Inside(waits, "thread_done") = {}
            BY <2>2 DEF C!Inside, C!Unlocked
      <2>4. C!Cardinality({}) = 0 /\ C!Cardinality(Clients) \in Nat
            BY ClientsFinite, C!FS_EmptySet, C!FS_CardinalityType
      <2>5. C!Counted(waits)
            BY <2>1, <2>3, <2>4 DEF W!Start, C!Counted
      <2>6. QED BY <1>1, <2>2, <2>5 DEF WaitsSound, C!Sound
<1>5. FlagSound /\ EventsSound
      BY <1>1 DEF FlagSound, EventsSound
<1>6. Told
      BY <1>1 DEF Told, NestedSound, OutermostSound, LeavingSound
<1>7. QED BY <1>2, <1>3, <1>4, <1>5, <1>6 DEF IInv, Base

\* The inductive invariant; what Told says of exit() takes UnhurriedExit.
THEOREM InvariantHolds == Spec => []IInv
<1>1. IInv /\ [Next]_vars => IInv'
      BY FieldsInductive, PlacesInductive, ExitInductive, WaitsInductive, FlagInductive,
         EventsInductive, NestedInductive, OutermostInductive, LeavingInductive
         DEF IInv, Base, Told
<1>2. QED BY <1>1, InitSound, PTL DEF Spec

\* The counters of thread_done stay within the number of clients.
LEMMA WaitsTyped == ASSUME C!Sound(waits) PROVE W!TypeOK
<1>1. \A S : C!Cardinality(S) = W!Cardinality(S)
      BY DEF C!Cardinality, W!Cardinality
<1>2. \A c \in {"thread_done"} :
        /\ waits.waiters[c] = C!Cardinality(C!Inside(waits, c))
        /\ C!Cardinality(C!Inside(waits, c)) \in 0..C!Cardinality(Clients)
        /\ waits.wakeups[c] \in 0..C!Cardinality(Clients)
      BY ClientsFinite, C!InsideFinite DEF C!Sound, C!Counted
<1>3. C!Shape(waits)
      BY DEF C!Sound
<1> DEFINE N == W!Cardinality(Clients)
<1>4. \A c \in {"thread_done"} : waits.waiters[c] \in 0..N /\ waits.wakeups[c] \in 0..N
      BY <1>1, <1>2
<1> HIDE DEF N
<1>5. waits.waiters \in [{"thread_done"} -> 0..N] /\ waits.wakeups \in [{"thread_done"} -> 0..N]
      BY <1>3, <1>4 DEF C!Shape
<1>6. waits \in [waiters : [{"thread_done"} -> 0..N], wakeups : [{"thread_done"} -> 0..N],
                 place : [Clients -> W!Places], on : [Clients -> {"thread_done"}],
                 timed : [Clients -> BOOLEAN]]
      BY <1>3, <1>5, SameWaits DEF C!Shape
<1>7. QED BY <1>6 DEF W!TypeOK, N

\* The variables have their types, a thread that does not run is nowhere, and one that
\* runs a loop has a dispatcher.
THEOREM TypeCorrect == Spec => []TypeOK
<1>1. IInv => TypeOK
      BY WaitsTyped
         DEF IInv, Base, Fields, Places, WaitsSound, EventsSound, TypeOK, InLoop, Outer, Rounds
<1>2. QED BY <1>1, InvariantHolds, PTL

\* No wake-up of the thread is lost: not that of an event, and if exit() leaves a nested
\* loop time to begin its round, not that of exit() either (wakeUp() and
\* processThreadWakeUp() of the dispatcher, QThread::exit()).
THEOREM NoWakeUpLost == ASSUME UnhurriedExit PROVE Spec => []WakeUpsKept
<1>1. IInv => WakeUpsKept
      BY DEF IInv, Base, Told, EventsSound, FlagSound, LeavingSound, WakeUpsKept, WakeUpComing,
             Waking, Innermost
<1>2. QED BY <1>1, InvariantHolds, PTL

\* However hurried exit() is, an event that is posted to a loop wakes it up.
EventsWake ==
  pc = "asleep" /\ events.pending > 0 => dispatcher.pipe \/ WakeUpComing

THEOREM NoEventSleeps == Spec => []EventsWake
<1>1. IInv => EventsWake
      BY DEF IInv, Base, EventsSound, EventsWake, WakeUpComing, Waking
<1>2. QED BY <1>1, InvariantHolds, PTL

\* A loop begins only when nobody has told the thread to exit (QEventLoop::exec() looks
\* at quitNow, which exit() sets together with exited).
THEOREM NoLoopBegins == Spec => NoLoopAfterExit
<1>1. IInv /\ [Next]_vars => [Len(stack') > Len(stack) => ~thread.exited]_vars
      <2> SUFFICES ASSUME IInv, Next, Len(stack') > Len(stack) PROVE ~thread.exited
          OBVIOUS
      <2>a. Len(stack) \in Nat /\ Base
            BY DEF IInv, Base, Fields
      <2>1. CASE UNCHANGED stack
            BY <2>a, <2>1
      <2>2. CASE EnterLoop
            BY <2>2 DEF EnterLoop, IInv, Base, ExitSound
      <2>3. CASE LeaveLoop
            BY <2>a, <2>3, LeaveLoopStack
      <2>4. CASE ExitLoop
            BY <2>a, <2>4, ExitLoopStack
      <2>5. ASSUME NEW a \in Actors, FlagLoop(a) PROVE FALSE
            BY <2>a, <2>5, FlagLoopStack
      <2>6. CASE \E a \in Actors : (PostEvent(a) \/ Exit(a) \/ Going(a)) /\ ~FlagLoop(a)
            BY <2>1, <2>6 DEF PostEvent, Exit, Going, TestAndSet, WritePipe, FindDispatcher,
                   InterruptLoop, EndExit
      <2>7. CASE \E c \in Clients :
                   Start(c) \/ StartWakes(c) \/ Wait(c) \/ WaitWakes(c) \/ InWait(c)
            BY <2>1, <2>7 DEF Start, StartWakes, Wait, WaitWakes, InWait
      <2>8. CASE (InThread \/ Choices) /\ ~EnterLoop /\ ~LeaveLoop /\ ~ExitLoop
            BY <2>1, <2>8 DEF InThread, Choices, ThreadBegins, CreateDispatcher, ExecReturns,
                   ResetDispatcher, DeleteDispatcher, Finished, RefuseLoop, TestExit,
                   ResetInterrupt, Send, Deliver, HandlerReturns, Sent, Decide, TestInterrupt,
                   Drain, FindNothing, Rearm, Exec, Finish
      <2>9. QED BY <2>2, <2>3, <2>4, <2>5, <2>6, <2>7, <2>8 DEF Next, InThread, Choices
<1>2. QED BY <1>1, InvariantHolds, PTL DEF Spec, NoLoopAfterExit
=============================================================================
