----------------------------- MODULE MailboxSpec -----------------------------
(***************************************************************************)
(* What posting events promises: an event waits for its receiver until it  *)
(* is delivered, once, in the thread the receiver lives in then, or until  *)
(* it is removed on request or with its receiver.  The order of delivery   *)
(* is left open.                                                           *)
(***************************************************************************)
EXTENDS Integers, Sequences, SequencesExt

CONSTANTS Threads, Objects, NoThread

VARIABLES
  posts,     \* all that was posted: receiver, type and priority of each event
  waiting,   \* the events, numbered as in posts, that wait for delivery,
  removed,   \* and those that were removed
  running,   \* the events whose handlers each thread is in, the outermost first
  home       \* the thread each object lives in

Ordinary(e) == posts[e].type = "ordinary"

Of(o) == {e \in waiting : posts[e].receiver = o}

Init ==
  /\ posts = <<>> /\ waiting = {} /\ removed = {}
  /\ running = [t \in Threads |-> <<>>]
  /\ home \in [Objects -> Threads]

Post ==
  /\ Len(posts') = Len(posts) + 1 /\ IsPrefix(posts, posts')
  /\ home[Last(posts').receiver] # NoThread
  /\ waiting' = waiting \cup {Len(posts')}
  /\ UNCHANGED <<removed, running, home>>

\* The handler begins inside the innermost running one, or after it.
Deliver(t, e) ==
  /\ e \in waiting /\ home[posts[e].receiver] = t
  /\ waiting' = waiting \ {e}
  /\ \E calls \in {running[t]} \cup {Front(r) : r \in {running[t]} \ {<<>>}} :
       running' = [running EXCEPT ![t] = Append(calls, e)]
  /\ UNCHANGED <<posts, removed, home>>

Return(t) ==
  /\ running[t] # <<>>
  /\ running' = [running EXCEPT ![t] = Front(@)]
  /\ UNCHANGED <<posts, waiting, removed, home>>

TakeBack(t, o, events) ==
  /\ home[o] = t
  /\ waiting' = waiting \ events
  /\ removed' = removed \cup events
  /\ UNCHANGED <<posts, running, home>>

\* The end of an object that was to be deleted later
Destroy(t) ==
  /\ running[t] # <<>>
  /\ LET o == posts[Last(running[t])].receiver
     IN  /\ waiting' = waiting \ Of(o)
         /\ removed' = removed \cup Of(o)
         /\ home' = [home EXCEPT ![o] = NoThread]
  /\ ~Ordinary(Last(running[t]))
  /\ UNCHANGED <<posts, running>>

Move(t, o, u) ==
  /\ home[o] = t
  /\ home' = [home EXCEPT ![o] = u]
  /\ UNCHANGED <<posts, waiting, removed, running>>

Next ==
  \/ Post
  \/ \E t \in Threads :
       \/ Return(t) \/ Destroy(t)
       \/ \E e \in waiting : Deliver(t, e)
       \/ \E o \in Objects :
            \/ TakeBack(t, o, Of(o))
            \/ TakeBack(t, o, {e \in Of(o) : Ordinary(e)})
            \/ TakeBack(t, o, {e \in Of(o) : ~Ordinary(e)})
            \/ \E u \in Threads : Move(t, o, u)

Spec == Init /\ [][Next]_<<posts, waiting, removed, running, home>>
=============================================================================
