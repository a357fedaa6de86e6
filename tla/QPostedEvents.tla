---------------------------- MODULE QPostedEvents ----------------------------
(***************************************************************************)
(* The events posted to the objects of each thread: postEvent(),           *)
(* sendPostedEvents() and removePostedEvents() of                          *)
(* corelib/kernel/qcoreapplication.cpp, QPostEventList of                  *)
(* corelib/thread/qthread_p.h, and moveToThread(), deleteLater() and the   *)
(* end of an object of corelib/kernel/qobject.cpp.                         *)
(*                                                                         *)
(* sendPostedEvents() is recursive: a handler it calls may call it again,  *)
(* run an event loop, post, remove or move away what the outer call still  *)
(* has before it.  stack[t] holds the calls thread t is in.  One step is   *)
(* what a thread does from locking the mutex of a list to unlocking it; in *)
(* sendPostedEvents() that is the way from one delivery to the next.       *)
(*                                                                         *)
(* Waking up the dispatcher is left to QEventLoop; here canWait is what    *)
(* the loop will go by.  Events are numbered in the order of posting.      *)
(***************************************************************************)
EXTENDS Integers, SequencesExt, FiniteSetsExt

CONSTANTS
  Threads,            \* the threads that objects live in;
  Programs,           \* those among them whose code and handlers do what is
                      \* described here, while others run their event loop,
  Posters,            \* and threads that only post
  Objects,
  Priorities,
  NoThread, NoObject, \* null pointers
  MaxPosts,           \* bound: how many events are posted to so many objects
  MaxSends,           \* bound: calls of sendPostedEvents() inside each other
  MaxLoops,           \* bound: event loops inside each other
  MaxLength,          \* bound: what a list may hold after moveToThread()
  Moving,             \* whether objects move to other threads
  Removing            \* whether removePostedEvents() is called

ASSUME EventsAssumption ==
  /\ IsFiniteSet(Threads) /\ IsFiniteSet(Objects) /\ Programs \subseteq Threads
  /\ Priorities \subseteq Int /\ 0 \in Priorities
  /\ NoThread \notin Threads /\ NoObject \notin Objects
  /\ MaxPosts \in [1..Cardinality(Objects) -> Nat] /\ MaxLength \in Nat
  /\ MaxSends \in [Threads -> Nat] /\ MaxLoops \in [Threads -> Nat]
  /\ {Moving, Removing} \subseteq BOOLEAN

VARIABLES
  data,          \* list, startOffset, insertionOffset, canWait of each QThreadData
  stack,         \* the calls each thread is in, the outermost first
  home,          \* threadData of each object; NoThread when it is destroyed
  postedEvents,  \* of each object
  poster,        \* what each poster is posting, and the QThreadData it goes by
  posts,         \* history: the events that were posted, in that order,
  removed        \* and the numbers of those that were removed

vars == <<data, stack, home, postedEvents, poster, posts, removed>>

NoEvent == 0

\* What is posted: ordinary events, and those of deleteLater().
Kinds == [type : {"ordinary"}, priority : Priorities]
           \cup [type : {"delete"}, priority : {0}]

Idle == [receiver |-> NoObject, data |-> NoThread]

\* cut is history: a global call inside this one has cut the list.
Call(call) == [call |-> call, receiver |-> NoObject, type |-> "any", next |-> 0,
               event |-> NoEvent, cut |-> FALSE]
SendCall(receiver, type, next) ==
  [Call("send") EXCEPT !.receiver = receiver, !.type = type, !.next = next]
HandlerCall(e) == [Call("handler") EXCEPT !.event = e]

Init ==
  /\ data = [t \in Threads |-> [list |-> <<>>, startOffset |-> 0,
                                insertionOffset |-> 0, canWait |-> TRUE]]
  /\ stack = [t \in Threads |-> IF t \in Programs THEN <<>> ELSE <<Call("loop")>>]
  /\ home \in [Objects -> Threads]
  /\ postedEvents = [o \in Objects |-> 0]
  /\ poster = [p \in Posters |-> Idle]
  /\ posts = <<>>
  /\ removed = {}

\* The elements of s at the positions in K
Selected(s, K) ==
  LET upTo[n \in 0..Len(s)] ==
        IF n = 0 THEN <<>> ELSE IF n \in K THEN Append(upTo[n - 1], s[n]) ELSE upTo[n - 1]
  IN  upTo[Len(s)]

\* How many of the calls are of these kinds
Depth(calls, kinds) == Cardinality({k \in DOMAIN calls : calls[k].call \in kinds})

recursion(t)     == Depth(stack[t], {"send"})
loopLevel(calls) == Depth(calls, {"handler", "loop", "polled"})

Top(t) == IF stack[t] = <<>> THEN Call("base") ELSE Last(stack[t])

\* The program's own code runs in thread t: outside of any loop, or in a handler.
InCode(t) ==
  /\ t \in Programs
  /\ \/ stack[t] = <<>>
     \/ Top(t).call = "handler" /\ posts[Top(t).event].type = "ordinary"

-----------------------------------------------------------------------------
(* QPostEventList *)

\* The event is taken out; of the entry only the priority still matters.
Emptied(pe) == [pe EXCEPT !.event = NoEvent, !.receiver = NoObject]

\* Broken: the new event goes before those of its priority.
addEvent_Before(list, insertionOffset, pe) ==
  LET later == {k \in (insertionOffset + 1)..Len(list) : list[k].priority <= pe.priority}
  IN  IF list = <<>> \/ Last(list).priority > pe.priority \/ insertionOffset >= Len(list)
      THEN Append(list, pe)
      ELSE InsertAt(list, Min(later), pe)

\* Broken: the place is looked for in the whole list.
addEvent_Anywhere(list, insertionOffset, pe) ==
  LET later == {k \in 1..Len(list) : list[k].priority < pe.priority}
  IN  IF later = {} THEN Append(list, pe) ELSE InsertAt(list, Min(later), pe)

\* From insertionOffset on the list is sorted (ListSound), so that
\* std::upper_bound() finds the first entry of a lower priority.
addEvent(list, insertionOffset, pe) ==
  LET later == {k \in (insertionOffset + 1)..Len(list) : list[k].priority < pe.priority}
  IN  IF list = <<>> \/ Last(list).priority >= pe.priority \/ insertionOffset >= Len(list)
      THEN Append(list, pe)
      ELSE InsertAt(list, Min(later), pe)

\* An event of type "delete" is dropped when one is in the list.
Compressed(t, o, type) ==
  type = "delete" /\ \E k \in DOMAIN data[t].list :
    LET pe == data[t].list[k]
    IN  pe.receiver = o /\ pe.event # NoEvent /\ posts[pe.event].type = "delete"

\* Bound
RoomToPost(o) ==
  LET busy == {p \in Posters : poster[p] # Idle}
      receivers == {o} \cup {posts[e].receiver : e \in DOMAIN posts}
                       \cup {poster[p].receiver : p \in busy}
  IN  Len(posts) + Cardinality(busy) < MaxPosts[Cardinality(receivers)]

\* The rest of postEvent(), in the QThreadData of t.  asker is history: the event whose
\* handler calls deleteLater().
Posted(t, o, kind, level, asker) ==
  IF Compressed(t, o, kind.type) THEN UNCHANGED <<data, postedEvents, posts>>
  ELSE /\ posts' = Append(posts, [receiver |-> o, type |-> kind.type,
            priority |-> kind.priority, level |-> level, asker |-> asker])
       /\ data' = [data EXCEPT
            ![t].list = addEvent(@, data[t].insertionOffset,
              [receiver |-> o, event |-> Len(posts) + 1, priority |-> kind.priority]),
            ![t].canWait = FALSE]
       /\ postedEvents' = [postedEvents EXCEPT ![o] = @ + 1]

\* postEvent() by the thread of the receiver, which no other thread moves away
PostHere(t, o, kind) ==
  /\ RoomToPost(o) /\ InCode(t) /\ home[o] = t
  /\ IF kind.type = "delete"
     THEN Posted(t, o, kind, loopLevel(stack[t]), Top(t).event)
     ELSE Posted(t, o, kind, 0, NoEvent)
  /\ UNCHANGED <<stack, home, poster, removed>>

\* postEvent() by another thread: it reads threadData, ...
ReadThreadData(p, o) ==
  /\ RoomToPost(o) /\ poster[p] = Idle /\ home[o] # NoThread
  /\ poster' = [poster EXCEPT ![p] = [receiver |-> o, data |-> home[o]]]
  /\ UNCHANGED <<data, stack, home, postedEvents, posts, removed>>

\* ... locks that list, reads threadData again and follows a receiver that has
\* moved, ...
Follow(p) ==
  /\ poster[p] # Idle
  /\ home[poster[p].receiver] # poster[p].data
  /\ poster' = [poster EXCEPT ![p].data = home[poster[p].receiver]]
  /\ UNCHANGED <<data, stack, home, postedEvents, posts, removed>>

\* Broken: the receiver may have moved.
PostThere_Stale(p, kind) ==
  /\ poster[p] # Idle
  /\ Posted(poster[p].data, poster[p].receiver, kind, 0, NoEvent)
  /\ poster' = [poster EXCEPT ![p] = Idle]
  /\ UNCHANGED <<stack, home, removed>>

\* ... and posts.
PostThere(p, kind) ==
  /\ poster[p] # Idle
  /\ home[poster[p].receiver] = poster[p].data
  /\ Posted(poster[p].data, poster[p].receiver, kind, 0, NoEvent)
  /\ poster' = [poster EXCEPT ![p] = Idle]
  /\ UNCHANGED <<stack, home, removed>>

-----------------------------------------------------------------------------
(* sendPostedEvents(): d is the QThreadData of thread t, send the call.   *)

IsGlobal(send) == send.receiver = NoObject /\ send.type = "any"

\* The index i: a global call counts in startOffset itself, others in a copy.
Index(d, send) == IF IsGlobal(send) THEN d.startOffset ELSE send.next

Goes(d, send) == Index(d, send) < Len(d.list) /\ Index(d, send) < d.insertionOffset

Current(d, send) == d.list[Index(d, send) + 1]

Asked(d, send) ==
  LET pe == Current(d, send)
  IN  /\ send.receiver \in {NoObject, pe.receiver}
      /\ send.type \in {"any", posts[pe.event].type}

\* Broken: a loop that is as deep as the one that was left will do.
AllowDelete_SameLevel(calls, send, level) ==
  \/ level >= loopLevel(calls)
  \/ level = 0 /\ loopLevel(calls) > 0

\* Whether a deletion that was asked for at that level may be done now; calls are the
\* calls below sendPostedEvents().
AllowDelete(calls, send, level) ==
  \/ level > loopLevel(calls)
  \/ level = 0 /\ loopLevel(calls) > 0
  \/ send.type = "delete" /\ level = loopLevel(calls)

Deliverable(calls, d, send) ==
  LET e == Current(d, send).event
  IN  /\ e # NoEvent /\ Asked(d, send)
      /\ posts[e].type = "delete" => AllowDelete(calls, send, posts[e].level)

\* What becomes of an entry that is not delivered: an empty one is passed over, one
\* that is not asked for is left for another call, and a deletion that has to wait
\* is posted again by a global call.
PassedOver(d, send) ==
  LET pe == Current(d, send)
  IN  IF pe.event = NoEvent THEN d
      ELSE IF ~Asked(d, send) THEN [d EXCEPT !.canWait = FALSE]
      ELSE IF ~IsGlobal(send) THEN d
      ELSE [d EXCEPT !.list = addEvent([d.list EXCEPT ![Index(d, send) + 1] = Emptied(pe)],
                                       d.insertionOffset, pe)]

\* ++i
CountedData(d, send) == IF IsGlobal(send) THEN [d EXCEPT !.startOffset = @ + 1] ELSE d
CountedCall(send)    == IF IsGlobal(send) THEN send ELSE [send EXCEPT !.next = @ + 1]

\* The rounds of the loop up to a delivery or to the end
Walked(calls, d, send) ==
  LET walk[n \in 0..Len(d.list)] ==
        IF n = 0 THEN <<d, send>>
        ELSE LET w == walk[n - 1]
             IN  IF ~Goes(w[1], w[2]) \/ Deliverable(calls, w[1], w[2]) THEN w
                 ELSE <<CountedData(PassedOver(w[1], w[2]), w[2]), CountedCall(w[2])>>
  IN  walk[Len(d.list)]

Delivering(d, send) ==
  CountedData([d EXCEPT !.list[Index(d, send) + 1] = Emptied(@)], send)

\* Broken: what was delivered is removed, and still counted.
CleanedUp_KeepsStart(d, send) ==
  IF IsGlobal(send)
  THEN [d EXCEPT !.list = SubSeq(@, d.startOffset + 1, Len(@)),
                 !.insertionOffset = @ - d.startOffset]
  ELSE d

\* CleanUp: a global call removes what it has been through.
CleanedUp(d, send) ==
  IF IsGlobal(send)
  THEN [d EXCEPT !.list = SubSeq(@, d.startOffset + 1, Len(@)),
                 !.insertionOffset = @ - d.startOffset, !.startOffset = 0]
  ELSE d

\* The history the calls below are left with
AfterCall(calls, send) ==
  [k \in DOMAIN calls |->
     [calls[k] EXCEPT !.cut = @ \/ (IsGlobal(send) /\ calls[k].call = "send")]]

\* The call goes on, from the locking of the mutex, in QThreadData d and below the
\* given calls: to the next event, whose handler begins, or to its end.
GoOn(t, d, calls, send) ==
  LET w == Walked(calls, d, send)
      e == Current(w[1], w[2]).event
  IN  IF Goes(w[1], w[2])
      THEN /\ data' = [data EXCEPT ![t] = Delivering(w[1], w[2])]
           /\ stack' = [stack EXCEPT ![t] = calls \o <<CountedCall(w[2]), HandlerCall(e)>>]
           /\ postedEvents' = [postedEvents EXCEPT ![posts[e].receiver] = @ - 1]
      ELSE /\ data' = [data EXCEPT ![t] = CleanedUp(w[1], w[2])]
           /\ stack' = [stack EXCEPT ![t] = AfterCall(calls, send)]
           /\ UNCHANGED postedEvents

\* A loop is "polled" once it has sent what was posted and may go by canWait.
Polled(calls) ==
  IF calls # <<>> /\ Last(calls).call = "loop"
  THEN [calls EXCEPT ![Len(calls)].call = "polled"] ELSE calls

\* Broken: insertionOffset stays where an earlier call left it.
Entered_KeepsOffset(d) == [d EXCEPT !.canWait = TRUE]

\* What a call does before its first round
Entered(d) == [d EXCEPT !.canWait = TRUE, !.insertionOffset = Len(d.list)]

\* Called by the program, or by the dispatcher of a loop
sendPostedEvents(t, receiver, type) ==
  /\ \/ InCode(t) /\ (receiver # NoObject => home[receiver] = t)
     \/ Top(t).call \in {"loop", "polled"} /\ receiver = NoObject /\ type = "any"
  /\ IF data[t].list = <<>> \/ (receiver # NoObject /\ postedEvents[receiver] = 0)
     THEN /\ data' = [data EXCEPT ![t].canWait = (data[t].list = <<>>)]
          /\ stack' = [stack EXCEPT ![t] = Polled(@)]
          /\ UNCHANGED postedEvents
     ELSE /\ recursion(t) < MaxSends[t]
          /\ GoOn(t, Entered(data[t]), Polled(stack[t]),
                  SendCall(receiver, type, data[t].startOffset))
  /\ UNCHANGED <<home, poster, posts, removed>>

\* The handler returns into sendPostedEvents(): an ordinary one at any time, that of
\* a deletion when the object is gone.
Return(t) ==
  /\ Top(t).call = "handler"
  /\ LET p == posts[Top(t).event]
     IN  p.type = "ordinary" \/ home[p.receiver] = NoThread
  /\ LET below == Len(stack[t]) - 2
     IN  GoOn(t, data[t], SubSeq(stack[t], 1, below), stack[t][below + 1])
  /\ UNCHANGED <<home, poster, posts, removed>>

-----------------------------------------------------------------------------
(* removePostedEvents(), the end of an object, moveToThread(), event loops *)

Taken(pe, o, type) ==
  pe.receiver = o /\ pe.event # NoEvent /\ type \in {"any", posts[pe.event].type}

\* The entries of o of that type are emptied, and taken out of the list if no
\* sendPostedEvents() walks through it.
TakenOut(list, o, type, sending) ==
  LET gone == {k \in DOMAIN list : Taken(list[k], o, type)}
  IN  IF sending
      THEN [k \in DOMAIN list |-> IF k \in gone THEN Emptied(list[k]) ELSE list[k]]
      ELSE Selected(list, DOMAIN list \ gone)

Removed(t, o, type) ==
  LET list == data[t].list
      gone == {k \in DOMAIN list : Taken(list[k], o, type)}
  IN  /\ data' = [data EXCEPT ![t].list = TakenOut(@, o, type, recursion(t) > 0)]
      /\ postedEvents' = [postedEvents EXCEPT ![o] = @ - Cardinality(gone)]
      /\ removed' = removed \cup {list[k].event : k \in gone}

removePostedEvents(t, o, type) ==
  /\ Removing /\ InCode(t) /\ home[o] = t /\ postedEvents[o] # 0
  /\ Removed(t, o, type)
  /\ UNCHANGED <<stack, home, poster, posts>>

\* The handler of a deferred delete: ~QObject().  Environment: who posts to an
\* object keeps it alive meanwhile.
Destroy(t) ==
  /\ Top(t).call = "handler" /\ posts[Top(t).event].type = "delete"
  /\ LET o == posts[Top(t).event].receiver
     IN  /\ home[o] = t
         /\ \A p \in Posters : poster[p].receiver # o
         /\ Removed(t, o, "any")
         /\ home' = [home EXCEPT ![o] = NoThread]
  /\ UNCHANGED <<stack, poster, posts>>

\* The list of target, with what is in the list for o added in turn
Moved(list, target, insertionOffset, o) ==
  LET added[k \in 0..Len(list)] ==
        IF k = 0 THEN target
        ELSE IF Taken(list[k], o, "any") THEN addEvent(added[k - 1], insertionOffset, list[k])
        ELSE added[k - 1]
  IN  added[Len(list)]

moveToThread(t, o, u) ==
  /\ Moving /\ InCode(t) /\ home[o] = t /\ u # t
  /\ LET list == data[t].list
         moved == {k \in DOMAIN list : Taken(list[k], o, "any")}
     IN  /\ Len(data[u].list) + Cardinality(moved) <= MaxLength
         /\ data' = [data EXCEPT
           ![t].list = TakenOut(@, o, "any", TRUE),
           ![u].list = Moved(list, @, data[u].insertionOffset, o),
           ![u].canWait = @ /\ moved = {}]
  /\ home' = [home EXCEPT ![o] = u]
  /\ UNCHANGED <<stack, postedEvents, poster, posts, removed>>

\* QEventLoop::exec(), as far as the list can tell
EnterLoop(t) ==
  /\ InCode(t) /\ Depth(stack[t], {"loop", "polled"}) < MaxLoops[t]
  /\ stack' = [stack EXCEPT ![t] = Append(@, Call("loop"))]
  /\ UNCHANGED <<data, home, postedEvents, poster, posts, removed>>

LeaveLoop(t) ==
  /\ t \in Programs /\ Top(t).call \in {"loop", "polled"}
  /\ stack' = [stack EXCEPT ![t] = Front(@)]
  /\ UNCHANGED <<data, home, postedEvents, poster, posts, removed>>

-----------------------------------------------------------------------------
Sending(t) ==
  \/ \E receiver \in Objects : sendPostedEvents(t, receiver, "any")
  \/ \E type \in {"any", "delete"} : sendPostedEvents(t, NoObject, type)
  \/ Return(t)

Code(t) ==
  \/ \E o \in Objects :
       \/ \E kind \in Kinds : PostHere(t, o, kind)
       \/ \E type \in {"any", "ordinary"} : removePostedEvents(t, o, type)
       \/ \E u \in Threads : moveToThread(t, o, u)
  \/ Destroy(t) \/ EnterLoop(t) \/ LeaveLoop(t)

Posting(p) ==
  \/ \E o \in Objects : ReadThreadData(p, o)
  \/ Follow(p)
  \/ \E kind \in Kinds : PostThere(p, kind)

Next ==
  \/ \E t \in Threads : Sending(t) \/ Code(t)
  \/ \E p \in Posters : Posting(p)

Spec == Init /\ [][Next]_vars

-----------------------------------------------------------------------------
(* Properties *)

Entries == [receiver : Objects \cup {NoObject}, event : Nat, priority : Priorities]

\* Types, and the bounds of the offsets that the code asserts
\* (qcoreapplication.cpp:1294) or indexes with.
TypeOK ==
  /\ \A t \in Threads :
       /\ data[t].list \in Seq(Entries)
       /\ data[t].startOffset \in 0..Len(data[t].list)
       /\ data[t].insertionOffset \in Nat
       /\ data[t].canWait \in BOOLEAN
       /\ recursion(t) = 0 => data[t].startOffset = 0
  /\ home \in [Objects -> Threads \cup {NoThread}]
  /\ postedEvents \in [Objects -> 0..Len(posts)]
  /\ removed \subseteq DOMAIN posts

Present(t) == {k \in DOMAIN data[t].list : data[t].list[k].event # NoEvent}

\* The books agree: an event is in one entry, in the list of the thread its receiver
\* lives in, and postedEvents counts it (compressEvent(), removePostedEvents() and
\* sendPostedEvents() do nothing when it is 0).  "The list has to be kept sorted by
\* priority" (qthread_p.h:95): the part that addEvent() searches is.
ListSound ==
  /\ \A t \in Threads : \A k \in Present(t) :
       LET pe == data[t].list[k]
       IN  /\ home[pe.receiver] = t
           /\ \A u \in Threads : \A n \in Present(u) :
                data[u].list[n].event = pe.event => <<u, n>> = <<t, k>>
  /\ \A o \in Objects : postedEvents[o] = IF home[o] = NoThread THEN 0
       ELSE Cardinality({k \in Present(home[o]) : data[home[o]].list[k].receiver = o})
  /\ \A t \in Threads :
       LET list == data[t].list
       IN  \A k \in (data[t].insertionOffset + 1)..(Len(list) - 1) :
             list[k].priority >= list[k + 1].priority

\* The thread may sleep only when nothing is left to deliver: canWait is not TRUE
\* while an ordinary event is in the list, whoever posted it, moved it there, or
\* left it there because it was not what a call had been asked to send
\* (qcoreapplication.cpp:1249-1251).
NoEventLeftBehind ==
  \A t \in Threads :
    Top(t).call = "polled" /\ data[t].canWait =>
      \A k \in Present(t) : posts[data[t].list[k].event].type = "delete"

\* The step begins the handler of an event in thread t,
Begins(t) ==
  /\ stack'[t] # <<>> /\ Last(stack'[t]).call = "handler"
  /\ \A k \in DOMAIN stack[t] : stack[t][k].event # Last(stack'[t]).event

\* which is this one, and the call of sendPostedEvents() has this place in stack'[t].
Begun(t)  == Last(stack'[t]).event
Sender(t) == Len(stack'[t]) - 1

\* "For the object to be deleted, the control must return to the event loop from
\* which deleteLater() was called" (qobject.cpp:1923-1925): while the handler that
\* asked for it runs in the thread of the object, the object is not deleted, unless
\* deletions are what the program sends.
DeletedAfterReturn ==
  [][\A t \in Threads :
       Begins(t) /\ posts[Begun(t)].asker # NoEvent /\ stack'[t][Sender(t)].type = "any" =>
         \A k \in DOMAIN stack'[t] : stack'[t][k].event # posts[Begun(t)].asker]_vars

\* "Events with equal priority will be processed in the order posted"
\* (qcoreapplication.cpp:1100), which holds for a receiver if no global call inside
\* this one has cut the list.
Overtakes(e, f, t) ==
  /\ f < e /\ posts[f].receiver = posts[e].receiver
  /\ posts[f].priority = posts[e].priority
  /\ posts[f].type = "ordinary" /\ posts[e].type = "ordinary"
  /\ \E k \in Present(t) : data[t].list[k].event = f

InOrderPosted ==
  [][\A t \in Threads : Begins(t) /\ ~stack'[t][Sender(t)].cut =>
       \A f \in DOMAIN posts : ~Overtakes(Begun(t), f, t)]_vars

\* The same without that condition
AlwaysInOrder ==
  [][\A t \in Threads : Begins(t) =>
       \A f \in DOMAIN posts : ~Overtakes(Begun(t), f, t)]_vars

\* The events in the lists, and those whose handlers the threads are in
Pending == UNION {{data[t].list[k].event : k \in Present(t)} : t \in Threads}

Running(calls) == Selected([k \in DOMAIN calls |-> calls[k].event],
                           {k \in DOMAIN calls : calls[k].call = "handler"})
Handling == [t \in Threads |-> Running(stack[t])]

\* Each event is delivered once, in the thread of its receiver; none is lost, and
\* what is removed is what was asked for.
Mailbox == INSTANCE MailboxSpec WITH waiting <- Pending, running <- Handling

ImplementsMailbox == Mailbox!Spec

\* "Events are sorted in descending priority order" (qcoreapplication.cpp:1096).
ListInOrder ==
  \A t \in Threads : recursion(t) = 0 =>
    \A k, n \in Present(t) :
      k < n => data[t].list[k].priority >= data[t].list[n].priority

\* A deletion that may be done does not wait for a loop that may sleep ("The object
\* will be deleted when control returns to the event loop", qobject.cpp:1916).
NoDeleteLeftBehind ==
  \A t \in Threads :
    Top(t).call = "polled" /\ data[t].canWait =>
      \A k \in Present(t) : LET level == posts[data[t].list[k].event].level
                            IN  level <= loopLevel(stack[t]) /\ level # 0
=============================================================================
