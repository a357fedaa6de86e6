----------------------------- MODULE QFreeList ------------------------------
(***************************************************************************)
(* QFreeList, corelib/tools/qfreelist_p.h: the lock-free list of free ids  *)
(* from which timers and the generic QMutex take theirs.  The elements are *)
(* in blocks that are allocated when they are first needed; _next holds    *)
(* the index of the first free element and a serial number, which          *)
(* release() counts up and which wraps around.                             *)
(*                                                                         *)
(* Each access to _next, to a block pointer or to an element is one step.  *)
(***************************************************************************)
EXTENDS Integers, FiniteSets

CONSTANTS
  Threads,
  MaxIndex,     \* there are the ids below this one
  BlockOf,      \* the block of each id
  Serials,      \* how many serial numbers there are
  MaxHeld       \* bound: how many ids a thread takes before it releases one

Ids == 0..(MaxIndex - 1)

ASSUME FreeListAssumption ==
  /\ IsFiniteSet(Threads)
  /\ {MaxIndex, Serials, MaxHeld} \subseteq Nat \ {0}
  /\ DOMAIN BlockOf = Ids

VARIABLES
  next,       \* _next: index and serial
  allocated,  \* the blocks with a pointer in _v
  link,       \* next of each element
  call,       \* of each thread: where it is in next() or release(), what it has
              \* read from _next, and the element's next or the id to release
  held,       \* the ids that are out to each thread
  releases    \* history: by others while the thread works with what it has read

vars == <<next, allocated, link, call, held, releases>>

Start == [index |-> 0, serial |-> 0]

Init ==
  /\ next = Start
  /\ allocated = {}
  /\ link = [i \in Ids |-> i + 1]
  /\ call = [t \in Threads |-> [place |-> "out", read |-> Start, id |-> 0]]
  /\ held = [t \in Threads |-> {}]
  /\ releases = [t \in Threads |-> 0]

At(t, place) == call[t].place = place
Block(t)     == BlockOf[call[t].read.index]

Goes(t, place, read, id) ==
  call' = [call EXCEPT ![t] = [place |-> place, read |-> read, id |-> id]]

\* It has read _next and not compared it.
Reading(t) == call[t].place \notin {"out", "next", "release"}

-----------------------------------------------------------------------------
(* next() *)

\* id = _next.load(); callers do not need more ids than there are.
LoadNext(t) ==
  /\ At(t, "next") \/ (At(t, "out") /\ Cardinality(held[t]) < MaxHeld)
  /\ next.index < MaxIndex
  /\ Goes(t, "block", next, 0)
  /\ releases' = [releases EXCEPT ![t] = 0]
  /\ UNCHANGED <<next, allocated, link, held>>

FindBlock(t) ==
  /\ At(t, "block")
  /\ Goes(t, IF Block(t) \in allocated THEN "element" ELSE "allocate", call[t].read, 0)
  /\ UNCHANGED <<next, allocated, link, held, releases>>

\* Broken: the pointer is stored, whether there is one or not.
Allocate_Stores(t) ==
  /\ At(t, "allocate")
  /\ allocated' = allocated \cup {Block(t)}
  /\ link' = [i \in Ids |-> IF BlockOf[i] = Block(t) THEN i + 1 ELSE link[i]]
  /\ Goes(t, "element", call[t].read, 0)
  /\ UNCHANGED <<next, held, releases>>

\* The block is filled, and deleted if another thread has stored one.
Allocate(t) ==
  /\ At(t, "allocate")
  /\ allocated' = allocated \cup {Block(t)}
  /\ link' = IF Block(t) \in allocated THEN link
             ELSE [i \in Ids |-> IF BlockOf[i] = Block(t) THEN i + 1 ELSE link[i]]
  /\ Goes(t, "element", call[t].read, 0)
  /\ UNCHANGED <<next, held, releases>>

\* newid
ReadElement(t) ==
  /\ At(t, "element")
  /\ Goes(t, "take", call[t].read, link[call[t].read.index])
  /\ UNCHANGED <<next, allocated, link, held, releases>>

\* _next.testAndSetRelaxed(id, newid); the serial stays.
Take(t) ==
  /\ At(t, "take")
  /\ IF next = call[t].read
     THEN /\ next' = [next EXCEPT !.index = call[t].id]
          /\ held' = [held EXCEPT ![t] = @ \cup {call[t].read.index}]
          /\ Goes(t, "out", Start, 0)
     ELSE /\ Goes(t, "next", Start, 0)
          /\ UNCHANGED <<next, held>>
  /\ releases' = [releases EXCEPT ![t] = 0]
  /\ UNCHANGED <<allocated, link>>

-----------------------------------------------------------------------------
(* release() *)

Release(t, i) ==
  /\ At(t, "out") /\ i \in held[t]
  /\ Goes(t, "release", Start, i)
  /\ UNCHANGED <<next, allocated, link, held, releases>>

LoadForRelease(t) ==
  /\ At(t, "release")
  /\ Goes(t, "link", next, call[t].id)
  /\ releases' = [releases EXCEPT ![t] = 0]
  /\ UNCHANGED <<next, allocated, link, held>>

Link(t) ==
  /\ At(t, "link")
  /\ link' = [link EXCEPT ![call[t].id] = call[t].read.index]
  /\ Goes(t, "give", call[t].read, call[t].id)
  /\ UNCHANGED <<next, allocated, held, releases>>

\* Broken: the serial stays.
incrementserial_Not(read, id) == [index |-> id, serial |-> read.serial]

incrementserial(read, id) == [index |-> id, serial |-> (read.serial + 1) % Serials]

\* _next.testAndSetRelease(x, newid).  Assumption, which the serial numbers are there
\* for: no thread is overtaken by as many releases as there are serial numbers.
Give(t) ==
  /\ At(t, "give")
  /\ IF next = call[t].read
     THEN /\ \A u \in Threads \ {t} : releases[u] < Serials - 1
          /\ next' = incrementserial(call[t].read, call[t].id)
          /\ held' = [held EXCEPT ![t] = @ \ {call[t].id}]
          /\ Goes(t, "out", Start, 0)
          /\ releases' = [u \in Threads |->
               IF u = t \/ ~Reading(u) THEN 0 ELSE releases[u] + 1]
     ELSE /\ Goes(t, "release", Start, call[t].id)
          /\ releases' = [releases EXCEPT ![t] = 0]
          /\ UNCHANGED <<next, held>>
  /\ UNCHANGED <<allocated, link>>

Next ==
  \E t \in Threads :
    \/ LoadNext(t) \/ FindBlock(t) \/ Allocate(t) \/ ReadElement(t) \/ Take(t)
    \/ \E i \in Ids : Release(t, i)
    \/ LoadForRelease(t) \/ Link(t) \/ Give(t)

Spec == Init /\ [][Next]_vars

-----------------------------------------------------------------------------
(* Properties *)

Free == {i \in Ids : \A t \in Threads : i \notin held[t]}

\* The ids one comes through from _next to the end, each with its position
IsWay(way, n) ==
  /\ way[0] = next.index /\ way[n] = MaxIndex
  /\ \A k \in 0..(n - 1) : way[k] \in Free /\ link[way[k]] = way[k + 1]
  /\ \A j, k \in 0..n : way[j] = way[k] => j = k
  /\ \A i \in Free : \E k \in 0..(n - 1) : way[k] = i

\* The way from _next leads once through every id that is not out, and nowhere else.
\* Whoever is about to change _next with what it has read, and succeeds, keeps it so.
ListSound ==
  \E n \in 0..MaxIndex : \E way \in [0..n -> 0..MaxIndex] : IsWay(way, n)

\* An id is out to one thread at a time.
Pool == INSTANCE IdPoolSpec WITH out <- held

ImplementsIdPool == Pool!Spec
=============================================================================
