-------------------------- MODULE QFreeList_proofs --------------------------
(***************************************************************************)
(* For any set of threads, any ids in any blocks and any number of serial  *)
(* numbers: the list of free ids is whole, and an id is out to one thread  *)
(* at a time.                                                              *)
(***************************************************************************)
EXTENDS QFreeList, FiniteSetTheorems, TLAPS

Places == {"out", "next", "block", "allocate", "element", "take",
           "release", "link", "give"}

Heads == [index : 0..MaxIndex, serial : 0..(Serials - 1)]
Calls == [place : Places, read : Heads, id : 0..MaxIndex]

TypeOK ==
  /\ next \in Heads
  /\ allocated \subseteq {BlockOf[i] : i \in Ids}
  /\ link \in [Ids -> 0..MaxIndex]
  /\ call \in [Threads -> Calls]
  /\ held \in [Threads -> SUBSET Ids]
  /\ releases \in [Threads -> 0..(Serials - 1)]

\* Where next() is once it has found an id, and where it has found its block
Taking(t)    == call[t].place \in {"block", "allocate", "element", "take"}
InBlock(t)   == call[t].place \in {"element", "take"}
Releasing(t) == call[t].place \in {"release", "link", "give"}

\* An id is out to one thread at a time; what a thread releases is its own.
HeldApart ==
  /\ \A t, u \in Threads : t # u => held[t] \cap held[u] = {}
  /\ \A t \in Threads : Releasing(t) => call[t].id \in held[t]

\* Blocks that are not there have never been written: filling them changes nothing.
BlocksSound ==
  /\ \A i \in Ids : BlockOf[i] \notin allocated => link[i] = i + 1
  /\ \A t \in Threads : Taking(t) => call[t].read.index \in Ids
  /\ \A t \in Threads : InBlock(t) => Block(t) \in allocated
  /\ \A t \in Threads : \A i \in held[t] : BlockOf[i] \in allocated

\* The serial number a thread has read is as many releases behind as there were.
SerialsSound ==
  \A t \in Threads : Reading(t) =>
    next.serial = IF call[t].read.serial + releases[t] < Serials
                  THEN call[t].read.serial + releases[t]
                  ELSE call[t].read.serial + releases[t] - Serials

\* While nothing was released, the id a thread wants is first, with the successor
\* it has read, or somebody has taken it.
StillFirst(t) ==
  /\ next.index = call[t].read.index
  /\ At(t, "take") => call[t].id = link[call[t].read.index]

ReadSound ==
  \A t \in Threads : Taking(t) /\ releases[t] = 0 =>
    StillFirst(t) \/ call[t].read.index \notin Free

\* The id to be given back has its successor.
LinkSound ==
  \A t \in Threads : At(t, "give") => link[call[t].id] = call[t].read.index

IInv == /\ TypeOK /\ HeldApart /\ BlocksSound /\ SerialsSound /\ ReadSound
        /\ LinkSound /\ ListSound

-----------------------------------------------------------------------------
\* Counting on by one in incrementserial(): the last serial number is followed by 0.
LEMMA Wraps ==
  ASSUME NEW n \in Nat \ {0}, NEW x \in 0..(n - 1)
  PROVE  (x + 1) % n = IF x + 1 = n THEN 0 ELSE x + 1
<1>1. CASE x + 1 = n
      BY <1>1
<1>2. CASE x + 1 # n
      BY <1>2
<1>3. QED BY <1>1, <1>2

\* The two exchanges, when _next is what was read ...
LEMMA TakeSucceeds ==
  ASSUME NEW t, Take(t), next = call[t].read
  PROVE  /\ call[t].place = "take"
         /\ next' = [next EXCEPT !.index = call[t].id]
         /\ held' = [held EXCEPT ![t] = @ \cup {call[t].read.index}]
         /\ Goes(t, "out", Start, 0)
         /\ releases' = [releases EXCEPT ![t] = 0]
         /\ allocated' = allocated /\ link' = link
BY DEF Take, At

LEMMA GiveSucceeds ==
  ASSUME NEW t, Give(t), next = call[t].read
  PROVE  /\ call[t].place = "give"
         /\ \A u \in Threads \ {t} : releases[u] < Serials - 1
         /\ next' = incrementserial(call[t].read, call[t].id)
         /\ held' = [held EXCEPT ![t] = @ \ {call[t].id}]
         /\ Goes(t, "out", Start, 0)
         /\ releases' = [u \in Threads |-> IF u = t \/ ~Reading(u) THEN 0 ELSE releases[u] + 1]
         /\ allocated' = allocated /\ link' = link
BY DEF Give, At

\* ... and when it is not: the thread begins again.
LEMMA ExchangeFails ==
  ASSUME NEW t, next # call[t].read
  PROVE  /\ Take(t) => Goes(t, "next", Start, 0) /\ call[t].place = "take"
         /\ Give(t) => Goes(t, "release", Start, call[t].id) /\ call[t].place = "give"
         /\ Take(t) \/ Give(t) =>
              /\ releases' = [releases EXCEPT ![t] = 0]
              /\ UNCHANGED <<next, held, allocated, link>>
BY DEF Take, Give, At

\* The variables keep their types.
LEMMA TypeInductive ==
  TypeOK /\ (\A t \in Threads : Taking(t) => call[t].read.index \in Ids) /\ [Next]_vars
  => TypeOK'
<1> SUFFICES ASSUME TypeOK, [Next]_vars,
                    \A t \in Threads : Taking(t) => call[t].read.index \in Ids
             PROVE  TypeOK'
    OBVIOUS
<1>a. \A h \in Heads : h.index \in 0..MaxIndex /\ h.serial \in 0..(Serials - 1)
      BY DEF Heads
<1>b. \A c \in Calls : c.place \in Places /\ c.read \in Heads /\ c.id \in 0..MaxIndex
      BY DEF Calls
<1>c. \A p \in Places, h \in Heads, i \in 0..MaxIndex :
        [place |-> p, read |-> h, id |-> i] \in Calls
      BY DEF Calls
<1>d. Start \in Heads /\ MaxIndex \in Nat \ {0} /\ Serials \in Nat \ {0}
      BY FreeListAssumption DEF Start, Heads
<1> USE <1>a, <1>b, <1>c, <1>d DEF TypeOK, Places, At, Goes, Block, Ids, Taking
<1>1. CASE UNCHANGED vars
      BY <1>1 DEF vars
<1>2. ASSUME NEW t \in Threads, LoadNext(t) PROVE TypeOK'
      BY <1>2 DEF LoadNext
<1>3. ASSUME NEW t \in Threads, FindBlock(t) PROVE TypeOK'
      BY <1>3 DEF FindBlock
<1>4. ASSUME NEW t \in Threads, Allocate(t) PROVE TypeOK'
      <2>1. Block(t) \in {BlockOf[i] : i \in Ids}
            BY <1>4 DEF Allocate
      <2>2. link' \in [Ids -> 0..MaxIndex]
            BY <1>4 DEF Allocate
      <2>3. QED BY <1>4, <2>1, <2>2, SMTT(20) DEF Allocate
<1>5. ASSUME NEW t \in Threads, ReadElement(t) PROVE TypeOK'
      BY <1>5 DEF ReadElement
<1>6. ASSUME NEW t \in Threads, Take(t) PROVE TypeOK'
      <2>1. CASE next = call[t].read
            <3>1. [next EXCEPT !.index = call[t].id] \in Heads
                  BY DEF Heads
            <3>2. /\ call[t].place = "take"
                  /\ next' = [next EXCEPT !.index = call[t].id]
                  /\ held' = [held EXCEPT ![t] = @ \cup {call[t].read.index}]
                  /\ Goes(t, "out", Start, 0)
                  /\ releases' = [releases EXCEPT ![t] = 0]
                  /\ allocated' = allocated /\ link' = link
                  BY <1>6, <2>1, TakeSucceeds
            <3>3. QED BY <3>1, <3>2
      <2>2. CASE next # call[t].read
            <3>1. /\ Goes(t, "next", Start, 0)
                  /\ releases' = [releases EXCEPT ![t] = 0]
                  /\ UNCHANGED <<next, held, allocated, link>>
                  BY <1>6, <2>2, ExchangeFails
            <3>2. QED BY <3>1
      <2>3. QED BY <2>1, <2>2
<1>7. ASSUME NEW t \in Threads, NEW i \in Ids, Release(t, i) PROVE TypeOK'
      BY <1>7 DEF Release
<1>8. ASSUME NEW t \in Threads, LoadForRelease(t) PROVE TypeOK'
      BY <1>8 DEF LoadForRelease
<1>9. ASSUME NEW t \in Threads, Link(t) PROVE TypeOK'
      BY <1>9 DEF Link
<1>10. ASSUME NEW t \in Threads, Give(t) PROVE TypeOK'
      <2>1. CASE next = call[t].read
            <3>1. incrementserial(call[t].read, call[t].id) \in Heads
                  BY Wraps, SMTT(20) DEF incrementserial, Heads
            <3>2. releases' \in [Threads -> 0..(Serials - 1)]
                  BY <1>10, <2>1, GiveSucceeds
            <3>3. /\ next' = incrementserial(call[t].read, call[t].id)
                  /\ held' = [held EXCEPT ![t] = @ \ {call[t].id}]
                  /\ Goes(t, "out", Start, 0)
                  /\ allocated' = allocated /\ link' = link
                  BY <1>10, <2>1, GiveSucceeds
            <3>4. next' \in Heads /\ held' \in [Threads -> SUBSET Ids]
                  BY <3>1, <3>3
            <3>5. call' \in [Threads -> Calls]
                  BY <3>3
            <3>6. QED BY <3>2, <3>3, <3>4, <3>5
      <2>2. CASE next # call[t].read
            <3>1. /\ Goes(t, "release", Start, call[t].id)
                  /\ releases' = [releases EXCEPT ![t] = 0]
                  /\ UNCHANGED <<next, held, allocated, link>>
                  BY <1>10, <2>2, ExchangeFails
            <3>2. QED BY <3>1
      <2>3. QED BY <2>1, <2>2
<1>11. QED BY <1>1, <1>2, <1>3, <1>4, <1>5, <1>6, <1>7, <1>8, <1>9, <1>10 DEF Next

-----------------------------------------------------------------------------
\* The way from _next begins at its index.
LEMMA FirstIsFree ==
  ASSUME TypeOK, ListSound
  PROVE  next.index \in Ids => next.index \in Free
<1>1. PICK n \in 0..MaxIndex : \E way \in [0..n -> 0..MaxIndex] : IsWay(way, n)
      BY DEF ListSound
<1>2. PICK way \in [0..n -> 0..MaxIndex] : IsWay(way, n)
      BY <1>1
<1>3. CASE n = 0
      BY <1>2, <1>3, FreeListAssumption DEF IsWay, Ids
<1>4. CASE n # 0
      <2>1. 0 \in 0..(n - 1)
            BY <1>4
      <2>2. QED BY <1>2, <2>1 DEF IsWay
<1>5. QED BY <1>3, <1>4

\* Filling a block that is not there changes no successor.
LEMMA FillsNothing ==
  ASSUME TypeOK, BlocksSound, NEW t \in Threads, Allocate(t)
  PROVE  link' = link
<1>1. CASE Block(t) \in allocated
      BY <1>1 DEF Allocate
<1>2. CASE Block(t) \notin allocated
      <2>1. \A i \in Ids : BlockOf[i] = Block(t) => link[i] = i + 1
            BY <1>2 DEF BlocksSound
      <2>2. link' = [i \in Ids |-> IF BlockOf[i] = Block(t) THEN i + 1 ELSE link[i]]
            BY <1>2 DEF Allocate
      <2>3. QED BY <2>1, <2>2 DEF TypeOK
<1>3. QED BY <1>1, <1>2

\* What is taken was free, and only its holder gives an id back.
LEMMA ApartInductive == IInv /\ [Next]_vars => HeldApart'
<1> SUFFICES ASSUME IInv, [Next]_vars PROVE HeldApart'
    OBVIOUS
<1> USE DEF IInv, TypeOK, HeldApart, Releasing, At, Goes
<1>1. CASE UNCHANGED vars
      BY <1>1 DEF vars
<1>2. ASSUME NEW t \in Threads, LoadNext(t) PROVE HeldApart'
      BY <1>2 DEF LoadNext
<1>3. ASSUME NEW t \in Threads, FindBlock(t) PROVE HeldApart'
      BY <1>3 DEF FindBlock
<1>4. ASSUME NEW t \in Threads, Allocate(t) PROVE HeldApart'
      BY <1>4 DEF Allocate
<1>5. ASSUME NEW t \in Threads, ReadElement(t) PROVE HeldApart'
      BY <1>5 DEF ReadElement
<1>6. ASSUME NEW t \in Threads, Take(t) PROVE HeldApart'
      <2>1. CASE next = call[t].read
            <3>1. /\ call[t].place = "take"
                  /\ held' = [held EXCEPT ![t] = @ \cup {call[t].read.index}]
                  /\ Goes(t, "out", Start, 0)
                  BY <1>6, <2>1, TakeSucceeds
            <3>2. call[t].read.index \in Free
                  BY <2>1, <3>1, FirstIsFree DEF BlocksSound, Taking
            <3>3. \A u \in Threads : call[t].read.index \notin held[u]
                  BY <3>2 DEF Free
            <3>4. QED BY <3>1, <3>3
      <2>2. CASE next # call[t].read
            <3>1. Goes(t, "next", Start, 0) /\ held' = held
                  BY <1>6, <2>2, ExchangeFails
            <3>2. QED BY <3>1
      <2>3. QED BY <2>1, <2>2
<1>7. ASSUME NEW t \in Threads, NEW i \in Ids, Release(t, i) PROVE HeldApart'
      BY <1>7 DEF Release
<1>8. ASSUME NEW t \in Threads, LoadForRelease(t) PROVE HeldApart'
      BY <1>8 DEF LoadForRelease
<1>9. ASSUME NEW t \in Threads, Link(t) PROVE HeldApart'
      BY <1>9 DEF Link
<1>10. ASSUME NEW t \in Threads, Give(t) PROVE HeldApart'
      <2>1. CASE next = call[t].read
            <3>1. /\ call[t].place = "give"
                  /\ held' = [held EXCEPT ![t] = @ \ {call[t].id}]
                  /\ Goes(t, "out", Start, 0)
                  BY <1>10, <2>1, GiveSucceeds
            <3>2. \A u \in Threads \ {t} : Releasing(u) => call[u].id # call[t].id
                  BY <3>1
            <3>3. QED BY <3>1, <3>2
      <2>2. CASE next # call[t].read
            <3>1. /\ call[t].place = "give"
                  /\ Goes(t, "release", Start, call[t].id) /\ held' = held
                  BY <1>10, <2>2, ExchangeFails
            <3>2. QED BY <3>1
      <2>3. QED BY <2>1, <2>2
<1>11. QED BY <1>1, <1>2, <1>3, <1>4, <1>5, <1>6, <1>7, <1>8, <1>9, <1>10 DEF Next

\* A block is there before an id of it is out or has a successor written.
LEMMA BlocksInductive == IInv /\ [Next]_vars => BlocksSound'
<1> SUFFICES ASSUME IInv, [Next]_vars PROVE BlocksSound'
    OBVIOUS
<1> USE DEF IInv, TypeOK, HeldApart, BlocksSound, Taking, InBlock, Releasing, At, Goes, Block
<1>1. CASE UNCHANGED vars
      BY <1>1 DEF vars
<1>2. ASSUME NEW t \in Threads, LoadNext(t) PROVE BlocksSound'
      <2>1. next.index \in Ids
            BY <1>2, FreeListAssumption DEF LoadNext, Ids, Heads
      <2>2. QED BY <1>2, <2>1 DEF LoadNext
<1>3. ASSUME NEW t \in Threads, FindBlock(t) PROVE BlocksSound'
      BY <1>3 DEF FindBlock
<1>4. ASSUME NEW t \in Threads, Allocate(t) PROVE BlocksSound'
      <2>1. /\ call[t].place = "allocate" /\ Goes(t, "element", call[t].read, 0)
            /\ allocated' = allocated \cup {Block(t)} /\ held' = held
            BY <1>4 DEF Allocate
      <2>2. link' = link
            BY <1>4, FillsNothing
      <2>3. QED BY <2>1, <2>2
<1>5. ASSUME NEW t \in Threads, ReadElement(t) PROVE BlocksSound'
      BY <1>5 DEF ReadElement
<1>6. ASSUME NEW t \in Threads, Take(t) PROVE BlocksSound'
      <2>1. CASE next = call[t].read
            <3>1. /\ call[t].place = "take"
                  /\ held' = [held EXCEPT ![t] = @ \cup {call[t].read.index}]
                  /\ Goes(t, "out", Start, 0) /\ allocated' = allocated /\ link' = link
                  BY <1>6, <2>1, TakeSucceeds
            <3>2. QED BY <3>1
      <2>2. CASE next # call[t].read
            <3>1. Goes(t, "next", Start, 0) /\ UNCHANGED <<held, allocated, link>>
                  BY <1>6, <2>2, ExchangeFails
            <3>2. QED BY <3>1
      <2>3. QED BY <2>1, <2>2
<1>7. ASSUME NEW t \in Threads, NEW i \in Ids, Release(t, i) PROVE BlocksSound'
      BY <1>7 DEF Release
<1>8. ASSUME NEW t \in Threads, LoadForRelease(t) PROVE BlocksSound'
      BY <1>8 DEF LoadForRelease
<1>9. ASSUME NEW t \in Threads, Link(t) PROVE BlocksSound'
      BY <1>9 DEF Link
<1>10. ASSUME NEW t \in Threads, Give(t) PROVE BlocksSound'
      <2>1. CASE next = call[t].read
            <3>1. /\ held' = [held EXCEPT ![t] = @ \ {call[t].id}]
                  /\ Goes(t, "out", Start, 0) /\ allocated' = allocated /\ link' = link
                  BY <1>10, <2>1, GiveSucceeds
            <3>2. QED BY <3>1
      <2>2. CASE next # call[t].read
            <3>1. Goes(t, "release", Start, call[t].id) /\ UNCHANGED <<held, allocated, link>>
                  BY <1>10, <2>2, ExchangeFails
            <3>2. QED BY <3>1
      <2>3. QED BY <2>1, <2>2
<1>11. QED BY <1>1, <1>2, <1>3, <1>4, <1>5, <1>6, <1>7, <1>8, <1>9, <1>10 DEF Next

\* The distance between two serial numbers grows with the later one.
LEMMA CountsOn ==
  ASSUME NEW n \in Nat \ {0}, NEW r \in 0..(n - 1), NEW q \in 0..(n - 1), q < n - 1,
         NEW s, s = IF r + q < n THEN r + q ELSE r + q - n
  PROVE  (IF s + 1 = n THEN 0 ELSE s + 1) = IF r + (q + 1) < n THEN r + (q + 1)
                                            ELSE r + (q + 1) - n
OBVIOUS

\* A release counts the serial number up by one, and is counted by those who are reading.
LEMMA SerialsInductive == IInv /\ [Next]_vars => SerialsSound'
<1> SUFFICES ASSUME IInv, [Next]_vars PROVE SerialsSound'
    OBVIOUS
<1>a. \A h \in Heads : h.index \in 0..MaxIndex /\ h.serial \in 0..(Serials - 1)
      BY DEF Heads
<1>b. \A c \in Calls : c.read \in Heads
      BY DEF Calls
<1> USE <1>a, <1>b, FreeListAssumption DEF IInv, TypeOK, SerialsSound, Reading, At, Goes
<1>1. CASE UNCHANGED vars
      BY <1>1 DEF vars
<1>2. ASSUME NEW t \in Threads, LoadNext(t) PROVE SerialsSound'
      BY <1>2 DEF LoadNext
<1>3. ASSUME NEW t \in Threads, FindBlock(t) PROVE SerialsSound'
      BY <1>3 DEF FindBlock
<1>4. ASSUME NEW t \in Threads, Allocate(t) PROVE SerialsSound'
      BY <1>4 DEF Allocate
<1>5. ASSUME NEW t \in Threads, ReadElement(t) PROVE SerialsSound'
      BY <1>5 DEF ReadElement
<1>6. ASSUME NEW t \in Threads, Take(t) PROVE SerialsSound'
      <2>1. CASE next = call[t].read
            <3>1. /\ next' = [next EXCEPT !.index = call[t].id]
                  /\ Goes(t, "out", Start, 0) /\ releases' = [releases EXCEPT ![t] = 0]
                  BY <1>6, <2>1, TakeSucceeds
            <3>2. next'.serial = next.serial
                  BY <3>1 DEF Heads
            <3>3. QED BY <3>1, <3>2
      <2>2. CASE next # call[t].read
            <3>1. /\ Goes(t, "next", Start, 0) /\ next' = next
                  /\ releases' = [releases EXCEPT ![t] = 0]
                  BY <1>6, <2>2, ExchangeFails
            <3>2. QED BY <3>1
      <2>3. QED BY <2>1, <2>2
<1>7. ASSUME NEW t \in Threads, NEW i \in Ids, Release(t, i) PROVE SerialsSound'
      BY <1>7 DEF Release
<1>8. ASSUME NEW t \in Threads, LoadForRelease(t) PROVE SerialsSound'
      BY <1>8 DEF LoadForRelease
<1>9. ASSUME NEW t \in Threads, Link(t) PROVE SerialsSound'
      BY <1>9 DEF Link
<1>10. ASSUME NEW t \in Threads, Give(t) PROVE SerialsSound'
      <2>1. CASE next = call[t].read
            <3>1. /\ \A u \in Threads \ {t} : releases[u] < Serials - 1
                  /\ next' = incrementserial(call[t].read, call[t].id)
                  /\ Goes(t, "out", Start, 0)
                  /\ releases' = [u \in Threads |->
                                    IF u = t \/ ~Reading(u) THEN 0 ELSE releases[u] + 1]
                  BY <1>10, <2>1, GiveSucceeds
            <3>2. next'.serial = IF next.serial + 1 = Serials THEN 0 ELSE next.serial + 1
                  BY <2>1, <3>1, Wraps DEF incrementserial
            <3>3. ASSUME NEW u \in Threads, Reading(u)'
                  PROVE  /\ Reading(u) /\ call'[u].read = call[u].read
                         /\ releases'[u] = releases[u] + 1
                         /\ call[u].read.serial \in 0..(Serials - 1)
                         /\ releases[u] < Serials - 1
                  BY <3>1, <3>3
            <3>4. ASSUME NEW u \in Threads, Reading(u)'
                  PROVE  next'.serial = IF call[u].read.serial + (releases[u] + 1) < Serials
                                        THEN call[u].read.serial + (releases[u] + 1)
                                        ELSE call[u].read.serial + (releases[u] + 1) - Serials
                  <4>1. next.serial = IF call[u].read.serial + releases[u] < Serials
                                      THEN call[u].read.serial + releases[u]
                                      ELSE call[u].read.serial + releases[u] - Serials
                        BY <3>3, <3>4
                  <4>2. /\ Serials \in Nat \ {0} /\ releases[u] \in 0..(Serials - 1)
                        /\ call[u].read.serial \in 0..(Serials - 1)
                        /\ releases[u] < Serials - 1
                        BY <3>3, <3>4
                  <4> DEFINE r == call[u].read.serial   q == releases[u]
                  <4>3. (IF next.serial + 1 = Serials THEN 0 ELSE next.serial + 1)
                        = IF r + (q + 1) < Serials THEN r + (q + 1) ELSE r + (q + 1) - Serials
                        <5> HIDE DEF r, q
                        <5>1. QED BY <4>1, <4>2, CountsOn DEF r, q
                  <4>4. QED BY <3>2, <4>3
            <3>5. QED BY <3>3, <3>4
      <2>2. CASE next # call[t].read
            <3>1. /\ Goes(t, "release", Start, call[t].id) /\ next' = next
                  /\ releases' = [releases EXCEPT ![t] = 0]
                  BY <1>10, <2>2, ExchangeFails
            <3>2. QED BY <3>1
      <2>3. QED BY <2>1, <2>2
<1>11. QED BY <1>1, <1>2, <1>3, <1>4, <1>5, <1>6, <1>7, <1>8, <1>9, <1>10 DEF Next

\* Nothing was released since the reading if _next is what was read.
LEMMA NothingReleased ==
  ASSUME IInv, NEW t \in Threads, Reading(t), next = call[t].read
  PROVE  releases[t] = 0
<1>1. /\ next.serial = IF next.serial + releases[t] < Serials
                       THEN next.serial + releases[t]
                       ELSE next.serial + releases[t] - Serials
      /\ releases[t] \in 0..(Serials - 1) /\ next.serial \in 0..(Serials - 1)
      BY DEF IInv, TypeOK, SerialsSound, Heads
<1>2. QED BY <1>1, FreeListAssumption

\* So the id that is taken is followed by the one that was read.
LEMMA TakesFirst ==
  ASSUME IInv, NEW t \in Threads, Take(t), next = call[t].read
  PROVE  /\ next.index \in Free
         /\ next' = [next EXCEPT !.index = link[next.index]]
         /\ next'.index = link[next.index]
<1>1. call[t].place = "take" /\ next' = [next EXCEPT !.index = call[t].id]
      BY TakeSucceeds
<1>2. releases[t] = 0
      BY <1>1, NothingReleased DEF Reading
<1>3. next.index \in Free
      BY <1>1, FirstIsFree DEF IInv, BlocksSound, Taking
<1>4. call[t].id = link[next.index]
      BY <1>1, <1>2, <1>3 DEF IInv, ReadSound, StillFirst, Taking, At
<1>5. next'.index = link[next.index]
      BY <1>1, <1>4 DEF IInv, TypeOK, Heads
<1>6. QED BY <1>1, <1>3, <1>4, <1>5

\* What was read of a free id stays true of it until the next release.
LEMMA ReadInductive == IInv /\ [Next]_vars => ReadSound'
<1> SUFFICES ASSUME IInv, [Next]_vars PROVE ReadSound'
    OBVIOUS
<1> USE DEF IInv, TypeOK, ReadSound, StillFirst, Taking, Free, At, Goes
<1>1. CASE UNCHANGED vars
      BY <1>1 DEF vars
<1>2. ASSUME NEW t \in Threads, LoadNext(t) PROVE ReadSound'
      BY <1>2 DEF LoadNext
<1>3. ASSUME NEW t \in Threads, FindBlock(t) PROVE ReadSound'
      BY <1>3 DEF FindBlock
<1>4. ASSUME NEW t \in Threads, Allocate(t) PROVE ReadSound'
      <2>1. link' = link
            BY <1>4, FillsNothing
      <2>2. QED BY <1>4, <2>1 DEF Allocate
<1>5. ASSUME NEW t \in Threads, ReadElement(t) PROVE ReadSound'
      BY <1>5 DEF ReadElement
<1>6. ASSUME NEW t \in Threads, Take(t) PROVE ReadSound'
      <2>1. CASE next = call[t].read
            <3>1. /\ held' = [held EXCEPT ![t] = @ \cup {call[t].read.index}]
                  /\ Goes(t, "out", Start, 0) /\ releases' = [releases EXCEPT ![t] = 0]
                  BY <1>6, <2>1, TakeSucceeds
            <3>2. Free' = Free \ {next.index}
                  BY <2>1, <3>1
            <3>3. ASSUME NEW u \in Threads, Taking(u)', releases'[u] = 0
                  PROVE  call[u].read.index \notin Free'
                  <4>1. Taking(u) /\ releases[u] = 0
                        BY <3>1, <3>3
                  <4>2. CASE StillFirst(u)
                        BY <3>2, <4>2
                  <4>3. CASE call[u].read.index \notin Free
                        BY <3>2, <4>3
                  <4>4. QED BY <4>1, <4>2, <4>3
            <3>4. \A u \in Threads : Taking(u)' => call'[u] = call[u]
                  BY <3>1
            <3>5. QED BY <3>3, <3>4
      <2>2. CASE next # call[t].read
            <3>1. /\ Goes(t, "next", Start, 0) /\ UNCHANGED <<next, held, link>>
                  /\ releases' = [releases EXCEPT ![t] = 0]
                  BY <1>6, <2>2, ExchangeFails
            <3>2. QED BY <3>1
      <2>3. QED BY <2>1, <2>2
<1>7. ASSUME NEW t \in Threads, NEW i \in Ids, Release(t, i) PROVE ReadSound'
      BY <1>7 DEF Release
<1>8. ASSUME NEW t \in Threads, LoadForRelease(t) PROVE ReadSound'
      BY <1>8 DEF LoadForRelease
<1>9. ASSUME NEW t \in Threads, Link(t) PROVE ReadSound'
      <2>1. /\ call[t].place = "link" /\ Goes(t, "give", call[t].read, call[t].id)
            /\ link' = [link EXCEPT ![call[t].id] = call[t].read.index]
            /\ UNCHANGED <<next, allocated, held, releases>>
            BY <1>9 DEF Link
      <2>2. call[t].id \notin Free
            BY <2>1 DEF HeldApart, Releasing
      <2>3. ASSUME NEW u \in Threads, Taking(u), releases[u] = 0
            PROVE  StillFirst(u)' \/ call'[u].read.index \notin Free'
            <3>1. call'[u] = call[u] /\ Free' = Free
                  BY <2>1, <2>3
            <3>2. CASE call[u].read.index \notin Free
                  BY <3>1, <3>2
            <3>3. CASE StillFirst(u) /\ call[u].read.index \in Free
                  BY <2>1, <2>2, <3>1, <3>3
            <3>4. QED BY <2>3, <3>2, <3>3
      <2>4. QED BY <2>1, <2>3
<1>10. ASSUME NEW t \in Threads, Give(t) PROVE ReadSound'
      <2>1. CASE next = call[t].read
            <3>1. /\ Goes(t, "out", Start, 0)
                  /\ releases' = [u \in Threads |->
                                    IF u = t \/ ~Reading(u) THEN 0 ELSE releases[u] + 1]
                  BY <1>10, <2>1, GiveSucceeds
            <3>2. \A u \in Threads : Taking(u)' => releases'[u] # 0
                  BY <3>1 DEF Reading
            <3>3. QED BY <3>2
      <2>2. CASE next # call[t].read
            <3>1. /\ Goes(t, "release", Start, call[t].id) /\ UNCHANGED <<next, held, link>>
                  /\ releases' = [releases EXCEPT ![t] = 0]
                  BY <1>10, <2>2, ExchangeFails
            <3>2. QED BY <3>1
      <2>3. QED BY <2>1, <2>2
<1>11. QED BY <1>1, <1>2, <1>3, <1>4, <1>5, <1>6, <1>7, <1>8, <1>9, <1>10 DEF Next

\* Nobody else writes the successor of an id that is being given back.
LEMMA LinkInductive == IInv /\ [Next]_vars => LinkSound'
<1> SUFFICES ASSUME IInv, [Next]_vars PROVE LinkSound'
    OBVIOUS
<1> USE DEF IInv, TypeOK, LinkSound, At, Goes
<1>1. CASE UNCHANGED vars
      BY <1>1 DEF vars
<1>2. ASSUME NEW t \in Threads,
             LoadNext(t) \/ FindBlock(t) \/ ReadElement(t) \/ LoadForRelease(t)
               \/ \E i \in Ids : Release(t, i)
      PROVE  LinkSound'
      BY <1>2 DEF LoadNext, FindBlock, ReadElement, LoadForRelease, Release
<1>3. ASSUME NEW t \in Threads, Allocate(t) PROVE LinkSound'
      <2>1. link' = link
            BY <1>3, FillsNothing
      <2>2. QED BY <1>3, <2>1 DEF Allocate
<1>4. ASSUME NEW t \in Threads, Link(t) PROVE LinkSound'
      <2>1. /\ call[t].place = "link" /\ Goes(t, "give", call[t].read, call[t].id)
            /\ link' = [link EXCEPT ![call[t].id] = call[t].read.index]
            BY <1>4 DEF Link
      <2>2. \A u \in Threads \ {t} : At(u, "give") => call[u].id # call[t].id
            BY <2>1 DEF HeldApart, Releasing
      <2>3. call[t].id \in Ids
            BY <2>1 DEF HeldApart, Releasing
      <2>4. QED BY <2>1, <2>2, <2>3
<1>5. ASSUME NEW t \in Threads, Take(t) \/ Give(t) PROVE LinkSound'
      <2>1. CASE next = call[t].read
            <3>1. Goes(t, "out", Start, 0) /\ link' = link
                  BY <1>5, <2>1, TakeSucceeds, GiveSucceeds
            <3>2. QED BY <3>1
      <2>2. CASE next # call[t].read
            <3>1. Goes(t, "next", Start, 0) \/ Goes(t, "release", Start, call[t].id)
                  BY <1>5, <2>2, ExchangeFails
            <3>2. link' = link
                  BY <1>5, <2>2, ExchangeFails
            <3>3. QED BY <3>1, <3>2
      <2>3. QED BY <2>1, <2>2
<1>6. QED BY <1>1, <1>2, <1>3, <1>4, <1>5 DEF Next

-----------------------------------------------------------------------------
(* The list of free ids *)

\* It is as it was while nothing is taken or given back ...
LEMMA WayStays ==
  ASSUME ListSound, next' = next, held' = held, \A i \in Free : link'[i] = link[i]
  PROVE  ListSound'
<1>a. PICK n \in 0..MaxIndex : \E way \in [0..n -> 0..MaxIndex] : IsWay(way, n)
      BY DEF ListSound
<1>1. PICK way \in [0..n -> 0..MaxIndex] : IsWay(way, n)
      BY <1>a
<1>2. Free' = Free
      BY DEF Free
<1>3. IsWay(way, n)'
      BY <1>1, <1>2 DEF IsWay
<1>4. QED BY <1>3 DEF ListSound

\* ... loses its first id when that is taken ...
LEMMA WayShortens ==
  ASSUME TypeOK, ListSound, next.index \in Free, next'.index = link[next.index],
         Free' = Free \ {next.index}, link' = link
  PROVE  ListSound'
<1>a. PICK n \in 0..MaxIndex : \E way \in [0..n -> 0..MaxIndex] : IsWay(way, n)
      BY DEF ListSound
<1>1. PICK way \in [0..n -> 0..MaxIndex] : IsWay(way, n)
      BY <1>a
<1>2. next.index \in Ids /\ MaxIndex \in Nat
      BY FreeListAssumption DEF Free
<1>3. n # 0
      BY <1>1, <1>2 DEF IsWay, Ids
<1> DEFINE m == n - 1
           rest == [k \in 0..m |-> way[k + 1]]
<1>4. m \in 0..MaxIndex /\ rest \in [0..m -> 0..MaxIndex]
      BY <1>2, <1>3
<1>5. IsWay(rest, m)'
      <2>1. rest[0] = next'.index /\ rest[m] = MaxIndex
            BY <1>1, <1>2, <1>3 DEF IsWay
      <2>2. \A k \in 0..(m - 1) : rest[k] \in Free' /\ link'[rest[k]] = rest[k + 1]
            BY <1>1, <1>2, <1>3, SMTT(20) DEF IsWay
      <2>3. \A j, k \in 0..m : rest[j] = rest[k] => j = k
            BY <1>1, <1>2, <1>3 DEF IsWay
      <2>4. ASSUME NEW i \in Free' PROVE \E k \in 0..(m - 1) : rest[k] = i
            <3>1. PICK k \in 0..(n - 1) : way[k] = i
                  BY <1>1 DEF IsWay
            <3>2. k # 0
                  BY <1>1, <3>1 DEF IsWay
            <3>3. k - 1 \in 0..(m - 1) /\ rest[k - 1] = i
                  BY <1>2, <3>1, <3>2
            <3>4. QED BY <3>3
      <2>5. QED BY <2>1, <2>2, <2>3, <2>4 DEF IsWay
<1>6. QED BY <1>4, <1>5 DEF ListSound

\* ... and gains one in front when that is given back.
LEMMA WayGrows ==
  ASSUME TypeOK, ListSound, NEW i \in Ids \ Free, link[i] = next.index,
         next'.index = i, Free' = Free \cup {i}, link' = link
  PROVE  ListSound'
<1>a. PICK n \in 0..MaxIndex : \E way \in [0..n -> 0..MaxIndex] : IsWay(way, n)
      BY DEF ListSound
<1>1. PICK way \in [0..n -> 0..MaxIndex] : IsWay(way, n)
      BY <1>a
<1>2. MaxIndex \in Nat /\ i \in 0..MaxIndex /\ i # MaxIndex
      BY FreeListAssumption DEF Ids
<1> DEFINE m == n + 1
           longer == [k \in 0..m |-> IF k = 0 THEN i ELSE way[k - 1]]
<1>3. longer \in [0..m -> 0..MaxIndex]
      BY <1>2
<1>4. \A k \in 0..n : way[k] # i
      <2>1. \A k \in 0..(n - 1) : way[k] \in Free
            BY <1>1 DEF IsWay
      <2>2. way[n] # i
            BY <1>1, <1>2 DEF IsWay
      <2>3. QED BY <2>1, <2>2
<1>5. \A j, k \in 0..m : longer[j] = longer[k] => j = k
      BY <1>1, <1>4 DEF IsWay
<1>6. m \in 0..MaxIndex
      <2>1. n \in Nat /\ m \in Int /\ m = n + 1
            BY <1>2
      <2> HIDE DEF m, longer
      <2>2. /\ IsFiniteSet(0..m) /\ Cardinality(0..m) = m + 1
            /\ IsFiniteSet(0..MaxIndex) /\ Cardinality(0..MaxIndex) = MaxIndex + 1
            BY <1>2, <2>1, FS_Interval
      <2>3. ~ (Cardinality(0..MaxIndex) < Cardinality(0..m))
            <3> DEFINE S == 0..m
                       T == 0..MaxIndex
            <3>1. /\ longer \in [S -> T] /\ IsFiniteSet(S) /\ IsFiniteSet(T)
                  /\ \A j, k \in S : longer[j] = longer[k] => j = k
                  BY <1>3, <1>5, <2>2
            <3> HIDE DEF S, T
            <3>2. ASSUME Cardinality(T) < Cardinality(S) PROVE FALSE
                  BY <3>1, <3>2, FS_PigeonHole
            <3>3. QED BY <3>2 DEF S, T
      <2>4. QED BY <1>2, <2>1, <2>2, <2>3
<1>7. IsWay(longer, m)'
      <2>1. longer[0] = next'.index /\ longer[m] = MaxIndex
            BY <1>1, <1>2 DEF IsWay
      <2>2. ASSUME NEW k \in 0..(m - 1)
            PROVE  longer[k] \in Free' /\ link'[longer[k]] = longer[k + 1]
            <3>1. CASE k = 0
                  BY <1>1, <3>1 DEF IsWay
            <3>2. CASE k # 0
                  <4>1. k - 1 \in 0..(n - 1) /\ longer[k] = way[k - 1]
                        /\ longer[k + 1] = way[(k - 1) + 1]
                        BY <1>2, <3>2
                  <4>2. QED BY <1>1, <4>1, SMTT(20) DEF IsWay
            <3>3. QED BY <3>1, <3>2
      <2>3. ASSUME NEW f \in Free' PROVE \E k \in 0..(m - 1) : longer[k] = f
            <3>1. CASE f = i
                  BY <3>1
            <3>2. CASE f # i
                  <4>1. PICK k \in 0..(n - 1) : way[k] = f
                        BY <1>1, <3>2 DEF IsWay
                  <4>2. k + 1 \in 0..(m - 1) /\ longer[k + 1] = f
                        BY <4>1
                  <4>3. QED BY <4>2
            <3>3. QED BY <3>1, <3>2
      <2>4. QED BY <1>5, <2>1, <2>2, <2>3 DEF IsWay
<1>8. QED BY <1>3, <1>6, <1>7 DEF ListSound

\* Only the two exchanges change the list, and each changes its front.
LEMMA ListInductive == IInv /\ [Next]_vars => ListSound'
<1> SUFFICES ASSUME IInv, [Next]_vars PROVE ListSound'
    OBVIOUS
<1>a. TypeOK /\ ListSound
      BY DEF IInv
<1>1. CASE UNCHANGED vars
      BY <1>1, <1>a, WayStays DEF vars
<1>2. ASSUME NEW t \in Threads,
             LoadNext(t) \/ FindBlock(t) \/ ReadElement(t) \/ LoadForRelease(t)
               \/ \E i \in Ids : Release(t, i)
      PROVE  ListSound'
      <2>1. UNCHANGED <<next, held, link>>
            BY <1>2 DEF LoadNext, FindBlock, ReadElement, LoadForRelease, Release
      <2>2. QED BY <1>a, <2>1, WayStays
<1>3. ASSUME NEW t \in Threads, Allocate(t) PROVE ListSound'
      <2>1. link' = link
            BY <1>3, FillsNothing DEF IInv
      <2>2. QED BY <1>3, <1>a, <2>1, WayStays DEF Allocate
<1>4. ASSUME NEW t \in Threads, Link(t) PROVE ListSound'
      <2>1. /\ call[t].place = "link" /\ next' = next /\ held' = held
            /\ link' = [link EXCEPT ![call[t].id] = call[t].read.index]
            BY <1>4 DEF Link, At
      <2>2. call[t].id \in held[t]
            BY <2>1 DEF IInv, HeldApart, Releasing
      <2>3. \A i \in Free : link'[i] = link[i]
            BY <2>1, <2>2, <1>a DEF TypeOK, Free
      <2>4. QED BY <1>a, <2>1, <2>3, WayStays
<1>5. ASSUME NEW t \in Threads, Take(t), next = call[t].read PROVE ListSound'
      <2>1. next.index \in Free /\ next'.index = link[next.index]
            BY <1>5, TakesFirst
      <2>2. held' = [held EXCEPT ![t] = @ \cup {next.index}] /\ link' = link
            BY <1>5, TakeSucceeds
      <2>3. Free' = Free \ {next.index}
            BY <1>a, <2>2 DEF Free, TypeOK
      <2>4. QED BY <1>a, <2>1, <2>2, <2>3, WayShortens
<1>6. ASSUME NEW t \in Threads, Give(t), next = call[t].read PROVE ListSound'
      <2>1. /\ call[t].place = "give" /\ next'.index = call[t].id /\ link' = link
            /\ held' = [held EXCEPT ![t] = @ \ {call[t].id}]
            BY <1>6, GiveSucceeds DEF incrementserial
      <2>2. /\ call[t].id \in held[t] /\ call[t].id \in Ids
            /\ \A u \in Threads \ {t} : call[t].id \notin held[u]
            BY <2>1 DEF IInv, TypeOK, HeldApart, Releasing
      <2>3. Free' = Free \cup {call[t].id} /\ call[t].id \notin Free
            BY <1>a, <2>1, <2>2 DEF Free, TypeOK
      <2>4. link[call[t].id] = next.index
            BY <1>6, <2>1 DEF IInv, LinkSound, At
      <2>5. QED BY <1>a, <2>1, <2>2, <2>3, <2>4, WayGrows
<1>7. ASSUME NEW t \in Threads, Take(t) \/ Give(t), next # call[t].read PROVE ListSound'
      <2>1. UNCHANGED <<next, held, link>>
            BY <1>7, ExchangeFails
      <2>2. QED BY <1>a, <2>1, WayStays
<1>8. QED BY <1>1, <1>2, <1>3, <1>4, <1>5, <1>6, <1>7 DEF Next

\* Before the first call every id is free, in the order of their numbers.
LEMMA InitSound == Init => IInv
<1> SUFFICES ASSUME Init PROVE IInv
    OBVIOUS
<1>1. /\ Start \in Heads /\ Start.index = 0 /\ MaxIndex \in Nat \ {0}
      /\ Serials \in Nat \ {0} /\ [place |-> "out", read |-> Start, id |-> 0] \in Calls
      BY FreeListAssumption DEF Start, Heads, Calls, Places
<1>2. TypeOK
      BY <1>1 DEF Init, TypeOK, Ids
<1>3. \A t \in Threads : call[t].place = "out" /\ held[t] = {}
      BY DEF Init
<1>4. HeldApart /\ BlocksSound /\ SerialsSound /\ ReadSound /\ LinkSound
      BY <1>3 DEF HeldApart, BlocksSound, SerialsSound, ReadSound, LinkSound, Init,
                  Releasing, Taking, InBlock, Reading, At
<1>5. ListSound
      <2> DEFINE way == [k \in 0..MaxIndex |-> k]
      <2>1. way \in [0..MaxIndex -> 0..MaxIndex] /\ MaxIndex \in 0..MaxIndex
            BY <1>1
      <2>2. Free = Ids
            BY <1>3 DEF Free
      <2>3. IsWay(way, MaxIndex)
            <3>1. next.index = 0 /\ \A i \in Ids : link[i] = i + 1
                  BY <1>1 DEF Init
            <3>2. \A i \in Ids : i \in 0..(MaxIndex - 1) /\ way[i] = i
                  BY <1>1 DEF Ids
            <3>3. \A k \in 0..(MaxIndex - 1) : way[k] \in Free /\ link[way[k]] = way[k + 1]
                  BY <1>1, <2>2, <3>1 DEF Ids
            <3>4. \A i \in Free : \E k \in 0..(MaxIndex - 1) : way[k] = i
                  BY <2>2, <3>2
            <3>5. /\ way[0] = next.index /\ way[MaxIndex] = MaxIndex
                  /\ \A j, k \in 0..MaxIndex : way[j] = way[k] => j = k
                  BY <1>1, <3>1
            <3>6. QED BY <3>3, <3>4, <3>5 DEF IsWay
      <2>4. QED BY <2>1, <2>3 DEF ListSound
<1>6. QED BY <1>2, <1>4, <1>5 DEF IInv

\* The invariant holds of every reachable state.
THEOREM InvariantHolds == Spec => []IInv
<1>1. IInv /\ [Next]_vars => IInv'
      <2>1. IInv => TypeOK /\ \A t \in Threads : Taking(t) => call[t].read.index \in Ids
            BY DEF IInv, BlocksSound
      <2>2. QED BY <2>1, TypeInductive, ApartInductive, BlocksInductive, SerialsInductive,
                   ReadInductive, LinkInductive, ListInductive DEF IInv
<1>2. QED BY <1>1, InitSound, PTL DEF Spec

\* QFreeList: whatever threads take and release, at whatever steps of each other's
\* calls, the list leads through every id that is not out, once, and to its end.
THEOREM ListIsSound == Spec => []ListSound
<1>1. IInv => ListSound
      BY DEF IInv
<1>2. QED BY <1>1, InvariantHolds, PTL

\* An exchange in next() that succeeds hands out an id that nobody has.
LEMMA TakeOfPool ==
  ASSUME IInv, NEW t \in Threads, Take(t), next = call[t].read
  PROVE  Pool!Next
<1>1. next.index \in Free
      BY TakesFirst
<1>2. held' = [held EXCEPT ![t] = @ \cup {next.index}]
      BY TakeSucceeds
<1>3. next.index \in Ids /\ Pool!Take(t, next.index)
      BY <1>1, <1>2 DEF Free, Pool!Take
<1>4. QED BY <1>3 DEF Pool!Next

\* An exchange in release() that succeeds gives back one's own.
LEMMA GiveOfPool ==
  ASSUME IInv, NEW t \in Threads, Give(t), next = call[t].read
  PROVE  Pool!Next
<1>1. /\ call[t].place = "give"
      /\ held' = [held EXCEPT ![t] = @ \ {call[t].id}]
      BY GiveSucceeds
<1>2. call[t].id \in held[t] /\ call[t].id \in Ids
      BY <1>1 DEF IInv, TypeOK, HeldApart, Releasing
<1>3. Pool!Give(t, call[t].id)
      BY <1>1, <1>2 DEF Pool!Give
<1>4. QED BY <1>2, <1>3 DEF Pool!Next

\* The steps of a call before and between its exchanges, which do not show
Preparing(t) ==
  \/ LoadNext(t) \/ FindBlock(t) \/ Allocate(t) \/ ReadElement(t)
  \/ LoadForRelease(t) \/ Link(t) \/ \E i \in Ids : Release(t, i)

LEMMA StepOfPool == IInv /\ [Next]_vars => [Pool!Next]_held
<1> SUFFICES ASSUME IInv, [Next]_vars, held' # held PROVE Pool!Next
    OBVIOUS
<1>1. PICK t \in Threads : Preparing(t) \/ Take(t) \/ Give(t)
      BY DEF Next, Preparing, vars
<1>2. ~Preparing(t)
      BY DEF Preparing, LoadNext, FindBlock, Allocate, ReadElement, LoadForRelease, Link,
             Release
<1>3. next = call[t].read
      BY <1>1, <1>2, ExchangeFails
<1>4. QED BY <1>1, <1>2, <1>3, TakeOfPool, GiveOfPool

\* next() and release() do what a pool of ids does: the exchange in next() hands out
\* an id that nobody has, the exchange in release() gives back one's own, and no other
\* step shows.
THEOREM ImplementsPool == Spec => ImplementsIdPool
<1>1. Init => Pool!Init
      BY DEF Init, Pool!Init
<1>2. QED BY <1>1, StepOfPool, InvariantHolds, PTL DEF Spec, ImplementsIdPool, Pool!Spec
=============================================================================
