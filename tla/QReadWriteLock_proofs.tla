------------------------ MODULE QReadWriteLock_proofs ------------------------
(***************************************************************************)
(* For any finite set of threads, any depth and any time limits: the books *)
(* of QReadWriteLock and of its wait conditions are exact, and the lock    *)
(* implements ReadWriteSpec.                                               *)
(***************************************************************************)
EXTENDS QReadWriteLock, FiniteSetTheorems, TLAPS

Conditions == {"readerWait", "writerWait"}

-----------------------------------------------------------------------------
(* The wait conditions: what each operation does to a sound state of them *)

\* The threads that have called wait() of c and not come back, on w.
Waiters(w, c) == {t \in Threads : w.place[t] # "out" /\ w.on[t] = c}

Shape(w) ==
  w \in [waiters : [Conditions -> Int], wakeups : [Conditions -> Int],
         place : [Threads -> W!Places], on : [Threads -> Conditions],
         timed : [Threads -> BOOLEAN]]

Counted(w) ==
  \A c \in Conditions :
    /\ w.waiters[c] = Cardinality(W!Inside(w, c))
    /\ w.wakeups[c] \in 0..Cardinality(Threads)

Sound(w) == Shape(w) /\ Counted(w)

\* What others see of waking threads up: nothing but that.
Roused(w, x) ==
  /\ x.on = w.on /\ x.timed = w.timed
  /\ \A t \in Threads : \/ x.place[t] = w.place[t]
                        \/ w.place[t] = "asleep" /\ x.place[t] = "signalled"

\* One element less, said so that the provers find it.
LEMMA OneLess ==
  ASSUME NEW S, IsFiniteSet(S), NEW x \in S, NEW R, R = S \ {x}
  PROVE  Cardinality(R) = Cardinality(S) - 1
BY FS_RemoveElement

\* The threads inside a condition are finitely many.
LEMMA InsideFinite ==
  ASSUME NEW w, NEW c
  PROVE  /\ IsFiniteSet(W!Inside(w, c))
         /\ Cardinality(W!Inside(w, c)) \in 0..Cardinality(Threads)
<1>1. W!Inside(w, c) \subseteq Threads
      BY DEF W!Inside
<1>2. /\ IsFiniteSet(W!Inside(w, c))
      /\ Cardinality(W!Inside(w, c)) <= Cardinality(Threads)
      BY <1>1, FS_Subset, RWAssumption
<1>3. QED BY <1>2, FS_CardinalityType, RWAssumption

\* A thread that begins to wait is counted, and nobody else moves.
LEMMA BeginSound ==
  ASSUME NEW w, Sound(w), NEW t \in Threads, w.place[t] \notin W!Unlocked,
         NEW c \in Conditions, NEW timed \in BOOLEAN
  PROVE  LET x == W!AfterBegin(w, t, c, timed)
         IN  /\ Sound(x)
             /\ x.place = [w.place EXCEPT ![t] = "asleep"]
             /\ x.on = [w.on EXCEPT ![t] = c]
<1> DEFINE x == W!AfterBegin(w, t, c, timed)
<1> DEFINE limits == [w.timed EXCEPT ![t] = timed]
           y == [w EXCEPT !.waiters[c] = @ + 1, !.place[t] = "asleep", !.on[t] = c]
<1>a. limits \in [Threads -> BOOLEAN]
      BY Zenon DEF Sound, Shape
<1>b. Shape(y) /\ y.timed = w.timed
      <2>1. w.waiters[c] + 1 \in Int /\ "asleep" \in W!Places
            BY DEF Sound, Shape, W!Places, W!Unlocked
      <2>2. QED BY <2>1 DEF Sound, Shape
<1>c. x = [y EXCEPT !.timed = limits]
      BY DEF Sound, Shape, W!AfterBegin
<1>1. /\ Shape(x)
      /\ x.place = [w.place EXCEPT ![t] = "asleep"]
      /\ x.on = [w.on EXCEPT ![t] = c]
      /\ x.waiters = [w.waiters EXCEPT ![c] = @ + 1]
      /\ x.wakeups = w.wakeups
      <2> HIDE DEF limits, x
      <2> QED BY <1>a, <1>b, <1>c DEF Sound, Shape
<1>2. /\ W!Inside(x, c) = W!Inside(w, c) \cup {t}
      /\ t \notin W!Inside(w, c)
      /\ \A b \in Conditions \ {c} : W!Inside(x, b) = W!Inside(w, b)
      BY <1>1 DEF Sound, Shape, W!Inside, W!Unlocked
<1>3. Cardinality(W!Inside(x, c)) = Cardinality(W!Inside(w, c)) + 1
      <2>1. IsFiniteSet(W!Inside(w, c))
            BY InsideFinite
      <2>2. Cardinality(W!Inside(w, c) \cup {t}) = Cardinality(W!Inside(w, c)) + 1
            BY <1>2, <2>1, FS_AddElement
      <2>3. QED BY <1>2, <2>2
<1>4. Counted(x)
      BY <1>1, <1>2, <1>3, InsideFinite DEF Sound, Shape, Counted
<1>5. QED BY <1>1, <1>4 DEF Sound

\* Waking up changes no count of waiters.
LEMMA RousedSound ==
  ASSUME NEW w, Sound(w), NEW x, Shape(x), Roused(w, x), x.waiters = w.waiters,
         \A c \in Conditions : x.wakeups[c] \in 0..Cardinality(Threads)
  PROVE  Sound(x)
<1>1. \A c \in Conditions : W!Inside(x, c) = W!Inside(w, c)
      BY DEF Sound, Shape, Roused, W!Inside, W!Unlocked
<1>2. QED BY <1>1 DEF Sound, Counted

\* wakeOne() makes no more wake-ups than there are waiters, and moves nobody out.
LEMMA WakeOneSound ==
  ASSUME NEW w, Sound(w), NEW c \in Conditions, NEW x \in W!AfterWakeOne(w, c)
  PROVE  Sound(x) /\ Roused(w, x)
<1> DEFINE n == IF w.wakeups[c] + 1 <= w.waiters[c] THEN w.wakeups[c] + 1
                                                   ELSE w.waiters[c]
           counted == [w EXCEPT !.wakeups[c] = n]
<1>1. /\ n \in 0..Cardinality(Threads) /\ n \in Int
      /\ Cardinality(Threads) \in Nat
      BY InsideFinite, FS_CardinalityType, RWAssumption DEF Sound, Shape, Counted
<1>2. x = counted \/ \E s \in W!Asleep(w, c) : x = [counted EXCEPT !.place[s] = "signalled"]
      BY DEF W!AfterWakeOne, Sound, Shape
<1>3. ASSUME x = counted PROVE Sound(x) /\ Roused(w, x)
      <2>1. /\ Shape(x) /\ Roused(w, x) /\ x.waiters = w.waiters
            /\ x.wakeups = [w.wakeups EXCEPT ![c] = n]
            BY <1>1, <1>3 DEF Sound, Shape, Roused
      <2>2. \A b \in Conditions : x.wakeups[b] \in 0..Cardinality(Threads)
            BY <1>1, <2>1 DEF Sound, Shape, Counted
      <2>3. QED BY <2>1, <2>2, RousedSound
<1>4. ASSUME NEW s \in W!Asleep(w, c), x = [counted EXCEPT !.place[s] = "signalled"]
      PROVE  Sound(x) /\ Roused(w, x)
      <2>1. /\ Shape(x) /\ Roused(w, x) /\ x.waiters = w.waiters
            /\ x.wakeups = [w.wakeups EXCEPT ![c] = n]
            BY <1>1, <1>4 DEF Sound, Shape, Roused, W!Asleep, W!Inside, W!Places, W!Unlocked
      <2>2. \A b \in Conditions : x.wakeups[b] \in 0..Cardinality(Threads)
            BY <1>1, <2>1 DEF Sound, Shape, Counted
      <2>3. QED BY <2>1, <2>2, RousedSound
<1>5. QED BY <1>2, <1>3, <1>4

\* Nor does wakeAll().
LEMMA WakeAllSound ==
  ASSUME NEW w, Sound(w), NEW c \in Conditions
  PROVE  Sound(W!AfterWakeAll(w, c)) /\ Roused(w, W!AfterWakeAll(w, c))
<1> DEFINE x == W!AfterWakeAll(w, c)
<1>1. /\ Shape(x) /\ Roused(w, x) /\ x.waiters = w.waiters
      /\ x.wakeups = [w.wakeups EXCEPT ![c] = w.waiters[c]]
      BY DEF Sound, Shape, Roused, W!AfterWakeAll, W!Asleep, W!Inside, W!Places, W!Unlocked
<1>2. \A b \in Conditions : x.wakeups[b] \in 0..Cardinality(Threads)
      BY <1>1, InsideFinite DEF Sound, Shape, Counted
<1>3. QED BY <1>1, <1>2, RousedSound

\* A thread that comes back with its answer was counted out before.
LEMMA ReturnSound ==
  ASSUME NEW w, Sound(w), NEW t \in Threads, w.place[t] \in W!Done
  PROVE  LET x == W!AfterReturn(w, t)
         IN  /\ Sound(x)
             /\ x.place = [w.place EXCEPT ![t] = "out"]
             /\ x.on = w.on
<1> DEFINE x == W!AfterReturn(w, t)
<1>1. /\ Shape(x)
      /\ x.place = [w.place EXCEPT ![t] = "out"]
      /\ x.on = w.on /\ x.waiters = w.waiters /\ x.wakeups = w.wakeups
      BY DEF Sound, Shape, W!AfterReturn, W!Places, W!Done
<1>2. \A c \in Conditions : W!Inside(x, c) = W!Inside(w, c)
      BY <1>1 DEF Sound, Shape, W!Inside, W!Unlocked, W!Done
<1>3. QED BY <1>1, <1>2 DEF Sound, Counted

\* Threads inside wait() stay there, counted as long as they have to be.
LEMMA WaitingSound ==
  ASSUME Sound(waits), NEW t \in Threads,
         W!Timeout(t) \/ W!SpuriousWakeup(t) \/ W!Proceed(t)
  PROVE  /\ Sound(waits')
         /\ waits'.on = waits.on
         /\ \A s \in Threads : waits'.place[s] = "out" <=> waits.place[s] = "out"
<1> DEFINE c == waits.on[t]
<1>1. c \in Conditions
      BY DEF Sound, Shape
<1>2. CASE W!Timeout(t) \/ W!SpuriousWakeup(t) \/ W!WaitAgain(t)
      <2>1. PICK p \in W!Unlocked :
              waits.place[t] \in W!Unlocked /\ waits' = [waits EXCEPT !.place[t] = p]
            BY <1>2 DEF W!Timeout, W!SpuriousWakeup, W!WaitAgain, W!Unlocked
      <2>2. /\ Shape(waits') /\ waits'.on = waits.on
            /\ waits'.waiters = waits.waiters /\ waits'.wakeups = waits.wakeups
            /\ waits'.place = [waits.place EXCEPT ![t] = p]
            BY <2>1 DEF Sound, Shape, W!Places
      <2>3. \A b \in Conditions : W!Inside(waits', b) = W!Inside(waits, b)
            BY <2>1, <2>2 DEF Sound, Shape, W!Inside
      <2>4. QED BY <2>1, <2>2, <2>3 DEF Sound, Shape, Counted, W!Unlocked
<1>3. CASE W!LeaveTimedOut(t) \/ W!LeaveWoken(t)
      <2>1. PICK p \in W!Done :
              /\ Shape(waits') /\ waits'.on = waits.on
              /\ waits'.waiters = [waits.waiters EXCEPT ![c] = @ - 1]
              /\ waits'.place = [waits.place EXCEPT ![t] = p]
              /\ waits.place[t] \in W!Unlocked
              /\ \A b \in Conditions : waits'.wakeups[b] \in 0..Cardinality(Threads)
            <3>1. CASE W!LeaveTimedOut(t)
                  <4>1. /\ waits.place[t] \in W!Unlocked /\ "failed" \in W!Done
                        /\ "failed" \in W!Places
                        /\ waits.waiters[c] - 1 \in Int
                        BY <1>1, <3>1 DEF W!LeaveTimedOut, W!Unlocked, W!Done, W!Places,
                                          Sound, Shape
                  <4>2. waits' = [waits EXCEPT !.place[t] = "failed", !.waiters[c] = @ - 1]
                        BY <3>1 DEF W!LeaveTimedOut
                  <4>3. /\ Shape(waits') /\ waits'.on = waits.on
                        /\ waits'.waiters = [waits.waiters EXCEPT ![c] = @ - 1]
                        /\ waits'.place = [waits.place EXCEPT ![t] = "failed"]
                        /\ waits'.wakeups = waits.wakeups
                        BY <1>1, <4>1, <4>2 DEF Sound, Shape
                  <4>4. QED BY <4>1, <4>3 DEF Sound, Counted
            <3>2. CASE W!LeaveWoken(t)
                  <4>1. /\ waits.place[t] \in W!Unlocked /\ "succeeded" \in W!Done
                        /\ "succeeded" \in W!Places
                        /\ waits.waiters[c] - 1 \in Int
                        /\ waits.wakeups[c] - 1 \in 0..Cardinality(Threads)
                        /\ waits.wakeups[c] - 1 \in Int
                        BY <1>1, <3>2, FS_CardinalityType, RWAssumption
                           DEF W!LeaveWoken, W!Unlocked, W!Done, W!Places, Sound, Shape, Counted
                  <4>2. waits' = [waits EXCEPT !.place[t] = "succeeded",
                                    !.waiters[c] = @ - 1, !.wakeups[c] = @ - 1]
                        BY <3>2 DEF W!LeaveWoken
                  <4>3. /\ Shape(waits') /\ waits'.on = waits.on
                        /\ waits'.waiters = [waits.waiters EXCEPT ![c] = @ - 1]
                        /\ waits'.place = [waits.place EXCEPT ![t] = "succeeded"]
                        /\ waits'.wakeups = [waits.wakeups EXCEPT ![c] = @ - 1]
                        BY <1>1, <4>1, <4>2 DEF Sound, Shape
                  <4>4. QED BY <1>1, <4>1, <4>3 DEF Sound, Shape, Counted
            <3>3. QED BY <1>3, <3>1, <3>2
      <2>2. /\ W!Inside(waits', c) = W!Inside(waits, c) \ {t}
            /\ t \in W!Inside(waits, c)
            /\ \A b \in Conditions \ {c} : W!Inside(waits', b) = W!Inside(waits, b)
            BY <2>1 DEF Sound, Shape, W!Inside, W!Unlocked, W!Done
      <2>3. Cardinality(W!Inside(waits', c)) = Cardinality(W!Inside(waits, c)) - 1
            BY <2>2, InsideFinite, OneLess
      <2>4. Counted(waits')
            <3>1. /\ waits.waiters[c] = Cardinality(W!Inside(waits, c))
                  /\ waits'.waiters[c] = waits.waiters[c] - 1
                  BY <1>1, <2>1 DEF Sound, Shape, Counted
            <3>2. waits'.waiters[c] = Cardinality(W!Inside(waits', c))
                  BY <2>3, <3>1
            <3>3. ASSUME NEW b \in Conditions, b # c
                  PROVE  waits'.waiters[b] = Cardinality(W!Inside(waits', b))
                  <4>1. waits'.waiters[b] = waits.waiters[b]
                        BY <1>1, <2>1, <3>3 DEF Sound, Shape
                  <4>2. waits.waiters[b] = Cardinality(W!Inside(waits, b))
                        BY <1>1 DEF Sound, Counted
                  <4>3. W!Inside(waits', b) = W!Inside(waits, b)
                        BY <2>2, <3>3
                  <4>4. QED BY <4>1, <4>2, <4>3
            <3>4. QED BY <2>1, <3>2, <3>3 DEF Counted
      <2>5. QED BY <2>1, <2>4 DEF Sound, Shape, W!Unlocked, W!Done
<1>4. QED BY <1>2, <1>3 DEF W!Proceed

-----------------------------------------------------------------------------
(* Who waits for the lock, in and after wait() *)

\* The threads that wait for the lock are finitely many.
LEMMA WaitersFinite ==
  ASSUME NEW w, NEW c
  PROVE  /\ IsFiniteSet(Waiters(w, c))
         /\ Cardinality(Waiters(w, c)) \in 0..Cardinality(Threads)
<1>1. Waiters(w, c) \subseteq Threads
      BY DEF Waiters
<1>2. /\ IsFiniteSet(Waiters(w, c))
      /\ Cardinality(Waiters(w, c)) <= Cardinality(Threads)
      BY <1>1, FS_Subset, RWAssumption
<1>3. QED BY <1>2, FS_CardinalityType, RWAssumption

\* A thread joins those that wait ...
LEMMA WaiterJoins ==
  ASSUME NEW w, Shape(w), NEW x, NEW t \in Threads, NEW c \in Conditions,
         w.place[t] = "out",
         x.place = [w.place EXCEPT ![t] = "asleep"], x.on = [w.on EXCEPT ![t] = c]
  PROVE  /\ Cardinality(Waiters(x, c)) = Cardinality(Waiters(w, c)) + 1
         /\ \A b \in Conditions \ {c} : Waiters(x, b) = Waiters(w, b)
<1>1. /\ Waiters(x, c) = Waiters(w, c) \cup {t}
      /\ t \notin Waiters(w, c)
      /\ \A b \in Conditions \ {c} : Waiters(x, b) = Waiters(w, b)
      BY DEF Shape, Waiters
<1>2. QED BY <1>1, WaitersFinite, FS_AddElement

\* ... waits once more ...
LEMMA WaiterStays ==
  ASSUME NEW w, Shape(w), NEW x, NEW t \in Threads, NEW c \in Conditions,
         w.place[t] # "out", w.on[t] = c,
         x.place = [w.place EXCEPT ![t] = "asleep"], x.on = [w.on EXCEPT ![t] = c]
  PROVE  \A b \in Conditions : Waiters(x, b) = Waiters(w, b)
BY DEF Shape, Waiters

\* ... or leaves them.
LEMMA WaiterLeaves ==
  ASSUME NEW w, Shape(w), NEW x, NEW t \in Threads, NEW c \in Conditions,
         w.place[t] # "out", w.on[t] = c,
         x.place = [w.place EXCEPT ![t] = "out"], x.on = w.on
  PROVE  /\ Cardinality(Waiters(x, c)) = Cardinality(Waiters(w, c)) - 1
         /\ \A b \in Conditions \ {c} : Waiters(x, b) = Waiters(w, b)
<1>1. /\ Waiters(x, c) = Waiters(w, c) \ {t}
      /\ t \in Waiters(w, c)
      /\ \A b \in Conditions \ {c} : Waiters(x, b) = Waiters(w, b)
      BY DEF Shape, Waiters
<1>2. QED BY <1>1, WaitersFinite, OneLess

-----------------------------------------------------------------------------
(* How often the lock is held *)

\* ReadHolds is Holds(held), and WriteHolds is Holds(Negated(held)).
Holds(h)   == {p \in Threads \X (1..MaxDepth) : p[2] <= h[p[1]]}
Negated(h) == [t \in Threads |-> -h[t]]

\* What accessCount has to be.
Balance(h) == Cardinality(Holds(h)) - Cardinality(Holds(Negated(h)))

\* No more is held at a time than every thread can hold.
LEMMA HoldsFinite ==
  ASSUME NEW h
  PROVE  /\ IsFiniteSet(Holds(h))
         /\ Cardinality(Holds(h)) \in 0..(MaxDepth * Cardinality(Threads))
<1> DEFINE All == Threads \X (1..MaxDepth)
<1>1. IsFiniteSet(1..MaxDepth) /\ Cardinality(1..MaxDepth) = MaxDepth
      BY FS_Interval, RWAssumption
<1>2. IsFiniteSet(All) /\ Cardinality(All) = Cardinality(Threads) * MaxDepth
      BY <1>1, FS_Product, RWAssumption
<1>3. Holds(h) \subseteq All
      BY DEF Holds
<1>4. IsFiniteSet(Holds(h)) /\ Cardinality(Holds(h)) <= Cardinality(All)
      BY <1>2, <1>3, FS_Subset
<1>5. Cardinality(Threads) \in Nat /\ MaxDepth \in Nat
      BY FS_CardinalityType, RWAssumption
<1>6. Cardinality(Threads) * MaxDepth = MaxDepth * Cardinality(Threads)
      BY <1>5
<1>7. QED BY <1>2, <1>4, <1>5, <1>6, FS_CardinalityType

\* One more time means one more element.
LEMMA HoldsOnce ==
  ASSUME NEW h \in [Threads -> Int], NEW k \in [Threads -> Int], NEW t \in Threads,
         h[t] \in 0..(MaxDepth - 1), k[t] = h[t] + 1,
         \A s \in Threads \ {t} : k[s] = h[s]
  PROVE  Cardinality(Holds(k)) = Cardinality(Holds(h)) + 1
<1>1. Holds(k) = Holds(h) \cup {<<t, k[t]>>}
      BY RWAssumption DEF Holds
<1>2. <<t, k[t]>> \notin Holds(h)
      BY DEF Holds
<1>3. QED BY <1>1, <1>2, HoldsFinite, FS_AddElement

\* Threads that do not hold do not count.
LEMMA HoldsSame ==
  ASSUME NEW h \in [Threads -> Int], NEW k \in [Threads -> Int],
         \A s \in Threads : k[s] = h[s] \/ (k[s] <= 0 /\ h[s] <= 0)
  PROVE  Holds(k) = Holds(h)
BY RWAssumption DEF Holds

\* Holding once more for reading, or once less for writing, counts one up.
LEMMA BalanceUp ==
  ASSUME NEW h \in [Threads -> Int], NEW t \in Threads,
         h[t] \in -MaxDepth..(MaxDepth - 1),
         NEW k, k = [h EXCEPT ![t] = h[t] + 1]
  PROVE  Balance(h) \in Int /\ Balance(k) = Balance(h) + 1
<1> DEFINE n == Negated(h)
           m == Negated(k)
<1>1. /\ k \in [Threads -> Int] /\ k[t] = h[t] + 1
      /\ \A s \in Threads \ {t} : k[s] = h[s]
      OBVIOUS
<1>2. /\ n \in [Threads -> Int] /\ m \in [Threads -> Int]
      /\ h[t] \in Int /\ n[t] = -h[t] /\ m[t] = -h[t] - 1 /\ n[t] = m[t] + 1
      /\ \A s \in Threads \ {t} : n[s] = m[s] /\ n[s] = -h[s]
      BY <1>1 DEF Negated
<1>3. /\ Cardinality(Holds(h)) \in Int /\ Cardinality(Holds(k)) \in Int
      /\ Cardinality(Holds(n)) \in Int /\ Cardinality(Holds(m)) \in Int
      BY HoldsFinite, FS_CardinalityType
<1> HIDE DEF n, m
<1>4. CASE h[t] >= 0
      <2>1. h[t] \in 0..(MaxDepth - 1)
            BY <1>4, RWAssumption
      <2>2. Cardinality(Holds(k)) = Cardinality(Holds(h)) + 1
            BY <1>1, <2>1, HoldsOnce
      <2>3. Holds(m) = Holds(n)
            <3>1. \A s \in Threads : m[s] = n[s] \/ (m[s] <= 0 /\ n[s] <= 0)
                  BY <1>2, <1>4
            <3>2. QED BY <1>2, <3>1, HoldsSame
      <2>4. QED BY <1>3, <2>2, <2>3 DEF Balance, n, m
<1>5. CASE h[t] < 0
      <2>1. m[t] \in 0..(MaxDepth - 1)
            BY <1>2, <1>5, RWAssumption
      <2>2. Cardinality(Holds(n)) = Cardinality(Holds(m)) + 1
            BY <1>2, <2>1, HoldsOnce
      <2>3. Holds(k) = Holds(h)
            <3>1. \A s \in Threads : k[s] = h[s] \/ (k[s] <= 0 /\ h[s] <= 0)
                  BY <1>1, <1>5
            <3>2. QED BY <1>1, <3>1, HoldsSame
      <2>4. QED BY <1>3, <2>2, <2>3 DEF Balance, n, m
<1>6. QED BY <1>4, <1>5

\* The other way round, it counts one down.
LEMMA BalanceDown ==
  ASSUME NEW h \in [Threads -> Int], NEW t \in Threads,
         h[t] \in (1 - MaxDepth)..MaxDepth,
         NEW k, k = [h EXCEPT ![t] = h[t] - 1]
  PROVE  Balance(h) \in Int /\ Balance(k) = Balance(h) - 1
<1>1. h[t] \in Int /\ k[t] = h[t] - 1 /\ k \in [Threads -> Int]
      BY RWAssumption
<1>2. k[t] \in -MaxDepth..(MaxDepth - 1) /\ k[t] + 1 = h[t]
      BY <1>1, RWAssumption
<1>3. h = [k EXCEPT ![t] = k[t] + 1]
      BY <1>2
<1>4. Balance(k) \in Int /\ Balance(h) = Balance(k) + 1
      BY <1>1, <1>2, <1>3, BalanceUp
<1>5. QED BY <1>4

-----------------------------------------------------------------------------
(* The inductive invariant *)

\* At most one thread writes, alone, and accessCount is its depth.
WriterAlone ==
  \A t \in Threads :
    held[t] < 0 => accessCount = held[t] /\ \A s \in Threads \ {t} : held[s] = 0

HoldInv ==
  /\ accessCount \in Int
  /\ currentWriter \in Threads \cup {NoThread}
  /\ currentReaders \in [Threads -> Int]
  /\ held \in [Threads -> -MaxDepth..MaxDepth]
  /\ accessCount = Balance(held)
  /\ WriterAlone
  /\ HoldersKnown

WaitInv ==
  /\ Sound(waits)
  /\ waitingReaders = Cardinality(Waiters(waits, "readerWait"))
  /\ waitingWriters = Cardinality(Waiters(waits, "writerWait"))

\* A thread inside one of the functions holds nothing.
WaitersHoldNothing == \A t \in Threads : Calling(t) => held[t] = 0

IInv == HoldInv /\ WaitInv /\ WaitersHoldNothing

holds == <<accessCount, currentWriter, currentReaders, held>>

-----------------------------------------------------------------------------
(* Holding *)

\* A lock with accessCount >= 0 is not held for writing, one with
\* accessCount = 0 is free, and one that is held for reading has it positive.
LEMMA NobodyHolds ==
  ASSUME HoldInv
  PROVE  /\ accessCount >= 0 => \A s \in Threads : held[s] >= 0
         /\ accessCount = 0 => \A s \in Threads : held[s] = 0
         /\ \A t \in Threads : held[t] > 0 => accessCount > 0
<1>1. \A s \in Threads : held[s] \in Int /\ held[s] <= MaxDepth
      BY RWAssumption DEF HoldInv
<1>2. accessCount >= 0 => \A s \in Threads : held[s] >= 0
      BY <1>1 DEF HoldInv, WriterAlone
<1>3. ASSUME NEW t \in Threads, \A s \in Threads : held[s] >= 0, held[t] > 0
      PROVE  accessCount > 0
      <2>1. Holds(Negated(held)) = {}
            BY <1>1, <1>3 DEF Holds, Negated
      <2>2. <<t, 1>> \in Holds(held)
            BY <1>1, <1>3, RWAssumption DEF Holds
      <2>3. Cardinality(Holds(held)) \in Nat /\ Cardinality(Holds(held)) # 0
            BY <2>2, HoldsFinite, FS_EmptySet, FS_CardinalityType
      <2>4. QED BY <2>1, <2>3, FS_EmptySet DEF HoldInv, Balance
<1>4. ASSUME NEW t \in Threads, held[t] > 0 PROVE \A s \in Threads : held[s] >= 0
      BY <1>1, <1>4 DEF HoldInv, WriterAlone
<1>5. \A t \in Threads : held[t] > 0 => accessCount > 0
      BY <1>3, <1>4
<1>6. QED BY <1>1, <1>2, <1>5

\* A thread gets the lock for reading, on a lock nobody writes on.
LEMMA ReadHeld ==
  ASSUME HoldInv, NEW t \in Threads, held[t] = 0, accessCount >= 0, HoldForRead(t)
  PROVE  HoldInv'
<1>1. /\ \A s \in Threads : held[s] \in Int /\ held[s] >= 0
      /\ held \in [Threads -> Int]
      BY NobodyHolds, RWAssumption DEF HoldInv
<1>2. /\ held' = [held EXCEPT ![t] = held[t] + 1]
      /\ held' \in [Threads -> -MaxDepth..MaxDepth]
      /\ held[t] \in -MaxDepth..(MaxDepth - 1)
      BY RWAssumption DEF HoldForRead, HoldInv
<1>3. Balance(held) \in Int /\ Balance(held') = Balance(held) + 1
      BY <1>1, <1>2, BalanceUp
<1>4. accessCount' \in Int /\ accessCount' = Balance(held')
      BY <1>3 DEF HoldForRead, HoldInv
<1>5. WriterAlone'
      BY <1>1 DEF HoldForRead, HoldInv, WriterAlone
<1>6. currentReaders' \in [Threads -> Int] /\ currentWriter' \in Threads \cup {NoThread}
      BY DEF HoldForRead, HoldInv
<1>7. HoldersKnown'
      BY <1>1 DEF HoldForRead, HoldInv, HoldersKnown
<1>8. QED BY <1>2, <1>4, <1>5, <1>6, <1>7 DEF HoldInv

\* A thread gets the lock for writing, on a lock nobody holds.
LEMMA WriteHeld ==
  ASSUME HoldInv, NEW t \in Threads, accessCount = 0, HoldForWrite(t)
  PROVE  HoldInv'
<1>1. (\A s \in Threads : held[s] = 0) /\ held \in [Threads -> Int]
      BY NobodyHolds, RWAssumption DEF HoldInv
<1>2. /\ held' = [held EXCEPT ![t] = held[t] - 1]
      /\ held' \in [Threads -> -MaxDepth..MaxDepth]
      /\ held[t] \in (1 - MaxDepth)..MaxDepth
      <2>1. held[t] = 0 /\ -1 = held[t] - 1 /\ -1 \in -MaxDepth..MaxDepth
            BY <1>1, RWAssumption
      <2>2. QED BY <2>1, RWAssumption DEF HoldForWrite, HoldInv
<1>3. Balance(held) \in Int /\ Balance(held') = Balance(held) - 1
      BY <1>1, <1>2, BalanceDown
<1>4. accessCount' \in Int /\ accessCount' = Balance(held')
      BY <1>3 DEF HoldForWrite, HoldInv
<1>5. WriterAlone'
      BY <1>1 DEF HoldForWrite, HoldInv, WriterAlone
<1>6. currentReaders' \in [Threads -> Int] /\ currentWriter' \in Threads \cup {NoThread}
      BY DEF HoldForWrite, HoldInv
<1>7. HoldersKnown'
      BY <1>1, NoThreadAssumption DEF HoldForWrite, HoldInv, HoldersKnown
<1>8. QED BY <1>2, <1>4, <1>5, <1>6, <1>7 DEF HoldInv

\* One that reads already reads once more.
LEMMA ReadMore ==
  ASSUME HoldInv, NEW t \in Threads, ReadAgain(t)
  PROVE  HoldInv'
<1>1. /\ held \in [Threads -> Int] /\ held[t] \in 1..(MaxDepth - 1)
      /\ currentReaders[t] = held[t] /\ Recursive
      BY RWAssumption DEF ReadAgain, HoldInv, HoldersKnown
<1>2. /\ held' = [held EXCEPT ![t] = held[t] + 1]
      /\ held' \in [Threads -> -MaxDepth..MaxDepth]
      /\ held[t] \in -MaxDepth..(MaxDepth - 1)
      <2>1. held[t] + 1 \in -MaxDepth..MaxDepth /\ held[t] \in -MaxDepth..(MaxDepth - 1)
            BY <1>1, RWAssumption
      <2>2. QED BY <2>1 DEF ReadAgain, HoldInv
<1>3. Balance(held) \in Int /\ Balance(held') = Balance(held) + 1
      BY <1>1, <1>2, BalanceUp
<1>4. accessCount' \in Int /\ accessCount' = Balance(held')
      BY <1>3 DEF ReadAgain, HoldInv
<1>5. \A s \in Threads : held[s] >= 0 /\ held'[s] >= 0
      BY <1>1, <1>2, NobodyHolds DEF HoldInv
<1>6. WriterAlone' /\ HoldersKnown'
      BY <1>1, <1>5 DEF ReadAgain, HoldInv, WriterAlone, HoldersKnown
<1>7. currentReaders' \in [Threads -> Int] /\ currentWriter' \in Threads \cup {NoThread}
      BY DEF ReadAgain, HoldInv
<1>8. QED BY <1>2, <1>4, <1>6, <1>7 DEF HoldInv

\* One that writes already writes once more.
LEMMA WriteMore ==
  ASSUME HoldInv, NEW t \in Threads, WriteAgain(t)
  PROVE  HoldInv'
<1>1. /\ held \in [Threads -> Int] /\ held[t] \in (1 - MaxDepth)..(-1)
      /\ currentWriter = t /\ Recursive /\ accessCount = held[t]
      /\ \A s \in Threads \ {t} : held[s] = 0
      BY RWAssumption DEF WriteAgain, HoldInv, HoldersKnown, WriterAlone
<1>2. /\ held' = [held EXCEPT ![t] = held[t] - 1]
      /\ held' \in [Threads -> -MaxDepth..MaxDepth]
      /\ held[t] \in (1 - MaxDepth)..MaxDepth
      <2>1. held[t] - 1 \in -MaxDepth..MaxDepth /\ held[t] \in (1 - MaxDepth)..MaxDepth
            BY <1>1, RWAssumption
      <2>2. QED BY <2>1 DEF WriteAgain, HoldInv
<1>3. Balance(held) \in Int /\ Balance(held') = Balance(held) - 1
      BY <1>1, <1>2, BalanceDown
<1>4. accessCount' \in Int /\ accessCount' = Balance(held')
      BY <1>3 DEF WriteAgain, HoldInv
<1>5. held'[t] = held[t] - 1 /\ held'[t] < 0 /\ \A s \in Threads \ {t} : held'[s] = 0
      BY <1>1, <1>2
<1>6. WriterAlone' /\ HoldersKnown'
      BY <1>1, <1>5 DEF WriteAgain, HoldInv, WriterAlone, HoldersKnown
<1>7. currentReaders' \in [Threads -> Int] /\ currentWriter' \in Threads \cup {NoThread}
      BY DEF WriteAgain, HoldInv
<1>8. QED BY <1>2, <1>4, <1>6, <1>7 DEF HoldInv

\* One that holds lets go once.
LEMMA HeldLess ==
  ASSUME HoldInv, NEW t \in Threads, Unlock(t)
  PROVE  HoldInv'
<1>1. held \in [Threads -> Int] /\ held[t] \in -MaxDepth..MaxDepth /\ held[t] # 0
      BY RWAssumption DEF HoldInv, Unlock
<1>2. CASE held[t] > 0
      <2>1. /\ accessCount > 0 /\ \A s \in Threads : held[s] >= 0
            /\ accessCount' = accessCount - 1
            /\ currentReaders' = IF Recursive /\ currentReaders[t] > 0
                                 THEN [currentReaders EXCEPT ![t] = @ - 1]
                                 ELSE currentReaders
            /\ currentWriter' = currentWriter
            BY <1>2, NobodyHolds DEF HoldInv, Unlock
      <2>2. /\ held' = [held EXCEPT ![t] = held[t] - 1]
            /\ held' \in [Threads -> -MaxDepth..MaxDepth]
            /\ held[t] \in (1 - MaxDepth)..MaxDepth
            <3>1. held[t] - 1 \in -MaxDepth..MaxDepth /\ held[t] \in (1 - MaxDepth)..MaxDepth
                  BY <1>1, <1>2, RWAssumption
            <3>2. held' = [held EXCEPT ![t] = held[t] - 1]
                  BY <1>2 DEF Unlock
            <3>3. QED BY <3>1, <3>2 DEF HoldInv
      <2>3. Balance(held) \in Int /\ Balance(held') = Balance(held) - 1
            BY <1>1, <2>2, BalanceDown
      <2>4. accessCount' \in Int /\ accessCount' = Balance(held')
            BY <2>1, <2>3 DEF HoldInv
      <2>5. \A s \in Threads : held'[s] >= 0
            BY <1>1, <1>2, <2>1, <2>2
      <2>6. WriterAlone'
            BY <1>1, <2>2, <2>5 DEF HoldInv, WriterAlone
      <2>7. currentReaders' \in [Threads -> Int]
            <3>1. currentReaders[t] - 1 \in Int
                  BY DEF HoldInv
            <3>2. QED BY <2>1, <3>1 DEF HoldInv
      <2>8. HoldersKnown'
            BY <1>1, <1>2, <2>1, <2>2, <2>5 DEF HoldInv, HoldersKnown
      <2>9. QED BY <2>1, <2>2, <2>4, <2>6, <2>7, <2>8 DEF HoldInv
<1>3. CASE held[t] < 0
      <2>1. /\ accessCount = held[t] /\ \A s \in Threads \ {t} : held[s] = 0
            /\ accessCount' = accessCount + 1
            /\ currentWriter' = IF accessCount = -1 THEN NoThread ELSE currentWriter
            /\ currentReaders' = currentReaders
            BY <1>1, <1>3 DEF HoldInv, WriterAlone, Unlock
      <2>2. /\ held' = [held EXCEPT ![t] = held[t] + 1]
            /\ held' \in [Threads -> -MaxDepth..MaxDepth]
            /\ held[t] \in -MaxDepth..(MaxDepth - 1)
            <3>1. held[t] + 1 \in -MaxDepth..MaxDepth /\ held[t] \in -MaxDepth..(MaxDepth - 1)
                  BY <1>1, <1>3, RWAssumption
            <3>2. ~(held[t] > 0)
                  BY <1>1, <1>3
            <3>3. held' = [held EXCEPT ![t] = held[t] + 1]
                  BY <3>2 DEF Unlock
            <3>4. QED BY <3>1, <3>3 DEF HoldInv
      <2>3. Balance(held) \in Int /\ Balance(held') = Balance(held) + 1
            BY <1>1, <2>2, BalanceUp
      <2>4. accessCount' \in Int /\ accessCount' = Balance(held')
            <3>1. accessCount = Balance(held) /\ accessCount' = accessCount + 1
                  BY <2>1 DEF HoldInv
            <3>2. QED BY <2>3, <3>1
      <2>5. held'[t] = held[t] + 1 /\ held'[t] <= 0 /\ \A s \in Threads \ {t} : held'[s] = 0
            BY <1>1, <1>3, <2>1, <2>2
      <2>6. WriterAlone'
            BY <1>1, <2>1, <2>5 DEF HoldInv, WriterAlone
      <2>7. HoldersKnown'
            BY <1>1, <1>3, <2>1, <2>5, NoThreadAssumption DEF HoldInv, HoldersKnown
      <2>8. QED BY <2>1, <2>2, <2>4, <2>6, <2>7 DEF HoldInv
<1>4. QED BY <1>1, <1>2, <1>3

\* No step spoils what is known of the holders.
LEMMA HoldInductive ==
  ASSUME IInv, [Next]_vars
  PROVE  HoldInv'
<1> USE DEF IInv
<1>1. ASSUME UNCHANGED holds PROVE HoldInv'
      BY <1>1 DEF holds, HoldInv, WriterAlone, HoldersKnown
<1>2. CASE UNCHANGED vars
      BY <1>1, <1>2 DEF vars, counts, holds
<1>3. ASSUME NEW t \in Threads,
             \/ ReadAgain(t) \/ LockForRead(t) \/ ReaderWakes(t) \/ TryLockForRead(t)
             \/ WriteAgain(t) \/ LockForWrite(t) \/ WriterWakes(t) \/ TryLockForWrite(t)
             \/ Unlock(t) \/ Waiting(t)
      PROVE  HoldInv'
      <2>1. CASE ReadAgain(t)
            BY <2>1, ReadMore
      <2>2. CASE LockForRead(t)
            <3>1. \/ UNCHANGED holds
                  \/ held[t] = 0 /\ accessCount >= 0 /\ HoldForRead(t)
                  BY <2>2 DEF LockForRead, ReadersMustWait, holds, HoldInv
            <3>2. QED BY <1>1, <3>1, ReadHeld
      <2>3. CASE ReaderWakes(t)
            <3>1. held[t] = 0
                  BY <2>3 DEF ReaderWakes, WaitersHoldNothing, Calling, W!Done
            <3>2. \/ UNCHANGED holds
                  \/ accessCount >= 0 /\ HoldForRead(t)
                  BY <2>3 DEF ReaderWakes, ReadersMustWait, holds, counts, HoldInv
            <3>3. QED BY <1>1, <3>1, <3>2, ReadHeld
      <2>4. CASE TryLockForRead(t)
            BY <2>4, ReadHeld DEF TryLockForRead
      <2>5. CASE WriteAgain(t)
            BY <2>5, WriteMore
      <2>6. CASE LockForWrite(t)
            <3>1. UNCHANGED holds \/ (accessCount = 0 /\ HoldForWrite(t))
                  BY <2>6 DEF LockForWrite, holds
            <3>2. QED BY <1>1, <3>1, WriteHeld
      <2>7. CASE WriterWakes(t)
            <3>1. UNCHANGED holds \/ (accessCount = 0 /\ HoldForWrite(t))
                  BY <2>7 DEF WriterWakes, holds, counts
            <3>2. QED BY <1>1, <3>1, WriteHeld
      <2>8. CASE TryLockForWrite(t)
            BY <2>8, WriteHeld DEF TryLockForWrite
      <2>9. CASE Unlock(t)
            BY <2>9, HeldLess
      <2>10. CASE Waiting(t)
            BY <1>1, <2>10 DEF Waiting, counts, holds
      <2>11. QED BY <1>3, <2>1, <2>2, <2>3, <2>4, <2>5, <2>6, <2>7, <2>8, <2>9, <2>10
<1>4. QED BY <1>2, <1>3 DEF Next

-----------------------------------------------------------------------------
(* Waiting *)

\* How many wait changes with the threads that wait, and with nothing else.
LEMMA SameWaiters ==
  ASSUME NEW w, NEW x, NEW c, x.on = w.on,
         \A s \in Threads : x.place[s] = "out" <=> w.place[s] = "out"
  PROVE  Waiters(x, c) = Waiters(w, c)
BY DEF Waiters

\* A reader or writer that has to wait is counted in, once.
LEMMA CountedIn ==
  ASSUME WaitInv, NEW t \in Threads, waits.place[t] = "out",
         NEW c \in Conditions, NEW timed \in BOOLEAN,
         waits' = W!AfterBegin(waits, t, c, timed)
  PROVE  /\ Sound(waits')
         /\ waits'.place = [waits.place EXCEPT ![t] = "asleep"]
         /\ Cardinality(Waiters(waits', c)) = Cardinality(Waiters(waits, c)) + 1
         /\ \A b \in Conditions \ {c} : Waiters(waits', b) = Waiters(waits, b)
<1>1. /\ Sound(waits')
      /\ waits'.place = [waits.place EXCEPT ![t] = "asleep"]
      /\ waits'.on = [waits.on EXCEPT ![t] = c]
      BY BeginSound DEF WaitInv, W!Unlocked
<1>2. QED BY <1>1, WaiterJoins DEF WaitInv, Sound

\* One that has to wait again is not counted again.
LEMMA CountedStill ==
  ASSUME WaitInv, NEW t \in Threads, waits.place[t] \in W!Done,
         NEW c \in Conditions, waits.on[t] = c,
         waits' = W!AfterBegin(waits, t, c, waits.timed[t])
  PROVE  /\ Sound(waits')
         /\ waits'.place = [waits.place EXCEPT ![t] = "asleep"]
         /\ \A b \in Conditions : Waiters(waits', b) = Waiters(waits, b)
<1>1. waits.timed[t] \in BOOLEAN
      BY Zenon DEF WaitInv, Sound, Shape
<1>2. waits.place[t] \notin W!Unlocked /\ waits.place[t] # "out"
      BY DEF W!Unlocked, W!Done
<1>3. /\ Sound(waits')
      /\ waits'.place = [waits.place EXCEPT ![t] = "asleep"]
      /\ waits'.on = [waits.on EXCEPT ![t] = c]
      BY <1>1, <1>2, BeginSound DEF WaitInv
<1>4. QED BY <1>2, <1>3, WaiterStays DEF WaitInv, Sound

\* One that comes back is counted out.
LEMMA CountedOut ==
  ASSUME WaitInv, NEW t \in Threads, waits.place[t] \in W!Done,
         NEW c \in Conditions, waits.on[t] = c,
         waits' = W!AfterReturn(waits, t)
  PROVE  /\ Sound(waits')
         /\ Cardinality(Waiters(waits', c)) = Cardinality(Waiters(waits, c)) - 1
         /\ \A b \in Conditions \ {c} : Waiters(waits', b) = Waiters(waits, b)
<1>1. /\ Sound(waits')
      /\ waits'.place = [waits.place EXCEPT ![t] = "out"]
      /\ waits'.on = waits.on
      BY ReturnSound DEF WaitInv
<1>2. waits.place[t] # "out"
      BY DEF W!Done
<1>3. QED BY <1>1, <1>2, WaiterLeaves DEF WaitInv, Sound

\* The counts of the lock follow those that wait.
LEMMA CountsFollow ==
  ASSUME WaitInv, Sound(waits'),
         \A c \in Conditions : Waiters(waits', c) = Waiters(waits, c),
         UNCHANGED <<waitingReaders, waitingWriters>>
  PROVE  WaitInv'
BY DEF WaitInv, Conditions

\* Waking up changes nothing about who waits.
LEMMA WakeNextKept ==
  ASSUME WaitInv, WakeNext \/ UNCHANGED waits, UNCHANGED <<waitingReaders, waitingWriters>>
  PROVE  WaitInv'
<1>1. "readerWait" \in Conditions /\ "writerWait" \in Conditions
      BY DEF Conditions
<1>2. waits' = waits \/ (Sound(waits') /\ Roused(waits, waits'))
      BY <1>1, WakeOneSound, WakeAllSound DEF WakeNext, WaitInv
<1>3. CASE waits' = waits
      BY <1>3 DEF WaitInv
<1>4. CASE Sound(waits') /\ Roused(waits, waits')
      <2>1. /\ waits'.on = waits.on
            /\ \A s \in Threads : waits'.place[s] = "out" <=> waits.place[s] = "out"
            BY <1>4 DEF Roused
      <2>2. \A c \in Conditions : Waiters(waits', c) = Waiters(waits, c)
            BY <2>1, SameWaiters
      <2>3. QED BY <1>4, <2>2, CountsFollow
<1>5. QED BY <1>2, <1>3, <1>4

\* No step spoils the counts of those that wait.
LEMMA WaitInductive ==
  ASSUME WaitInv, [Next]_vars
  PROVE  WaitInv'
<1>1. "readerWait" \in Conditions /\ "writerWait" \in Conditions
      BY DEF Conditions
<1>2. "readerWait" \in Conditions \ {"writerWait"} /\ "writerWait" \in Conditions \ {"readerWait"}
      BY DEF Conditions
<1>3. ASSUME UNCHANGED <<waits, waitingReaders, waitingWriters>> PROVE WaitInv'
      BY <1>3 DEF WaitInv
<1>4. CASE UNCHANGED vars
      BY <1>3, <1>4 DEF vars, counts
<1>5. ASSUME NEW t \in Threads,
             \/ ReadAgain(t) \/ LockForRead(t) \/ ReaderWakes(t) \/ TryLockForRead(t)
             \/ WriteAgain(t) \/ LockForWrite(t) \/ WriterWakes(t) \/ TryLockForWrite(t)
             \/ Unlock(t) \/ Waiting(t)
      PROVE  WaitInv'
      <2>1. CASE ReadAgain(t)
            BY <1>3, <2>1 DEF ReadAgain
      <2>2. CASE LockForRead(t)
            <3>1. CASE UNCHANGED <<waits, waitingReaders, waitingWriters>>
                  BY <1>3, <3>1
            <3>2. CASE /\ \E timed \in BOOLEAN :
                            waits' = W!AfterBegin(waits, t, "readerWait", timed)
                       /\ waitingReaders' = waitingReaders + 1 /\ UNCHANGED waitingWriters
                  <4>1. waits.place[t] = "out"
                        BY <2>2 DEF LockForRead, Calling
                  <4>2. /\ Sound(waits')
                        /\ Cardinality(Waiters(waits', "readerWait"))
                             = Cardinality(Waiters(waits, "readerWait")) + 1
                        /\ \A c \in Conditions \ {"readerWait"} :
                             Waiters(waits', c) = Waiters(waits, c)
                        BY <1>1, <3>2, <4>1, CountedIn
                  <4>3. QED BY <1>2, <3>2, <4>2 DEF WaitInv
            <3>3. QED BY <2>2, <3>1, <3>2 DEF LockForRead, HoldForRead
      <2>3. CASE ReaderWakes(t)
            <3>1. waits.place[t] \in W!Done /\ waits.on[t] = "readerWait"
                  BY <2>3 DEF ReaderWakes
            <3>2. CASE /\ waits' = W!AfterReturn(waits, t)
                       /\ waitingReaders' = waitingReaders - 1 /\ UNCHANGED waitingWriters
                  <4>1. /\ Sound(waits')
                        /\ Cardinality(Waiters(waits', "readerWait"))
                             = Cardinality(Waiters(waits, "readerWait")) - 1
                        /\ \A c \in Conditions \ {"readerWait"} :
                             Waiters(waits', c) = Waiters(waits, c)
                        BY <1>1, <3>1, <3>2, CountedOut
                  <4>2. QED BY <1>2, <3>2, <4>1 DEF WaitInv
            <3>3. CASE /\ waits' = W!AfterBegin(waits, t, "readerWait", waits.timed[t])
                       /\ UNCHANGED <<waitingReaders, waitingWriters>>
                  <4>1. /\ Sound(waits')
                        /\ \A c \in Conditions : Waiters(waits', c) = Waiters(waits, c)
                        BY <1>1, <3>1, <3>3, CountedStill
                  <4>2. QED BY <3>3, <4>1, CountsFollow
            <3>4. QED BY <2>3, <3>2, <3>3 DEF ReaderWakes, HoldForRead, counts
      <2>4. CASE TryLockForRead(t)
            BY <1>3, <2>4 DEF TryLockForRead, HoldForRead
      <2>5. CASE WriteAgain(t)
            BY <1>3, <2>5 DEF WriteAgain
      <2>6. CASE LockForWrite(t)
            <3>1. CASE UNCHANGED <<waits, waitingReaders, waitingWriters>>
                  BY <1>3, <3>1
            <3>2. CASE /\ \E timed \in BOOLEAN :
                            waits' = W!AfterBegin(waits, t, "writerWait", timed)
                       /\ waitingWriters' = waitingWriters + 1 /\ UNCHANGED waitingReaders
                  <4>1. waits.place[t] = "out"
                        BY <2>6 DEF LockForWrite, Calling
                  <4>2. /\ Sound(waits')
                        /\ Cardinality(Waiters(waits', "writerWait"))
                             = Cardinality(Waiters(waits, "writerWait")) + 1
                        /\ \A c \in Conditions \ {"writerWait"} :
                             Waiters(waits', c) = Waiters(waits, c)
                        BY <1>1, <3>2, <4>1, CountedIn
                  <4>3. QED BY <1>2, <3>2, <4>2 DEF WaitInv
            <3>3. QED BY <2>6, <3>1, <3>2 DEF LockForWrite, HoldForWrite
      <2>7. CASE WriterWakes(t)
            <3>1. waits.place[t] \in W!Done /\ waits.on[t] = "writerWait"
                  BY <2>7 DEF WriterWakes
            <3>2. CASE /\ waits' = W!AfterReturn(waits, t)
                       /\ waitingWriters' = waitingWriters - 1 /\ UNCHANGED waitingReaders
                  <4>1. /\ Sound(waits')
                        /\ Cardinality(Waiters(waits', "writerWait"))
                             = Cardinality(Waiters(waits, "writerWait")) - 1
                        /\ \A c \in Conditions \ {"writerWait"} :
                             Waiters(waits', c) = Waiters(waits, c)
                        BY <1>1, <3>1, <3>2, CountedOut
                  <4>2. QED BY <1>2, <3>2, <4>1 DEF WaitInv
            <3>3. CASE /\ waits' = W!AfterBegin(waits, t, "writerWait", waits.timed[t])
                       /\ UNCHANGED <<waitingReaders, waitingWriters>>
                  <4>1. /\ Sound(waits')
                        /\ \A c \in Conditions : Waiters(waits', c) = Waiters(waits, c)
                        BY <1>1, <3>1, <3>3, CountedStill
                  <4>2. QED BY <3>3, <4>1, CountsFollow
            <3>4. QED BY <2>7, <3>2, <3>3 DEF WriterWakes, HoldForWrite, counts
      <2>8. CASE TryLockForWrite(t)
            BY <1>3, <2>8 DEF TryLockForWrite, HoldForWrite
      <2>9. CASE Unlock(t)
            BY <2>9, WakeNextKept DEF Unlock
      <2>10. CASE Waiting(t)
            <3>1. /\ Sound(waits')
                  /\ waits'.on = waits.on
                  /\ \A s \in Threads : waits'.place[s] = "out" <=> waits.place[s] = "out"
                  BY <2>10, WaitingSound DEF Waiting, WaitInv
            <3>2. \A c \in Conditions : Waiters(waits', c) = Waiters(waits, c)
                  BY <3>1, SameWaiters
            <3>3. QED BY <2>10, <3>1, <3>2, CountsFollow DEF Waiting, counts
      <2>11. QED BY <1>5, <2>1, <2>2, <2>3, <2>4, <2>5, <2>6, <2>7, <2>8, <2>9, <2>10
<1>6. QED BY <1>4, <1>5 DEF Next

\* Whoever calls has to hold nothing, and gets the lock only on its way out.
LEMMA WaitersKept ==
  ASSUME IInv, [Next]_vars
  PROVE  WaitersHoldNothing'
<1> USE DEF IInv
<1>1. /\ held \in [Threads -> -MaxDepth..MaxDepth] /\ Sound(waits)
      /\ waits.place \in [Threads -> W!Places] /\ "out" \notin W!Done
      BY DEF HoldInv, WaitInv, Sound, Shape, W!Done
<1>2. CASE UNCHANGED vars
      BY <1>2 DEF vars, WaitersHoldNothing, Calling
<1>3. ASSUME NEW t \in Threads,
             \A s \in Threads \ {t} :
               held'[s] = held[s] /\ (waits'.place[s] = "out" <=> waits.place[s] = "out"),
             waits'.place[t] = "out" \/ held'[t] = 0
      PROVE  WaitersHoldNothing'
      BY <1>3 DEF WaitersHoldNothing, Calling
<1>4. ASSUME NEW t \in Threads,
             ReadAgain(t) \/ TryLockForRead(t) \/ WriteAgain(t) \/ TryLockForWrite(t)
      PROVE  WaitersHoldNothing'
      <2>1. /\ waits' = waits /\ waits.place[t] = "out"
            /\ \E n : held' = [held EXCEPT ![t] = n]
            BY <1>4 DEF ReadAgain, TryLockForRead, WriteAgain, TryLockForWrite, Calling,
                        HoldForRead, HoldForWrite
      <2>2. QED BY <1>1, <1>3, <2>1
<1>5. ASSUME NEW t \in Threads, LockForRead(t) \/ LockForWrite(t)
      PROVE  WaitersHoldNothing'
      <2>1. CASE waits' = waits
            <3>1. waits.place[t] = "out" /\ \E n : held' = [held EXCEPT ![t] = n]
                  BY <1>1, <1>5, <2>1 DEF LockForRead, LockForWrite, Calling,
                                          HoldForRead, HoldForWrite
            <3>2. QED BY <1>1, <1>3, <2>1, <3>1
      <2>2. CASE /\ \E c \in Conditions, timed \in BOOLEAN :
                      waits' = W!AfterBegin(waits, t, c, timed)
                 /\ held' = held
            <3>1. held[t] = 0 /\ waits.place[t] = "out"
                  BY <1>5 DEF LockForRead, LockForWrite, Calling
            <3>2. PICK c \in Conditions, timed \in BOOLEAN :
                    waits' = W!AfterBegin(waits, t, c, timed)
                  BY <2>2
            <3>3. waits'.place = [waits.place EXCEPT ![t] = "asleep"]
                  BY <3>1, <3>2, CountedIn
            <3>4. QED BY <1>1, <1>3, <2>2, <3>1, <3>3
      <2>3. QED BY <1>5, <2>1, <2>2 DEF LockForRead, LockForWrite, Conditions
<1>6. ASSUME NEW t \in Threads, ReaderWakes(t) \/ WriterWakes(t)
      PROVE  WaitersHoldNothing'
      <2>1. waits.place[t] \in W!Done /\ held[t] = 0
            BY <1>6 DEF ReaderWakes, WriterWakes, WaitersHoldNothing, Calling, W!Done
      <2>2. CASE waits' = W!AfterReturn(waits, t) /\ \E n : held' = [held EXCEPT ![t] = n]
            <3>1. waits'.place = [waits.place EXCEPT ![t] = "out"]
                  BY <1>1, <2>1, <2>2, ReturnSound
            <3>2. QED BY <1>1, <1>3, <2>2, <3>1
      <2>3. CASE /\ \E c \in Conditions :
                      waits.on[t] = c /\ waits' = W!AfterBegin(waits, t, c, waits.timed[t])
                 /\ held' = held
            <3>1. PICK c \in Conditions :
                    waits.on[t] = c /\ waits' = W!AfterBegin(waits, t, c, waits.timed[t])
                  BY <2>3
            <3>2. waits'.place = [waits.place EXCEPT ![t] = "asleep"]
                  BY <2>1, <3>1, CountedStill
            <3>3. QED BY <1>1, <1>3, <2>1, <2>3, <3>2
      <2>4. held' = held => \E n : held' = [held EXCEPT ![t] = n]
            <3>1. held = [held EXCEPT ![t] = held[t]]
                  BY <1>1
            <3>2. QED BY <3>1
      <2>5. QED BY <1>6, <2>2, <2>3, <2>4 DEF ReaderWakes, WriterWakes, Conditions,
                                             HoldForRead, HoldForWrite, counts
<1>7. ASSUME NEW t \in Threads, Unlock(t) PROVE WaitersHoldNothing'
      <2>1. waits.place[t] = "out" /\ \E n : held' = [held EXCEPT ![t] = n]
            BY <1>7 DEF Unlock, Calling
      <2>2. waits' = waits \/ Roused(waits, waits')
            BY <1>1, <1>7, WakeOneSound, WakeAllSound DEF Unlock, WakeNext, Conditions
      <2>3. \A s \in Threads : waits'.place[s] = "out" <=> waits.place[s] = "out"
            BY <2>2 DEF Roused
      <2>4. QED BY <1>1, <1>3, <2>1, <2>3
<1>8. ASSUME NEW t \in Threads, Waiting(t) PROVE WaitersHoldNothing'
      <2>1. \A s \in Threads : waits'.place[s] = "out" <=> waits.place[s] = "out"
            BY <1>1, <1>8, WaitingSound DEF Waiting
      <2>2. QED BY <1>8, <2>1 DEF Waiting, WaitersHoldNothing, Calling
<1>9. QED BY <1>2, <1>4, <1>5, <1>6, <1>7, <1>8 DEF Next

\* The inductive invariant holds at first ...
LEMMA InitIInv == Init => IInv
<1> SUFFICES ASSUME Init PROVE IInv
      OBVIOUS
<1>1. /\ held = [t \in Threads |-> 0] /\ \A t \in Threads : held[t] = 0
      /\ held \in [Threads -> -MaxDepth..MaxDepth]
      BY RWAssumption DEF Init
<1>2. Balance(held) = 0
      <2>1. Holds(held) = {} /\ Holds(Negated(held)) = {}
            BY <1>1, RWAssumption DEF Holds, Negated
      <2>2. QED BY <2>1, FS_EmptySet DEF Balance
<1>3. WriterAlone /\ HoldersKnown
      BY <1>1, NoThreadAssumption DEF Init, WriterAlone, HoldersKnown
<1>4. HoldInv
      BY <1>1, <1>2, <1>3 DEF Init, HoldInv
<1>5. /\ waits.place = [t \in Threads |-> "out"]
      /\ waits.waiters = [c \in Conditions |-> 0]
      /\ waits.wakeups = [c \in Conditions |-> 0]
      BY DEF Init, W!Start, Conditions
<1>6. Shape(waits)
      <2> DEFINE zero  == [c \in Conditions |-> 0]
                 place == [t \in Threads |-> "out"]
                 on    == [t \in Threads |-> CHOOSE c \in Conditions : TRUE]
                 timed == [t \in Threads |-> FALSE]
      <2>1. waits = [waiters |-> zero, wakeups |-> zero, place |-> place, on |-> on,
                     timed |-> timed]
            BY DEF Init, W!Start, Conditions
      <2>2. zero \in [Conditions -> Int] /\ place \in [Threads -> W!Places]
            BY DEF W!Places
      <2>3. on \in [Threads -> Conditions]
            <3>1. (CHOOSE c \in Conditions : TRUE) \in Conditions
                  BY DEF Conditions
            <3>2. QED BY <3>1
      <2>4. timed \in [Threads -> BOOLEAN]
            BY Zenon
      <2> HIDE DEF zero, place, on, timed
      <2>5. QED BY <2>1, <2>2, <2>3, <2>4 DEF Shape
<1>7. \A c : W!Inside(waits, c) = {} /\ Waiters(waits, c) = {}
      BY <1>5 DEF W!Inside, W!Unlocked, Waiters
<1>8. Cardinality({}) = 0 /\ Cardinality(Threads) \in Nat
      BY FS_EmptySet, FS_CardinalityType, RWAssumption
<1>9. Counted(waits)
      BY <1>5, <1>7, <1>8 DEF Counted
<1>10. WaitInv
      BY <1>6, <1>7, <1>8, <1>9 DEF Init, WaitInv, Sound
<1>11. WaitersHoldNothing
      BY <1>1 DEF WaitersHoldNothing
<1>12. QED BY <1>4, <1>10, <1>11 DEF IInv

\* ... and always.
LEMMA Invariance == Spec => []IInv
<1>1. IInv /\ [Next]_vars => IInv'
      <2> SUFFICES ASSUME IInv, [Next]_vars PROVE IInv'
            OBVIOUS
      <2>1. HoldInv' /\ WaitersHoldNothing'
            BY HoldInductive, WaitersKept
      <2>2. WaitInv'
            BY WaitInductive DEF IInv
      <2>3. QED BY <2>1, <2>2 DEF IInv
<1>2. QED BY <1>1, InitIInv, PTL DEF Spec

-----------------------------------------------------------------------------
(* Theorems *)

\* The two modules count alike.
LEMMA SameCardinality == \A S : W!Cardinality(S) = Cardinality(S)
BY Zenon DEF W!Cardinality, Cardinality


\* The types and bounds of the lock's fields: accessCount stays between -MaxDepth
\* and MaxDepth for each thread, and no count of waiting threads passes their
\* number, so that none of the ints of QReadWriteLockPrivate can run away.
THEOREM TypeCorrect == Spec => []TypeOK
<1>1. IInv => TypeOK
      <2> SUFFICES ASSUME IInv PROVE TypeOK
            OBVIOUS
      <2> USE DEF IInv
      <2>1. accessCount \in -MaxDepth..(MaxDepth * Cardinality(Threads))
            <3> DEFINE most == MaxDepth * Cardinality(Threads)
            <3>1. accessCount \in Int /\ accessCount = Balance(held)
                  BY DEF HoldInv
            <3>2. /\ Cardinality(Threads) \in Nat /\ MaxDepth \in Nat \ {0} /\ most \in Nat
                  /\ Cardinality(Holds(held)) \in 0..most
                  /\ Cardinality(Holds(Negated(held))) \in 0..most
                  BY HoldsFinite, FS_CardinalityType, RWAssumption
            <3> HIDE DEF most
            <3>3. accessCount <= most
                  BY <3>1, <3>2 DEF Balance
            <3>4. accessCount >= -MaxDepth
                  <4>1. ASSUME NEW t \in Threads, held[t] < 0 PROVE accessCount >= -MaxDepth
                        BY <4>1, <3>2 DEF HoldInv, WriterAlone
                  <4>2. ASSUME \A t \in Threads : ~(held[t] < 0) PROVE accessCount >= -MaxDepth
                        <5>1. \A t \in Threads : held[t] \in Int /\ held[t] >= 0
                              BY <4>2, <3>2 DEF HoldInv
                        <5>2. Holds(Negated(held)) = {}
                              BY <5>1 DEF Holds, Negated
                        <5>3. QED BY <3>1, <3>2, <5>2, FS_EmptySet DEF Balance
                  <4>3. QED BY <4>1, <4>2
            <3>5. QED BY <3>1, <3>2, <3>3, <3>4 DEF most
      <2>2. /\ waitingReaders \in 0..Cardinality(Threads)
            /\ waitingWriters \in 0..Cardinality(Threads)
            BY WaitersFinite DEF WaitInv
      <2>3. /\ currentWriter \in Threads \cup {NoThread}
            /\ held \in [Threads -> -MaxDepth..MaxDepth]
            BY DEF HoldInv
      <2>4. currentReaders \in [Threads -> 0..MaxDepth]
            <3>1. \A t \in Threads : currentReaders[t] \in 0..MaxDepth
                  BY RWAssumption DEF HoldInv, HoldersKnown
            <3>2. QED BY <3>1 DEF HoldInv
      <2>5. W!TypeOK
            <3>1. /\ Shape(waits)
                  /\ \A c \in Conditions : /\ waits.waiters[c] \in 0..Cardinality(Threads)
                                          /\ waits.wakeups[c] \in 0..Cardinality(Threads)
                  BY InsideFinite DEF WaitInv, Sound, Counted
            <3>2. /\ waits.waiters \in [Conditions -> 0..Cardinality(Threads)]
                  /\ waits.wakeups \in [Conditions -> 0..Cardinality(Threads)]
                  BY <3>1 DEF Shape
            <3>3. QED BY <3>1, <3>2, SameCardinality DEF Shape, W!TypeOK, Conditions
      <2>6. QED BY <2>1, <2>2, <2>3, <2>4, <2>5 DEF TypeOK
<1>2. QED BY <1>1, Invariance, PTL

\* accessCount, waitingReaders and waitingWriters say the truth, whatever the
\* order in which threads wait, time out, are woken and come back.
THEOREM Books == Spec => []BooksExact
<1>1. IInv => BooksExact
      <2> SUFFICES ASSUME IInv PROVE BooksExact
            OBVIOUS
      <2>1. ReadHolds = Holds(held)
            BY DEF ReadHolds, Holds
      <2>2. WriteHolds = Holds(Negated(held))
            BY DEF WriteHolds, Holds, Negated
      <2>3. \A c : InWait(c) = Waiters(waits, c)
            BY DEF InWait, Waiters, Calling
      <2>4. QED BY <2>1, <2>2, <2>3 DEF IInv, HoldInv, WaitInv, Balance, BooksExact
<1>2. QED BY <1>1, Invariance, PTL

\* waiters of both wait conditions is the number of threads inside wait().
THEOREM Waits == Spec => []WaitersExact
<1>1. IInv => WaitersExact
      BY SameCardinality DEF IInv, WaitInv, Sound, Counted, WaitersExact, W!WaitersExact, Conditions
<1>2. QED BY <1>1, Invariance, PTL

\* currentWriter and currentReaders name exactly those that hold a recursive lock.
THEOREM Holders == Spec => []HoldersKnown
<1>1. IInv => HoldersKnown
      BY DEF IInv, HoldInv
<1>2. QED BY <1>1, Invariance, PTL

\* The code's lock is a read-write lock: readers share it, a writer has it for
\* itself, and only as deep as clients go.
THEOREM Implementation == Spec => ImplementsReadWrite
<1>1. Init => RW!Init
      BY DEF Init, RW!Init
<1>2. IInv /\ [Next]_vars => [RW!Next]_held
      <2> SUFFICES ASSUME IInv, [Next]_vars PROVE [RW!Next]_held
            OBVIOUS
      <2> USE DEF IInv
      <2>1. /\ held \in [Threads -> Int]
            /\ \A s \in Threads : held[s] \in -MaxDepth..MaxDepth
            BY RWAssumption DEF HoldInv
      <2>2. ASSUME NEW t \in Threads, held[t] = 0, accessCount >= 0, HoldForRead(t)
            PROVE  RW!LockForRead(t)
            BY <2>1, <2>2, NobodyHolds, RWAssumption DEF HoldForRead, RW!LockForRead
      <2>3. ASSUME NEW t \in Threads, accessCount = 0, HoldForWrite(t)
            PROVE  RW!LockForWrite(t)
            <3>1. \A s \in Threads : held[s] = 0
                  BY <2>3, NobodyHolds
            <3>2. -held[t] \in 0..(MaxDepth - 1) /\ -1 = held[t] - 1
                  BY <3>1, RWAssumption
            <3>3. QED BY <2>3, <3>1, <3>2 DEF HoldForWrite, RW!LockForWrite
      <2>4. CASE UNCHANGED vars
            BY <2>4 DEF vars
      <2>5. ASSUME NEW t \in Threads, ReadAgain(t) PROVE RW!LockForRead(t)
            <3>1. held[t] \in 1..(MaxDepth - 1)
                  BY <2>1, <2>5, RWAssumption DEF ReadAgain, HoldInv, HoldersKnown
            <3>2. \A s \in Threads : held[s] >= 0
                  <4>1. held[t] > 0 /\ accessCount \in Int
                        BY <3>1, RWAssumption DEF HoldInv
                  <4>2. accessCount >= 0
                        BY <4>1, NobodyHolds
                  <4>3. QED BY <4>2, NobodyHolds
            <3>3. QED BY <2>5, <3>1, <3>2 DEF ReadAgain, RW!LockForRead
      <2>6. ASSUME NEW t \in Threads, WriteAgain(t) PROVE RW!LockForWrite(t)
            <3>1. held[t] < 0 /\ -held[t] \in 0..(MaxDepth - 1)
                  BY <2>1, <2>6, RWAssumption DEF WriteAgain, HoldInv, HoldersKnown
            <3>2. \A s \in Threads \ {t} : held[s] = 0
                  BY <3>1 DEF HoldInv, WriterAlone
            <3>3. QED BY <2>6, <3>1, <3>2 DEF WriteAgain, RW!LockForWrite
      <2>7. ASSUME NEW t \in Threads, LockForRead(t) \/ ReaderWakes(t) \/ TryLockForRead(t)
            PROVE  RW!LockForRead(t) \/ UNCHANGED held
            <3>1. \/ held' = held
                  \/ held[t] = 0 /\ accessCount >= 0 /\ HoldForRead(t)
                  BY <2>7 DEF LockForRead, ReaderWakes, TryLockForRead, ReadersMustWait, HoldInv,
                              WaitersHoldNothing, Calling, W!Done
            <3>2. QED BY <2>2, <3>1
      <2>8. ASSUME NEW t \in Threads, LockForWrite(t) \/ WriterWakes(t) \/ TryLockForWrite(t)
            PROVE  RW!LockForWrite(t) \/ UNCHANGED held
            <3>1. held' = held \/ (accessCount = 0 /\ HoldForWrite(t))
                  BY <2>8 DEF LockForWrite, WriterWakes, TryLockForWrite
            <3>2. QED BY <2>3, <3>1
      <2>9. ASSUME NEW t \in Threads, Unlock(t) PROVE RW!Unlock(t)
            BY <2>9 DEF Unlock, RW!Unlock
      <2>10. ASSUME NEW t \in Threads, Waiting(t) PROVE UNCHANGED held
            BY <2>10 DEF Waiting
      <2>11. QED BY <2>4, <2>5, <2>6, <2>7, <2>8, <2>9, <2>10 DEF Next, RW!Next
<1>3. QED BY <1>1, <1>2, Invariance, PTL DEF Spec, ImplementsReadWrite, RW!Spec
=============================================================================
