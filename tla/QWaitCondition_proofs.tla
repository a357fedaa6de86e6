------------------------ MODULE QWaitCondition_proofs -----------------------
(***************************************************************************)
(* What wait(), wakeOne() and wakeAll() do to the books of any wait        *)
(* conditions, for any finite set of threads.  The proofs about the        *)
(* components that use QWaitCondition instantiate these lemmas.            *)
(***************************************************************************)
EXTENDS QWaitCondition, FiniteSetTheorems, TLAPS

\* waits has its fields, ...
Shape(w) ==
  w \in [waiters : [Conditions -> Int], wakeups : [Conditions -> Int],
         place : [Threads -> Places], on : [Threads -> Conditions],
         timed : [Threads -> BOOLEAN]]

\* ... waiters is the number of threads inside wait(), and wakeups is within bounds.
Counted(w) ==
  \A c \in Conditions :
    /\ w.waiters[c] = Cardinality(Inside(w, c))
    /\ w.wakeups[c] \in 0..Cardinality(Threads)

Sound(w) == Shape(w) /\ Counted(w)

\* What others see of waking threads up: nothing but that.
Roused(w, x) ==
  /\ x.on = w.on /\ x.timed = w.timed
  /\ \A t \in Threads : \/ x.place[t] = w.place[t]
                        \/ w.place[t] = "asleep" /\ x.place[t] = "signalled"

\* One element less, said so that the provers find it.
LEMMA OneLess ==
  ASSUME NEW S, IsFiniteSet(S), NEW x \in S, NEW R, R = S \ {x}
  PROVE  Cardinality(R) = Cardinality(S) - 1
BY FS_RemoveElement

\* The threads inside a condition are finitely many.
LEMMA InsideFinite ==
  ASSUME IsFiniteSet(Threads), NEW w, NEW c
  PROVE  /\ IsFiniteSet(Inside(w, c))
         /\ Cardinality(Inside(w, c)) \in 0..Cardinality(Threads)
<1>1. Inside(w, c) \subseteq Threads
      BY DEF Inside
<1>2. /\ IsFiniteSet(Inside(w, c))
      /\ Cardinality(Inside(w, c)) <= Cardinality(Threads)
      BY <1>1, FS_Subset
<1>3. QED BY <1>2, FS_CardinalityType

\* A thread that begins to wait is counted, and nobody else moves.
LEMMA BeginSound ==
  ASSUME IsFiniteSet(Threads), NEW w, Sound(w), NEW t \in Threads, w.place[t] \notin Unlocked,
         NEW c \in Conditions, NEW timed \in BOOLEAN
  PROVE  LET x == AfterBegin(w, t, c, timed)
         IN  /\ Sound(x)
             /\ x.place = [w.place EXCEPT ![t] = "asleep"]
             /\ x.on = [w.on EXCEPT ![t] = c]
<1> DEFINE x == AfterBegin(w, t, c, timed)
<1> DEFINE limits == [w.timed EXCEPT ![t] = timed]
           y == [w EXCEPT !.waiters[c] = @ + 1, !.place[t] = "asleep", !.on[t] = c]
<1>a. limits \in [Threads -> BOOLEAN]
      BY Zenon DEF Sound, Shape
<1>b. Shape(y) /\ y.timed = w.timed
      <2>1. w.waiters[c] + 1 \in Int /\ "asleep" \in Places
            BY DEF Sound, Shape, Places, Unlocked
      <2>2. QED BY <2>1 DEF Sound, Shape
<1>c. x = [y EXCEPT !.timed = limits]
      BY DEF Sound, Shape, AfterBegin
<1>1. /\ Shape(x)
      /\ x.place = [w.place EXCEPT ![t] = "asleep"]
      /\ x.on = [w.on EXCEPT ![t] = c]
      /\ x.waiters = [w.waiters EXCEPT ![c] = @ + 1]
      /\ x.wakeups = w.wakeups
      <2> HIDE DEF limits, x
      <2> QED BY <1>a, <1>b, <1>c DEF Sound, Shape
<1>2. /\ Inside(x, c) = Inside(w, c) \cup {t}
      /\ t \notin Inside(w, c)
      /\ \A b \in Conditions \ {c} : Inside(x, b) = Inside(w, b)
      BY <1>1 DEF Sound, Shape, Inside, Unlocked
<1>3. Cardinality(Inside(x, c)) = Cardinality(Inside(w, c)) + 1
      <2>1. IsFiniteSet(Inside(w, c))
            BY InsideFinite
      <2>2. Cardinality(Inside(w, c) \cup {t}) = Cardinality(Inside(w, c)) + 1
            BY <1>2, <2>1, FS_AddElement
      <2>3. QED BY <1>2, <2>2
<1>4. Counted(x)
      BY <1>1, <1>2, <1>3, InsideFinite DEF Sound, Shape, Counted
<1>5. QED BY <1>1, <1>4 DEF Sound

\* Waking up changes no count of waiters.
LEMMA RousedSound ==
  ASSUME NEW w, Sound(w), NEW x, Shape(x), Roused(w, x), x.waiters = w.waiters,
         \A c \in Conditions : x.wakeups[c] \in 0..Cardinality(Threads)
  PROVE  Sound(x)
<1>1. \A c \in Conditions : Inside(x, c) = Inside(w, c)
      BY DEF Sound, Shape, Roused, Inside, Unlocked
<1>2. QED BY <1>1 DEF Sound, Counted

\* wakeOne() makes no more wake-ups than there are waiters, and moves nobody out.
LEMMA WakeOneSound ==
  ASSUME IsFiniteSet(Threads), NEW w, Sound(w), NEW c \in Conditions, NEW x \in AfterWakeOne(w, c)
  PROVE  Sound(x) /\ Roused(w, x)
<1> DEFINE n == IF w.wakeups[c] + 1 <= w.waiters[c] THEN w.wakeups[c] + 1
                                                   ELSE w.waiters[c]
           counted == [w EXCEPT !.wakeups[c] = n]
<1>1. /\ n \in 0..Cardinality(Threads) /\ n \in Int
      /\ Cardinality(Threads) \in Nat
      BY InsideFinite, FS_CardinalityType DEF Sound, Shape, Counted
<1>2. x = counted \/ \E s \in Asleep(w, c) : x = [counted EXCEPT !.place[s] = "signalled"]
      BY DEF AfterWakeOne, Sound, Shape
<1>3. ASSUME x = counted PROVE Sound(x) /\ Roused(w, x)
      <2>1. /\ Shape(x) /\ Roused(w, x) /\ x.waiters = w.waiters
            /\ x.wakeups = [w.wakeups EXCEPT ![c] = n]
            BY <1>1, <1>3 DEF Sound, Shape, Roused
      <2>2. \A b \in Conditions : x.wakeups[b] \in 0..Cardinality(Threads)
            BY <1>1, <2>1 DEF Sound, Shape, Counted
      <2>3. QED BY <2>1, <2>2, RousedSound
<1>4. ASSUME NEW s \in Asleep(w, c), x = [counted EXCEPT !.place[s] = "signalled"]
      PROVE  Sound(x) /\ Roused(w, x)
      <2>1. /\ Shape(x) /\ Roused(w, x) /\ x.waiters = w.waiters
            /\ x.wakeups = [w.wakeups EXCEPT ![c] = n]
            BY <1>1, <1>4 DEF Sound, Shape, Roused, Asleep, Inside, Places, Unlocked
      <2>2. \A b \in Conditions : x.wakeups[b] \in 0..Cardinality(Threads)
            BY <1>1, <2>1 DEF Sound, Shape, Counted
      <2>3. QED BY <2>1, <2>2, RousedSound
<1>5. QED BY <1>2, <1>3, <1>4

\* Nor does wakeAll().
LEMMA WakeAllSound ==
  ASSUME IsFiniteSet(Threads), NEW w, Sound(w), NEW c \in Conditions
  PROVE  Sound(AfterWakeAll(w, c)) /\ Roused(w, AfterWakeAll(w, c))
<1> DEFINE x == AfterWakeAll(w, c)
<1>1. /\ Shape(x) /\ Roused(w, x) /\ x.waiters = w.waiters
      /\ x.wakeups = [w.wakeups EXCEPT ![c] = w.waiters[c]]
      BY DEF Sound, Shape, Roused, AfterWakeAll, Asleep, Inside, Places, Unlocked
<1>2. \A b \in Conditions : x.wakeups[b] \in 0..Cardinality(Threads)
      BY <1>1, InsideFinite DEF Sound, Shape, Counted
<1>3. QED BY <1>1, <1>2, RousedSound

\* A thread that comes back with its answer was counted out before.
LEMMA ReturnSound ==
  ASSUME NEW w, Sound(w), NEW t \in Threads, w.place[t] \in Done
  PROVE  LET x == AfterReturn(w, t)
         IN  /\ Sound(x)
             /\ x.place = [w.place EXCEPT ![t] = "out"]
             /\ x.on = w.on
<1> DEFINE x == AfterReturn(w, t)
<1>1. /\ Shape(x)
      /\ x.place = [w.place EXCEPT ![t] = "out"]
      /\ x.on = w.on /\ x.waiters = w.waiters /\ x.wakeups = w.wakeups
      BY DEF Sound, Shape, AfterReturn, Places, Done
<1>2. \A c \in Conditions : Inside(x, c) = Inside(w, c)
      BY <1>1 DEF Sound, Shape, Inside, Unlocked, Done
<1>3. QED BY <1>1, <1>2 DEF Sound, Counted

\* Threads inside wait() stay there, counted as long as they have to be.
LEMMA WaitingSound ==
  ASSUME IsFiniteSet(Threads), Sound(waits), NEW t \in Threads,
         Timeout(t) \/ SpuriousWakeup(t) \/ Proceed(t)
  PROVE  /\ Sound(waits')
         /\ waits'.on = waits.on
         /\ \A s \in Threads : waits'.place[s] = "out" <=> waits.place[s] = "out"
<1> DEFINE c == waits.on[t]
<1>1. c \in Conditions
      BY DEF Sound, Shape
<1>2. CASE Timeout(t) \/ SpuriousWakeup(t) \/ WaitAgain(t)
      <2>1. PICK p \in Unlocked :
              waits.place[t] \in Unlocked /\ waits' = [waits EXCEPT !.place[t] = p]
            BY <1>2 DEF Timeout, SpuriousWakeup, WaitAgain, Unlocked
      <2>2. /\ Shape(waits') /\ waits'.on = waits.on
            /\ waits'.waiters = waits.waiters /\ waits'.wakeups = waits.wakeups
            /\ waits'.place = [waits.place EXCEPT ![t] = p]
            BY <2>1 DEF Sound, Shape, Places
      <2>3. \A b \in Conditions : Inside(waits', b) = Inside(waits, b)
            BY <2>1, <2>2 DEF Sound, Shape, Inside
      <2>4. QED BY <2>1, <2>2, <2>3 DEF Sound, Shape, Counted, Unlocked
<1>3. CASE LeaveTimedOut(t) \/ LeaveWoken(t)
      <2>1. PICK p \in Done :
              /\ Shape(waits') /\ waits'.on = waits.on
              /\ waits'.waiters = [waits.waiters EXCEPT ![c] = @ - 1]
              /\ waits'.place = [waits.place EXCEPT ![t] = p]
              /\ waits.place[t] \in Unlocked
              /\ \A b \in Conditions : waits'.wakeups[b] \in 0..Cardinality(Threads)
            <3>1. CASE LeaveTimedOut(t)
                  <4>1. /\ waits.place[t] \in Unlocked /\ "failed" \in Done
                        /\ "failed" \in Places
                        /\ waits.waiters[c] - 1 \in Int
                        BY <1>1, <3>1 DEF LeaveTimedOut, Unlocked, Done, Places,
                                          Sound, Shape
                  <4>2. waits' = [waits EXCEPT !.place[t] = "failed", !.waiters[c] = @ - 1]
                        BY <3>1 DEF LeaveTimedOut
                  <4>3. /\ Shape(waits') /\ waits'.on = waits.on
                        /\ waits'.waiters = [waits.waiters EXCEPT ![c] = @ - 1]
                        /\ waits'.place = [waits.place EXCEPT ![t] = "failed"]
                        /\ waits'.wakeups = waits.wakeups
                        BY <1>1, <4>1, <4>2 DEF Sound, Shape
                  <4>4. QED BY <4>1, <4>3 DEF Sound, Counted
            <3>2. CASE LeaveWoken(t)
                  <4>1. /\ waits.place[t] \in Unlocked /\ "succeeded" \in Done
                        /\ "succeeded" \in Places
                        /\ waits.waiters[c] - 1 \in Int
                        /\ waits.wakeups[c] - 1 \in 0..Cardinality(Threads)
                        /\ waits.wakeups[c] - 1 \in Int
                        BY <1>1, <3>2, FS_CardinalityType
                           DEF LeaveWoken, Unlocked, Done, Places, Sound, Shape, Counted
                  <4>2. waits' = [waits EXCEPT !.place[t] = "succeeded",
                                    !.waiters[c] = @ - 1, !.wakeups[c] = @ - 1]
                        BY <3>2 DEF LeaveWoken
                  <4>3. /\ Shape(waits') /\ waits'.on = waits.on
                        /\ waits'.waiters = [waits.waiters EXCEPT ![c] = @ - 1]
                        /\ waits'.place = [waits.place EXCEPT ![t] = "succeeded"]
                        /\ waits'.wakeups = [waits.wakeups EXCEPT ![c] = @ - 1]
                        BY <1>1, <4>1, <4>2 DEF Sound, Shape
                  <4>4. QED BY <1>1, <4>1, <4>3 DEF Sound, Shape, Counted
            <3>3. QED BY <1>3, <3>1, <3>2
      <2>2. /\ Inside(waits', c) = Inside(waits, c) \ {t}
            /\ t \in Inside(waits, c)
            /\ \A b \in Conditions \ {c} : Inside(waits', b) = Inside(waits, b)
            BY <2>1 DEF Sound, Shape, Inside, Unlocked, Done
      <2>3. Cardinality(Inside(waits', c)) = Cardinality(Inside(waits, c)) - 1
            BY <2>2, InsideFinite, OneLess
      <2>4. Counted(waits')
            <3>1. /\ waits.waiters[c] = Cardinality(Inside(waits, c))
                  /\ waits'.waiters[c] = waits.waiters[c] - 1
                  BY <1>1, <2>1 DEF Sound, Shape, Counted
            <3>2. waits'.waiters[c] = Cardinality(Inside(waits', c))
                  BY <2>3, <3>1
            <3>3. ASSUME NEW b \in Conditions, b # c
                  PROVE  waits'.waiters[b] = Cardinality(Inside(waits', b))
                  <4>1. waits'.waiters[b] = waits.waiters[b]
                        BY <1>1, <2>1, <3>3 DEF Sound, Shape
                  <4>2. waits.waiters[b] = Cardinality(Inside(waits, b))
                        BY <1>1 DEF Sound, Counted
                  <4>3. Inside(waits', b) = Inside(waits, b)
                        BY <2>2, <3>3
                  <4>4. QED BY <4>1, <4>2, <4>3
            <3>4. QED BY <2>1, <3>2, <3>3 DEF Counted
      <2>5. QED BY <2>1, <2>4 DEF Sound, Shape, Unlocked, Done
<1>4. QED BY <1>2, <1>3 DEF Proceed

-----------------------------------------------------------------------------
(* Without spurious wake-ups *)

Signalled(w, c) == {t \in Inside(w, c) : w.place[t] = "signalled"}

\* Nobody is awake without a signal, and there is a wake-up for each signal.
Promised(w) ==
  /\ \A t \in Threads : w.place[t] # "stirred"
  /\ \A c \in Conditions : Cardinality(Signalled(w, c)) <= w.wakeups[c]

\* The signalled threads are finitely many, and waiters.
LEMMA SignalledFinite ==
  ASSUME IsFiniteSet(Threads), NEW w, NEW c
  PROVE  /\ IsFiniteSet(Signalled(w, c)) /\ Cardinality(Signalled(w, c)) \in Nat
         /\ Cardinality(Signalled(w, c)) <= Cardinality(Inside(w, c))
         /\ \A s \in Asleep(w, c) : Cardinality(Signalled(w, c)) + 1 <= Cardinality(Inside(w, c))
<1>1. IsFiniteSet(Inside(w, c)) /\ Signalled(w, c) \subseteq Inside(w, c)
      BY InsideFinite DEF Signalled
<1>2. IsFiniteSet(Signalled(w, c)) /\ Cardinality(Signalled(w, c)) <= Cardinality(Inside(w, c))
      BY <1>1, FS_Subset
<1>3. ASSUME NEW s \in Asleep(w, c)
      PROVE  Cardinality(Signalled(w, c)) + 1 <= Cardinality(Inside(w, c))
      <2> DEFINE T == Signalled(w, c) \cup {s}
      <2>1. T \subseteq Inside(w, c) /\ s \notin Signalled(w, c)
            BY DEF Signalled, Asleep
      <2>2. Cardinality(T) = Cardinality(Signalled(w, c)) + 1
            BY <1>2, <2>1, FS_AddElement
      <2> HIDE DEF T
      <2>3. Cardinality(T) <= Cardinality(Inside(w, c))
            BY <1>1, <2>1, FS_Subset
      <2>4. QED BY <2>2, <2>3
<1>4. QED BY <1>2, <1>3, FS_CardinalityType

\* Beginning to wait and coming back do not change who is signalled.
LEMMA BeginPromised ==
  ASSUME IsFiniteSet(Threads), NEW w, Sound(w), Promised(w), NEW t \in Threads,
         w.place[t] \notin Unlocked, NEW c \in Conditions, NEW timed \in BOOLEAN
  PROVE  Promised(AfterBegin(w, t, c, timed))
<1> DEFINE x == AfterBegin(w, t, c, timed)
<1>1. /\ x.place = [w.place EXCEPT ![t] = "asleep"] /\ x.on = [w.on EXCEPT ![t] = c]
      /\ x.wakeups = w.wakeups
      /\ w.place \in [Threads -> Places] /\ w.on \in [Threads -> Conditions]
      BY DEF AfterBegin, Sound, Shape
<1> HIDE DEF x
<1>2. \A b \in Conditions : Signalled(x, b) = Signalled(w, b)
      BY <1>1 DEF Signalled, Inside, Unlocked
<1>3. QED BY <1>1, <1>2 DEF Promised, x

\* The answer of wait() is no signal.
LEMMA ReturnPromised ==
  ASSUME NEW w, Sound(w), Promised(w), NEW t \in Threads, w.place[t] \in Done
  PROVE  Promised(AfterReturn(w, t))
<1> DEFINE x == AfterReturn(w, t)
<1>1. /\ x.place = [w.place EXCEPT ![t] = "out"] /\ x.on = w.on /\ x.wakeups = w.wakeups
      /\ w.place \in [Threads -> Places]
      BY DEF AfterReturn, Sound, Shape
<1> HIDE DEF x
<1>2. \A b \in Conditions : Signalled(x, b) = Signalled(w, b)
      BY <1>1 DEF Signalled, Inside, Unlocked, Done
<1>3. QED BY <1>1, <1>2 DEF Promised, x

\* wakeOne() signals one and makes a wake-up for it, ...
LEMMA WakeOnePromised ==
  ASSUME IsFiniteSet(Threads), NEW w, Sound(w), Promised(w), NEW c \in Conditions,
         NEW x \in AfterWakeOne(w, c)
  PROVE  Promised(x)
<1> DEFINE n == IF w.wakeups[c] + 1 <= w.waiters[c] THEN w.wakeups[c] + 1
                                                   ELSE w.waiters[c]
           counted == [w EXCEPT !.wakeups[c] = n]
<1>1. /\ w.wakeups \in [Conditions -> Int] /\ w.place \in [Threads -> Places]
      /\ w.on \in [Threads -> Conditions]
      /\ w.wakeups[c] \in Int /\ w.waiters[c] = Cardinality(Inside(w, c))
      /\ Cardinality(Inside(w, c)) \in Int
      BY InsideFinite DEF Sound, Shape, Counted
<1>2. Cardinality(Signalled(w, c)) <= w.wakeups[c]
      BY DEF Promised
<1>3. CASE Asleep(w, c) = {}
      <2>1. x = counted
            BY <1>3 DEF AfterWakeOne, Sound, Shape
      <2>2. x.place = w.place /\ x.on = w.on /\ x.wakeups = [w.wakeups EXCEPT ![c] = n]
            BY <1>1, <2>1 DEF Sound, Shape
      <2> HIDE DEF counted
      <2>3. \A b \in Conditions : Signalled(x, b) = Signalled(w, b)
            BY <2>2 DEF Signalled, Inside
      <2>4. Cardinality(Signalled(w, c)) <= n
            BY <1>1, <1>2, SignalledFinite
      <2> HIDE DEF n
      <2>5. QED BY <1>1, <2>2, <2>3, <2>4 DEF Promised
<1>4. CASE Asleep(w, c) # {}
      <2>1. PICK s \in Asleep(w, c) : x = [counted EXCEPT !.place[s] = "signalled"]
            BY <1>4 DEF AfterWakeOne, Sound, Shape
      <2>2. /\ x.place = [w.place EXCEPT ![s] = "signalled"] /\ x.on = w.on
            /\ x.wakeups = [w.wakeups EXCEPT ![c] = n]
            BY <1>1, <2>1 DEF Sound, Shape
      <2>3. s \in Threads /\ w.place[s] = "asleep" /\ w.on[s] = c
            BY DEF Asleep, Inside
      <2> HIDE DEF counted
      <2>4. \A b \in Conditions \ {c} : Signalled(x, b) = Signalled(w, b)
            BY <1>1, <2>2, <2>3 DEF Signalled, Inside, Unlocked
      <2>5. Signalled(x, c) = Signalled(w, c) \cup {s} /\ s \notin Signalled(w, c)
            BY <1>1, <2>2, <2>3 DEF Signalled, Inside, Unlocked
      <2>6. Cardinality(Signalled(x, c)) = Cardinality(Signalled(w, c)) + 1
            BY <2>5, SignalledFinite, FS_AddElement
      <2>7. Cardinality(Signalled(w, c)) \in Nat
            /\ Cardinality(Signalled(w, c)) + 1 <= Cardinality(Inside(w, c))
            BY SignalledFinite
      <2>8. Cardinality(Signalled(x, c)) <= n
            BY <1>1, <1>2, <2>6, <2>7
      <2> HIDE DEF n
      <2>9. QED BY <1>1, <2>2, <2>3, <2>4, <2>8 DEF Promised
<1>5. QED BY <1>3, <1>4

\* ... and wakeAll() as many as there can be signalled.
LEMMA WakeAllPromised ==
  ASSUME IsFiniteSet(Threads), NEW w, Sound(w), Promised(w), NEW c \in Conditions
  PROVE  Promised(AfterWakeAll(w, c))
<1> DEFINE x == AfterWakeAll(w, c)
<1>1. /\ x.on = w.on /\ x.wakeups = [w.wakeups EXCEPT ![c] = w.waiters[c]]
      /\ x.place = [t \in Threads |-> IF t \in Asleep(w, c) THEN "signalled" ELSE w.place[t]]
      /\ w.wakeups \in [Conditions -> Int]
      BY DEF AfterWakeAll, Sound, Shape
<1> HIDE DEF x
<1>2. \A b \in Conditions \ {c} : Signalled(x, b) = Signalled(w, b)
      BY <1>1 DEF Signalled, Inside, Asleep, Unlocked
<1>3. Signalled(x, c) \subseteq Inside(w, c)
      BY <1>1 DEF Signalled, Inside, Asleep, Unlocked
<1>4. Cardinality(Signalled(x, c)) <= w.waiters[c]
      BY <1>3, InsideFinite, FS_Subset DEF Sound, Counted
<1>5. QED BY <1>1, <1>2, <1>4 DEF Promised, x

\* A thread that was signalled finds a wake-up, and leaves one for each of the others.
LEMMA WaitingPromised ==
  ASSUME IsFiniteSet(Threads), ~SpuriousWakeups, Sound(waits), Promised(waits),
         NEW t \in Threads, Timeout(t) \/ SpuriousWakeup(t) \/ Proceed(t)
  PROVE  /\ Promised(waits')
         /\ \A s \in Threads : waits.place[s] = "signalled" => waits'.place[s] # "asleep"
<1> DEFINE c == waits.on[t]
<1>1. /\ waits.place \in [Threads -> Places] /\ waits.on \in [Threads -> Conditions]
      /\ waits.wakeups \in [Conditions -> Int] /\ c \in Conditions
      BY DEF Sound, Shape
<1>2. CASE Timeout(t) \/ LeaveTimedOut(t)
      <2>1. PICK p \in {"timedOut", "failed"} :
              /\ waits.place[t] # "signalled"
              /\ waits'.place = [waits.place EXCEPT ![t] = p] /\ waits'.on = waits.on
              /\ waits'.wakeups = waits.wakeups
            BY <1>1, <1>2 DEF Timeout, LeaveTimedOut, Sound, Shape
      <2>2. \A b \in Conditions : Signalled(waits', b) = Signalled(waits, b)
            BY <1>1, <2>1 DEF Signalled, Inside, Unlocked
      <2>3. QED BY <1>1, <2>1, <2>2 DEF Promised
<1>3. CASE LeaveWoken(t)
      <2>1. /\ waits.place[t] = "signalled" /\ waits.wakeups[c] # 0
            /\ waits'.place = [waits.place EXCEPT ![t] = "succeeded"] /\ waits'.on = waits.on
            /\ waits'.wakeups = [waits.wakeups EXCEPT ![c] = @ - 1]
            BY <1>1, <1>3 DEF LeaveWoken, Sound, Shape, Promised
      <2>2. /\ Signalled(waits', c) = Signalled(waits, c) \ {t}
            /\ t \in Signalled(waits, c)
            /\ \A b \in Conditions \ {c} : Signalled(waits', b) = Signalled(waits, b)
            BY <1>1, <2>1 DEF Signalled, Inside, Unlocked
      <2>3. Cardinality(Signalled(waits', c)) = Cardinality(Signalled(waits, c)) - 1
            BY <2>2, SignalledFinite, OneLess
      <2>4. /\ Cardinality(Signalled(waits, c)) <= waits.wakeups[c] /\ waits.wakeups[c] \in Int
            /\ Cardinality(Signalled(waits, c)) \in Nat
            BY <1>1, SignalledFinite DEF Promised
      <2>5. QED BY <1>1, <2>1, <2>2, <2>3, <2>4 DEF Promised
<1>4. ~WaitAgain(t)
      <2>1. SUFFICES ASSUME WaitAgain(t) PROVE FALSE
            OBVIOUS
      <2>2. waits.place[t] = "signalled" /\ waits.wakeups[c] = 0
            BY <1>1, <2>1 DEF WaitAgain, Promised
      <2>3. t \in Signalled(waits, c)
            BY <2>2 DEF Signalled, Inside, Unlocked
      <2>4. Cardinality(Signalled(waits, c)) = 0
            BY <1>1, <2>2, SignalledFinite DEF Promised
      <2>5. QED BY <2>3, <2>4, SignalledFinite, FS_EmptySet
<1>5. QED BY <1>2, <1>3, <1>4 DEF SpuriousWakeup, Proceed
=============================================================================
