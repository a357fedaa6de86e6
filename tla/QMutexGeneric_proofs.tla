------------------------ MODULE QMutexGeneric_proofs ------------------------
(***************************************************************************)
(* For any threads, mutexes and privates: the generic mutex excludes, its  *)
(* books are right, and no wake-up is lost, in the schedules Unhurried     *)
(* asks for.                                                               *)
(***************************************************************************)
EXTENDS QMutexGeneric, FiniteSetTheorems, TLAPS

Held    == Referenced \cup Settling \cup Grabbed \cup Leaving
InHand  == Held \cup {"install", "flag", "ref"}

\* What the variables hold; a thread has a private in its hands at these places.
PrivateFields == [refCount : Nat, waiters : Int, possiblyUnlocked : BOOLEAN, wakeup : BOOLEAN]

Fields ==
  /\ d_ptr \in [Mutexes -> {0, 1} \cup Privates]
  /\ priv \in [Privates -> PrivateFields]
  /\ pc \in [Threads -> Places]
  /\ mutex \in [Threads -> Mutexes]
  /\ timeout \in [Threads -> Timeouts \cup {"zero"}]
  /\ d \in [Threads -> Privates \cup {NoPrivate}]
  /\ \A t \in Threads : d[t] \in Privates <=> pc[t] \in InHand

\* Only the step after the grab comes before other threads' steps.
OneHurried == \A s, t \in Threads : pc[s] = "clearWaiters" /\ pc[t] = "clearWaiters" => s = t

\* The thread has seen its private in the word while it held a reference.
Past == (Held \ {"recheck", "dropAndRetry", "dropAndFail"})

\* In one life a private serves one mutex; nobody knows a new one.
ServesOne ==
  /\ \A m, n \in Mutexes : d_ptr[m] \in Privates /\ d_ptr[m] = d_ptr[n] => m = n
  /\ \A t \in Threads : pc[t] \in Past => \A m \in Mutexes : d_ptr[m] = d[t] => m = mutex[t]
  /\ \A t \in Threads : pc[t] = "install" =>
       /\ \A m \in Mutexes : d_ptr[m] # d[t]
       /\ \A s \in Threads : s # t /\ d[s] = d[t] => pc[s] \notin Past \cup {"install"}

\* A private that has left the word does not come back, and it does not leave it while
\* somebody waits, owns the mutex, or hands it on.
Off == {"uncount", "verifyUncounted", "lowerFlag", "dropLowered", "settle", "clearWaiters"}
On  == {"wait", "sleeping", "woken", "timedOut", "settleTransfer", "wakeUp"} \cup Settling

WordSound ==
  \A t \in Threads : /\ pc[t] \in Off => Word(t) # d[t]
                     /\ pc[t] \in On  => Word(t) = d[t]

\* The threads that have a mutex, or are giving it up
Holders(m) ==
  Owners(m) \cup {t \in Threads : /\ mutex[t] = m /\ d[t] = d_ptr[m]
                                  /\ pc[t] \in {"clearWord", "settleTransfer", "wakeUp"}}

\* There is at most one of them; none if the mutex is free, and none if and only if the
\* wake-up is there to be taken, when the mutex has a private.
BatonOf(m) ==
  /\ d_ptr[m] = 0 => Owners(m) = {}
  /\ d_ptr[m] = 1 => Owners(m) # {}
  /\ d_ptr[m] \in Privates => (priv[d_ptr[m]].wakeup <=> Holders(m) = {})
  /\ \A s, t \in Holders(m) : s = t

Baton ==
  /\ \A m \in Mutexes : BatonOf(m)
  /\ \A p \in Privates : priv[p].wakeup => \E m \in Mutexes : d_ptr[m] = p

CountedOn(p) == {t \in Threads : d[t] = p /\ pc[t] \in Counted \cup Settling}

Unlocking(p, places) == \E u \in Threads : d[u] = p /\ pc[u] \in places

Clearing == {"clearWord", "lowerFlag", "dropLowered", "settle"}

\* waiters is the number of counted threads, less BigNumber while an unlock is under
\* way; who finds it to be -BigNumber has to be quick to grab the mutex.
CountOf(p) ==
  LET n == Cardinality(CountedOn(p))
  IN  \/ priv[p].waiters = n
      \/ priv[p].waiters = n - BigNumber /\ n = 0 /\ Unlocking(p, Clearing)
      \/ priv[p].waiters = n - BigNumber /\ n > 0 /\ Unlocking(p, {"settleTransfer"})

CountSound ==
  /\ \A p \in Privates : CountOf(p)
  /\ \A t \in Threads :
       (pc[t] = "clearWord" /\ Word(t) = d[t]) \/ pc[t] = "clearWaiters"
         => priv[d[t]].waiters = -BigNumber
  /\ \A t \in Threads : pc[t] = "grab" /\ Word(t) = d[t] =>
       \E u \in Threads : mutex[u] = mutex[t] /\ d[u] = d[t] /\ pc[u] = "clearWord"

\* A wake-up that is on its way finds somebody, or the flag.
Anchor ==
  \A m \in Mutexes :
    d_ptr[m] \in Privates /\ Owners(m) = {} =>
      \/ \E t \in Threads : mutex[t] = m /\ d[t] = d_ptr[m] /\ pc[t] = "clearWord"
      \/ priv[d_ptr[m]].possiblyUnlocked
      \/ \E t \in Threads : d[t] = d_ptr[m]
           /\ pc[t] \in {"verifyCounted", "wait", "sleeping", "woken", "timedOut", "giveUp",
                         "raiseFlag"}

\* The flag of a private that left its mutex is taken down by one thread.
LoweredOnce ==
  \A s, t \in Threads :
    d[s] = d[t] /\ {pc[s], pc[t]} \subseteq {"lowerFlag", "dropLowered"} => s = t

\* Only a call with a timeout leaves without the mutex.
Patient ==
  \A t \in Threads :
    pc[t] \in {"flag", "timedOut", "giveUp", "raiseFlag"} => timeout[t] # "forever"

IInv ==
  /\ Fields /\ OneHurried /\ ServesOne /\ WordSound /\ Baton /\ CountSound /\ Anchor
  /\ RefCountExact /\ LoweredOnce /\ Patient

-----------------------------------------------------------------------------
(* What the steps write to the privates *)

\* One field of one private, and nothing else
RefCountSet(p, v) ==
  /\ priv' \in [Privates -> PrivateFields]
  /\ priv'[p].refCount = v
  /\ \A q \in Privates :
       /\ q # p => priv'[q].refCount = priv[q].refCount
       /\ priv'[q].waiters = priv[q].waiters
       /\ priv'[q].possiblyUnlocked = priv[q].possiblyUnlocked
       /\ priv'[q].wakeup = priv[q].wakeup

WaitersSet(p, v) ==
  /\ priv' \in [Privates -> PrivateFields]
  /\ priv'[p].waiters = v
  /\ \A q \in Privates :
       /\ q # p => priv'[q].waiters = priv[q].waiters
       /\ priv'[q].refCount = priv[q].refCount
       /\ priv'[q].possiblyUnlocked = priv[q].possiblyUnlocked
       /\ priv'[q].wakeup = priv[q].wakeup

FlagSet(p, v) ==
  /\ priv' \in [Privates -> PrivateFields]
  /\ priv'[p].possiblyUnlocked = v
  /\ \A q \in Privates :
       /\ q # p => priv'[q].possiblyUnlocked = priv[q].possiblyUnlocked
       /\ priv'[q].refCount = priv[q].refCount
       /\ priv'[q].waiters = priv[q].waiters
       /\ priv'[q].wakeup = priv[q].wakeup

WakeupSet(p, v) ==
  /\ priv' \in [Privates -> PrivateFields]
  /\ priv'[p].wakeup = v
  /\ \A q \in Privates :
       /\ q # p => priv'[q].wakeup = priv[q].wakeup
       /\ priv'[q].refCount = priv[q].refCount
       /\ priv'[q].waiters = priv[q].waiters
       /\ priv'[q].possiblyUnlocked = priv[q].possiblyUnlocked

\* An EXCEPT writes refCount only.
LEMMA WritesRefCount ==
  ASSUME priv \in [Privates -> PrivateFields], NEW p \in Privates, NEW v \in Nat,
         priv' = [priv EXCEPT ![p].refCount = v]
  PROVE  RefCountSet(p, v)
<1>1. priv[p] \in PrivateFields
      OBVIOUS
<1>2. [priv[p] EXCEPT !.refCount = v] \in PrivateFields
      BY <1>1 DEF PrivateFields
<1>3. priv' = [priv EXCEPT ![p] = [priv[p] EXCEPT !.refCount = v]]
      OBVIOUS
<1>4. /\ priv' \in [Privates -> PrivateFields]
      /\ priv'[p] = [priv[p] EXCEPT !.refCount = v]
      /\ \A q \in Privates : q # p => priv'[q] = priv[q]
      BY <1>2, <1>3
<1>5. QED BY <1>1, <1>4 DEF PrivateFields, RefCountSet

\* An EXCEPT writes waiters only.
LEMMA WritesWaiters ==
  ASSUME priv \in [Privates -> PrivateFields], NEW p \in Privates, NEW v \in Int,
         priv' = [priv EXCEPT ![p].waiters = v]
  PROVE  WaitersSet(p, v)
<1>1. priv[p] \in PrivateFields
      OBVIOUS
<1>2. [priv[p] EXCEPT !.waiters = v] \in PrivateFields
      BY <1>1 DEF PrivateFields
<1>3. priv' = [priv EXCEPT ![p] = [priv[p] EXCEPT !.waiters = v]]
      OBVIOUS
<1>4. /\ priv' \in [Privates -> PrivateFields]
      /\ priv'[p] = [priv[p] EXCEPT !.waiters = v]
      /\ \A q \in Privates : q # p => priv'[q] = priv[q]
      BY <1>2, <1>3
<1>5. QED BY <1>1, <1>4 DEF PrivateFields, WaitersSet

\* An EXCEPT writes possiblyUnlocked only.
LEMMA WritesFlag ==
  ASSUME priv \in [Privates -> PrivateFields], NEW p \in Privates, NEW v \in BOOLEAN,
         priv' = [priv EXCEPT ![p].possiblyUnlocked = v]
  PROVE  FlagSet(p, v)
<1>1. priv[p] \in PrivateFields
      OBVIOUS
<1>2. [priv[p] EXCEPT !.possiblyUnlocked = v] \in PrivateFields
      BY <1>1 DEF PrivateFields
<1>3. priv' = [priv EXCEPT ![p] = [priv[p] EXCEPT !.possiblyUnlocked = v]]
      OBVIOUS
<1>4. /\ priv' \in [Privates -> PrivateFields]
      /\ priv'[p] = [priv[p] EXCEPT !.possiblyUnlocked = v]
      /\ \A q \in Privates : q # p => priv'[q] = priv[q]
      BY <1>2, <1>3
<1>5. QED BY <1>1, <1>4 DEF PrivateFields, FlagSet

\* An EXCEPT writes wakeup only.
LEMMA WritesWakeup ==
  ASSUME priv \in [Privates -> PrivateFields], NEW p \in Privates, NEW v \in BOOLEAN,
         priv' = [priv EXCEPT ![p].wakeup = v]
  PROVE  WakeupSet(p, v)
<1>1. priv[p] \in PrivateFields
      OBVIOUS
<1>2. [priv[p] EXCEPT !.wakeup = v] \in PrivateFields
      BY <1>1 DEF PrivateFields
<1>3. priv' = [priv EXCEPT ![p] = [priv[p] EXCEPT !.wakeup = v]]
      OBVIOUS
<1>4. /\ priv' \in [Privates -> PrivateFields]
      /\ priv'[p] = [priv[p] EXCEPT !.wakeup = v]
      /\ \A q \in Privates : q # p => priv'[q] = priv[q]
      BY <1>2, <1>3
<1>5. QED BY <1>1, <1>4 DEF PrivateFields, WakeupSet

\* Whose private it is
LEMMA InHands ==
  ASSUME Fields, NEW t \in Threads, pc[t] \in InHand
  PROVE  /\ d[t] \in Privates /\ priv[d[t]] \in PrivateFields
         /\ priv \in [Privates -> PrivateFields]
BY DEF Fields

\* The steps that write refCount
LEMMA RefCountSteps ==
  ASSUME Fields, NEW t \in Threads
  PROVE  /\ Allocate(t) => \E p \in Privates : priv[p].refCount = 0 /\ RefCountSet(p, 1)
                                              /\ d' = [d EXCEPT ![t] = p]
         /\ Ref(t) /\ priv[d[t]].refCount # 0 => RefCountSet(d[t], priv[d[t]].refCount + 1)
         /\ (DropFlag(t) \/ DropLowered(t) \/ Drop(t)) /\ priv[d[t]].refCount > 0 =>
              RefCountSet(d[t], priv[d[t]].refCount - 1)
<1>1. ASSUME Allocate(t)
      PROVE  \E p \in Privates : /\ priv[p].refCount = 0 /\ RefCountSet(p, 1)
                                 /\ d' = [d EXCEPT ![t] = p]
      <2>1. PICK p \in Privates : /\ priv[p].refCount = 0 /\ d' = [d EXCEPT ![t] = p]
                                 /\ priv' = [priv EXCEPT ![p].refCount = 1]
            BY <1>1 DEF Allocate
      <2>2. RefCountSet(p, 1)
            BY <2>1, WritesRefCount DEF Fields
      <2>3. QED BY <2>1, <2>2
<1>2. ASSUME Ref(t), priv[d[t]].refCount # 0
      PROVE  RefCountSet(d[t], priv[d[t]].refCount + 1)
      <2>1. pc[t] \in InHand /\ priv' = [priv EXCEPT ![d[t]].refCount = priv[d[t]].refCount + 1]
            BY <1>2 DEF Ref, InHand
      <2>2. d[t] \in Privates /\ priv[d[t]].refCount + 1 \in Nat
            BY <2>1, InHands DEF PrivateFields
      <2>3. QED BY <2>1, <2>2, WritesRefCount DEF Fields
<1>3. ASSUME DropFlag(t) \/ DropLowered(t) \/ Drop(t), priv[d[t]].refCount > 0
      PROVE  RefCountSet(d[t], priv[d[t]].refCount - 1)
      <2>1. pc[t] \in InHand /\ priv' = [priv EXCEPT ![d[t]].refCount = priv[d[t]].refCount - 1]
            BY <1>3 DEF DropFlag, DropLowered, Drop, Deref, InHand, Held, Referenced, Settling,
                        Grabbed, Leaving
      <2>2. d[t] \in Privates /\ priv[d[t]].refCount - 1 \in Nat
            BY <1>3, <2>1, InHands DEF PrivateFields
      <2>3. QED BY <2>1, <2>2, WritesRefCount DEF Fields
<1>4. QED BY <1>1, <1>2, <1>3

\* The steps that write waiters
LEMMA WaitersSteps ==
  ASSUME Fields, NEW t \in Threads
  PROVE  LET n == priv[d[t]].waiters
             settled == IF n < 0 THEN n + BigNumber ELSE n
         IN  /\ Count(t) /\ n # -BigNumber => WaitersSet(d[t], n + 1)
             /\ Uncount(t) => WaitersSet(d[t], n - 1)
             /\ ClearWaiters(t) => WaitersSet(d[t], 0)
             /\ Discount(t) \/ GiveUp(t) => WaitersSet(d[t], settled - 1)
             /\ Settle(t) => WaitersSet(d[t], settled)
             /\ UnlockInternal(t) => WaitersSet(Word(t), priv[Word(t)].waiters - BigNumber)
<1> DEFINE n == priv[d[t]].waiters
           settled == IF n < 0 THEN n + BigNumber ELSE n
<1>1. ASSUME NEW v \in Int, pc[t] \in InHand, priv' = [priv EXCEPT ![d[t]].waiters = v]
      PROVE  WaitersSet(d[t], v)
      BY <1>1, InHands, WritesWaiters
<1>2. pc[t] \in InHand => /\ n \in Int /\ n + 1 \in Int /\ n - 1 \in Int
                          /\ settled \in Int /\ settled - 1 \in Int
      BY InHands, BigNumberAssumption DEF PrivateFields
<1>3. ASSUME Count(t), n # -BigNumber PROVE WaitersSet(d[t], n + 1)
      <2>1. pc[t] \in InHand /\ priv' = [priv EXCEPT ![d[t]].waiters = n + 1]
            BY <1>3 DEF Count, InHand, Held, Referenced
      <2>2. QED BY <1>1, <1>2, <2>1
<1>4. ASSUME Uncount(t) PROVE WaitersSet(d[t], n - 1)
      <2>1. pc[t] \in InHand /\ priv' = [priv EXCEPT ![d[t]].waiters = n - 1]
            BY <1>4 DEF Uncount, InHand, Held, Referenced, Counted
      <2>2. QED BY <1>1, <1>2, <2>1
<1>5. ASSUME ClearWaiters(t) PROVE WaitersSet(d[t], 0)
      <2>1. pc[t] \in InHand /\ priv' = [priv EXCEPT ![d[t]].waiters = 0]
            BY <1>5 DEF ClearWaiters, InHand, Held, Grabbed
      <2>2. 0 \in Int
            OBVIOUS
      <2>3. QED BY <1>1, <2>1, <2>2
<1>6. ASSUME Discount(t) \/ GiveUp(t) PROVE WaitersSet(d[t], settled - 1)
      <2>1. pc[t] \in InHand /\ priv' = [priv EXCEPT ![d[t]].waiters = settled - 1]
            BY <1>6 DEF Discount, GiveUp, DerefWaiters, InHand, Held, Referenced, Counted, Settling
      <2>2. QED BY <1>1, <1>2, <2>1
<1>7. ASSUME Settle(t) PROVE WaitersSet(d[t], settled)
      <2>1. pc[t] \in InHand /\ priv' = [priv EXCEPT ![d[t]].waiters = settled - 0]
            BY <1>7 DEF Settle, DerefWaiters, InHand, Held, Leaving
      <2>2. pc[t] \in InHand => settled - 0 = settled
            BY <1>2
      <2>3. QED BY <1>1, <1>2, <2>1, <2>2
<1>8. ASSUME UnlockInternal(t) PROVE WaitersSet(Word(t), priv[Word(t)].waiters - BigNumber)
      <2>1. /\ Word(t) \in Privates
            /\ priv' = [priv EXCEPT ![Word(t)].waiters = priv[Word(t)].waiters - BigNumber]
            BY <1>8 DEF UnlockInternal
      <2>2. priv[Word(t)].waiters - BigNumber \in Int
            BY <2>1, BigNumberAssumption DEF Fields, PrivateFields
      <2>3. QED BY <2>1, <2>2, WritesWaiters DEF Fields
<1>9. QED BY <1>3, <1>4, <1>5, <1>6, <1>7, <1>8

\* The steps that write possiblyUnlocked or wakeup
LEMMA FlagSteps ==
  ASSUME Fields, NEW t \in Threads
  PROVE  /\ Taken(t) \/ LowerFlag(t) => FlagSet(d[t], FALSE)
         /\ RaiseFlag(t) => FlagSet(d[t], TRUE)
         /\ TakeWakeup(t) => WakeupSet(d[t], FALSE)
         /\ WakeUp(t) => WakeupSet(d[t], TRUE)
<1>1. ASSUME NEW v \in BOOLEAN, pc[t] \in InHand, priv' = [priv EXCEPT ![d[t]].possiblyUnlocked = v]
      PROVE  FlagSet(d[t], v)
      BY <1>1, InHands, WritesFlag
<1>2. ASSUME NEW v \in BOOLEAN, pc[t] \in InHand, priv' = [priv EXCEPT ![d[t]].wakeup = v]
      PROVE  WakeupSet(d[t], v)
      BY <1>2, InHands, WritesWakeup
<1>3. ASSUME Taken(t) \/ LowerFlag(t) PROVE FlagSet(d[t], FALSE)
      <2>1. pc[t] \in InHand /\ priv' = [priv EXCEPT ![d[t]].possiblyUnlocked = FALSE]
            BY <1>3 DEF Taken, LowerFlag, InHand, Held, Settling, Leaving
      <2>2. QED BY <1>1, <2>1
<1>4. ASSUME RaiseFlag(t) PROVE FlagSet(d[t], TRUE)
      <2>1. pc[t] \in InHand /\ priv' = [priv EXCEPT ![d[t]].possiblyUnlocked = TRUE]
            BY <1>4 DEF RaiseFlag, InHand, Held, Referenced
      <2>2. QED BY <1>1, <2>1
<1>5. ASSUME TakeWakeup(t) PROVE WakeupSet(d[t], FALSE)
      <2>1. pc[t] \in InHand /\ priv' = [priv EXCEPT ![d[t]].wakeup = FALSE]
            BY <1>5 DEF TakeWakeup, InHand, Held, Referenced, Counted
      <2>2. QED BY <1>2, <2>1
<1>6. ASSUME WakeUp(t) PROVE WakeupSet(d[t], TRUE)
      <2>1. pc[t] \in InHand /\ priv' = [priv EXCEPT ![d[t]].wakeup = TRUE]
            BY <1>6 DEF WakeUp, InHand, Held, Leaving
      <2>2. QED BY <1>2, <2>1
<1>7. QED BY <1>3, <1>4, <1>5, <1>6

-----------------------------------------------------------------------------
(* Counting references *)

HeldBy(p)  == {t \in Threads : d[t] = p /\ pc[t] \in Held}
ExtraBy(p) == {t \in Threads : d[t] = p /\ pc[t] \in {"install", "dropFlag", "dropLowered"}}

\* The owner of the mutex that p serves has a reference for it.
OwnedWith(p, m) == d_ptr[m] = p /\ \E t \in Owners(m) : pc[t] \notin Settling
Owned(p)        == \E m \in Mutexes : OwnedWith(p, m)

One(condition) == IF condition THEN 1 ELSE 0

\* References, for the provers: what serves one mutex is counted once.
LEMMA ReferencesAre ==
  ASSUME ServesOne, NEW p \in Privates
  PROVE  /\ IsFiniteSet(HeldBy(p)) /\ IsFiniteSet(ExtraBy(p))
         /\ Cardinality(HeldBy(p)) \in Nat /\ Cardinality(ExtraBy(p)) \in Nat
         /\ References(p) = Cardinality(HeldBy(p)) + Cardinality(ExtraBy(p))
                            + One(Owned(p)) + One(priv[p].possiblyUnlocked)
<1>1. HeldBy(p) \subseteq Threads /\ ExtraBy(p) \subseteq Threads /\ IsFiniteSet(Threads)
      BY BigNumberAssumption DEF HeldBy, ExtraBy
<1>2. /\ IsFiniteSet(HeldBy(p)) /\ IsFiniteSet(ExtraBy(p))
      /\ Cardinality(HeldBy(p)) \in Nat /\ Cardinality(ExtraBy(p)) \in Nat
      BY <1>1, FS_Subset, FS_CardinalityType
<1> DEFINE M == {m \in Mutexes : d_ptr[m] = p /\ \E t \in Owners(m) : pc[t] \notin Settling}
<1>3. Cardinality(M) = One(Owned(p))
      <2>1. CASE Owned(p)
            <3>1. PICK m \in Mutexes : OwnedWith(p, m)
                  BY <2>1 DEF Owned
            <3>2. M = {m}
                  BY <3>1 DEF OwnedWith, ServesOne
            <3>3. QED BY <2>1, <3>2, FS_Singleton DEF One
      <2>2. CASE ~Owned(p)
            <3>1. M = {}
                  BY <2>2 DEF Owned, OwnedWith
            <3>2. QED BY <2>2, <3>1, FS_EmptySet DEF One
      <2>3. QED BY <2>1, <2>2
<1>4. References(p) = Cardinality(HeldBy(p)) + Cardinality(ExtraBy(p)) + Cardinality(M)
                      + One(priv[p].possiblyUnlocked)
      BY DEF References, HeldBy, ExtraBy, Held, One
<1>5. QED BY <1>2, <1>3, <1>4

\* Who holds a private, or has just taken it from the free list, is counted.
LEMMA HolderCounted ==
  ASSUME Fields, ServesOne, RefCountExact, NEW p \in Privates
  PROVE  /\ \A t \in Threads : d[t] = p /\ pc[t] \in Held \cup {"install"} => priv[p].refCount > 0
         /\ Owned(p) \/ priv[p].possiblyUnlocked => priv[p].refCount > 0
<1>1. priv[p].refCount = Cardinality(HeldBy(p)) + Cardinality(ExtraBy(p))
                         + One(Owned(p)) + One(priv[p].possiblyUnlocked)
      BY ReferencesAre DEF RefCountExact
<1>2. /\ IsFiniteSet(HeldBy(p)) /\ IsFiniteSet(ExtraBy(p))
      /\ Cardinality(HeldBy(p)) \in Nat /\ Cardinality(ExtraBy(p)) \in Nat
      BY ReferencesAre
<1>3. ASSUME NEW t \in Threads, d[t] = p, pc[t] \in Held \cup {"install"}
      PROVE  Cardinality(HeldBy(p)) # 0 \/ Cardinality(ExtraBy(p)) # 0
      <2>1. HeldBy(p) # {} \/ ExtraBy(p) # {}
            BY <1>3 DEF HeldBy, ExtraBy
      <2>2. QED BY <1>2, <2>1, FS_EmptySet
<1>4. QED BY <1>1, <1>2, <1>3 DEF One

-----------------------------------------------------------------------------
(* Types *)

\* The variables keep their types.
LEMMA FieldsInductive == IInv /\ [Next]_vars => Fields'
<1> SUFFICES ASSUME IInv, [Next]_vars PROVE Fields'
    OBVIOUS
<1> USE PrivatesAssumption, BigNumberAssumption
    DEF Fields, Places, Locking, Owning, Leaving, Referenced, Counted, Settling, Grabbed, Held,
        InHand, Goto, Forget, SetWord, Word, dummyLocked
<1>a. Fields
      BY DEF IInv
<1>1. CASE UNCHANGED vars
      BY <1>a, <1>1 DEF vars
<1>2. ASSUME NEW t \in Threads, Call(t) PROVE Fields'
      BY <1>a, <1>2 DEF Call
<1>3. ASSUME NEW t \in Threads, FastTryLock(t) PROVE Fields'
      BY <1>a, <1>3 DEF FastTryLock
<1>4. ASSUME NEW t \in Threads, Load(t) PROVE Fields'
      BY <1>a, <1>4 DEF Load
<1>5. ASSUME NEW t \in Threads, Allocate(t) PROVE Fields'
      <2>1. PICK p \in Privates : RefCountSet(p, 1) /\ d' = [d EXCEPT ![t] = p]
            BY <1>a, <1>5, RefCountSteps
      <2>2. priv' \in [Privates -> PrivateFields]
            BY <2>1 DEF RefCountSet
      <2>3. QED BY <1>a, <1>5, <2>1, <2>2 DEF Allocate
<1>6. ASSUME NEW t \in Threads, Install(t) PROVE Fields'
      BY <1>a, <1>6 DEF Install
<1>7. ASSUME NEW t \in Threads, Flag(t) PROVE Fields'
      BY <1>a, <1>7 DEF Flag
<1>8. ASSUME NEW t \in Threads, Ref(t) PROVE Fields'
      <2>1. priv[d[t]].refCount # 0 => priv' \in [Privates -> PrivateFields]
            BY <1>a, <1>8, RefCountSteps DEF RefCountSet
      <2>2. QED BY <1>a, <1>8, <2>1 DEF Ref
<1>9. ASSUME NEW t \in Threads, Recheck(t) PROVE Fields'
      BY <1>a, <1>9 DEF Recheck
<1>10. ASSUME NEW t \in Threads, Count(t) PROVE Fields'
      <2>1. priv[d[t]].waiters # -BigNumber => priv' \in [Privates -> PrivateFields]
            BY <1>a, <1>10, WaitersSteps DEF WaitersSet
      <2>2. QED BY <1>a, <1>10, <2>1 DEF Count
<1>11. ASSUME NEW t \in Threads, Grab(t) PROVE Fields'
      BY <1>a, <1>11 DEF Grab
<1>12. ASSUME NEW t \in Threads, ClearWaiters(t) PROVE Fields'
      <2>1. priv' \in [Privates -> PrivateFields]
            BY <1>a, <1>12, WaitersSteps DEF WaitersSet
      <2>2. QED BY <1>a, <1>12, <2>1 DEF ClearWaiters
<1>13. ASSUME NEW t \in Threads, Verify(t) PROVE Fields'
      BY <1>a, <1>13 DEF Verify
<1>14. ASSUME NEW t \in Threads, Uncount(t) PROVE Fields'
      <2>1. priv' \in [Privates -> PrivateFields]
            BY <1>a, <1>14, WaitersSteps DEF WaitersSet
      <2>2. QED BY <1>a, <1>14, <2>1 DEF Uncount
<1>15. ASSUME NEW t \in Threads, TakeWakeup(t) PROVE Fields'
      <2>1. priv' \in [Privates -> PrivateFields]
            BY <1>a, <1>15, FlagSteps DEF WakeupSet
      <2>2. QED BY <1>a, <1>15, <2>1 DEF TakeWakeup
<1>16. ASSUME NEW t \in Threads, MissWakeup(t) \/ CondTimeout(t) \/ SpuriousWakeup(t) PROVE Fields'
      BY <1>a, <1>16 DEF MissWakeup, CondTimeout, SpuriousWakeup
<1>17. ASSUME NEW t \in Threads, Taken(t) PROVE Fields'
      <2>1. priv' \in [Privates -> PrivateFields]
            BY <1>a, <1>17, FlagSteps DEF FlagSet
      <2>2. QED BY <1>a, <1>17, <2>1 DEF Taken
<1>18. ASSUME NEW t \in Threads, Discount(t) \/ GiveUp(t) \/ Settle(t) PROVE Fields'
      <2>1. priv' \in [Privates -> PrivateFields]
            BY <1>a, <1>18, WaitersSteps DEF WaitersSet
      <2>2. QED BY <1>a, <1>18, <2>1 DEF Discount, GiveUp, Settle
<1>19. ASSUME NEW t \in Threads, RaiseFlag(t) PROVE Fields'
      <2>1. priv' \in [Privates -> PrivateFields]
            BY <1>a, <1>19, FlagSteps DEF FlagSet
      <2>2. QED BY <1>a, <1>19, <2>1 DEF RaiseFlag
<1>20. ASSUME NEW t \in Threads, Refused(t) PROVE Fields'
      BY <1>a, <1>20 DEF Refused
<1>21. ASSUME NEW t \in Threads, FastTryUnlock(t) PROVE Fields'
      BY <1>a, <1>21 DEF FastTryUnlock
<1>22. ASSUME NEW t \in Threads, UnlockInternal(t) PROVE Fields'
      <2>1. priv' \in [Privates -> PrivateFields]
            BY <1>a, <1>22, WaitersSteps DEF WaitersSet
      <2>2. QED BY <1>a, <1>22, <2>1 DEF UnlockInternal
<1>23. ASSUME NEW t \in Threads, ClearWord(t) PROVE Fields'
      BY <1>a, <1>23 DEF ClearWord
<1>24. ASSUME NEW t \in Threads, LowerFlag(t) PROVE Fields'
      <2>1. priv' \in [Privates -> PrivateFields]
            BY <1>a, <1>24, FlagSteps DEF FlagSet
      <2>2. QED BY <1>a, <1>24, <2>1 DEF LowerFlag
<1>25. ASSUME NEW t \in Threads, WakeUp(t) PROVE Fields'
      <2>1. priv' \in [Privates -> PrivateFields]
            BY <1>a, <1>25, FlagSteps DEF WakeupSet
      <2>2. QED BY <1>a, <1>25, <2>1 DEF WakeUp, Sleepers
<1>26. ASSUME NEW t \in Threads, DropFlag(t) \/ DropLowered(t) \/ Drop(t) PROVE Fields'
      <2>1. pc[t] \in Held /\ d[t] \in Privates
            BY <1>a, <1>26 DEF DropFlag, DropLowered, Drop
      <2>2. priv[d[t]].refCount > 0
            BY <2>1, HolderCounted DEF IInv
      <2>3. priv' \in [Privates -> PrivateFields]
            BY <1>a, <1>26, <2>2, RefCountSteps DEF RefCountSet
      <2>4. QED BY <1>a, <1>26, <2>3 DEF DropFlag, DropLowered, Drop
<1>27. QED BY <1>1, <1>2, <1>3, <1>4, <1>5, <1>6, <1>7, <1>8, <1>9, <1>10, <1>11, <1>12, <1>13,
              <1>14, <1>15, <1>16, <1>17, <1>18, <1>19, <1>20, <1>21, <1>22, <1>23, <1>24,
              <1>25, <1>26 DEF Next, Step

-----------------------------------------------------------------------------
(* The schedules *)

\* Nobody is between the grab of a mutex and waiters.store(0).
Calm == \A t \in Threads : pc[t] # "clearWaiters"

\* Only waiters.store(0) is done while somebody is.
LEMMA CalmSteps ==
  ASSUME Unhurried, Next
  PROVE  \/ \E t \in Threads : ClearWaiters(t)
         \/ Calm /\ \E t \in Threads : Call(t) \/ Step(t) \/ SpuriousWakeup(t)
BY DEF Next, Hurried, Calm


\* A step of one thread changes nothing of another, but for the sleeper it wakes.
Others(t) ==
  \A s \in Threads : s # t =>
    /\ mutex'[s] = mutex[s] /\ timeout'[s] = timeout[s] /\ d'[s] = d[s]
    /\ pc'[s] = pc[s] \/ (pc[s] = "sleeping" /\ pc'[s] = "woken")

LEMMA StepOfOne ==
  ASSUME Fields, NEW t \in Threads, Call(t) \/ Step(t) \/ SpuriousWakeup(t) \/ ClearWaiters(t)
  PROVE  Others(t)
<1> USE DEF Goto, Forget, Others
<1>0. /\ pc \in [Threads -> Places] /\ mutex \in [Threads -> Mutexes]
      /\ timeout \in [Threads -> Timeouts \cup {"zero"}]
      /\ d \in [Threads -> Privates \cup {NoPrivate}]
      BY DEF Fields
<1>1. CASE Call(t)
      BY <1>0, <1>1 DEF Call
<1>2. CASE FastTryLock(t) \/ Load(t) \/ Allocate(t) \/ Install(t) \/ Flag(t) \/ Ref(t)
      BY <1>0, <1>2 DEF FastTryLock, Load, Allocate, Install, Flag, Ref
<1>3. CASE Recheck(t) \/ Count(t) \/ Grab(t) \/ ClearWaiters(t) \/ Verify(t) \/ Uncount(t)
      BY <1>0, <1>3 DEF Recheck, Count, Grab, ClearWaiters, Verify, Uncount
<1>4. CASE \/ TakeWakeup(t) \/ MissWakeup(t) \/ CondTimeout(t) \/ SpuriousWakeup(t) \/ Taken(t)
           \/ DropFlag(t) \/ Discount(t) \/ GiveUp(t)
      BY <1>0, <1>4 DEF TakeWakeup, MissWakeup, CondTimeout, SpuriousWakeup, Taken, DropFlag,
                        Discount, GiveUp
<1>5. CASE RaiseFlag(t) \/ Refused(t) \/ Drop(t) \/ FastTryUnlock(t) \/ UnlockInternal(t)
      BY <1>0, <1>5 DEF RaiseFlag, Refused, Drop, FastTryUnlock, UnlockInternal
<1>6. CASE ClearWord(t) \/ LowerFlag(t) \/ DropLowered(t) \/ Settle(t)
      BY <1>0, <1>6 DEF ClearWord, LowerFlag, DropLowered, Settle
<1>7. CASE WakeUp(t)
      BY <1>0, <1>7 DEF WakeUp, Sleepers
<1>8. QED BY <1>1, <1>2, <1>3, <1>4, <1>5, <1>6, <1>7 DEF Step

\* One grab at a time.
LEMMA OneHurriedInductive == Unhurried /\ IInv /\ [Next]_vars => OneHurried'
<1> SUFFICES ASSUME Unhurried, IInv, [Next]_vars PROVE OneHurried'
    OBVIOUS
<1>a. Fields /\ OneHurried
      BY DEF IInv
<1>1. CASE UNCHANGED vars
      BY <1>a, <1>1 DEF vars, OneHurried
<1>2. ASSUME NEW t \in Threads, ClearWaiters(t)
      PROVE  OneHurried'
      BY <1>a, <1>2 DEF ClearWaiters, Goto, OneHurried, Fields
<1>3. ASSUME Calm, NEW t \in Threads, Call(t) \/ Step(t) \/ SpuriousWakeup(t)
      PROVE  OneHurried'
      <2>1. Others(t)
            BY <1>a, <1>3, StepOfOne
      <2>2. \A s \in Threads : s # t => pc'[s] # "clearWaiters"
            BY <1>3, <2>1 DEF Calm, Others
      <2>3. QED BY <2>2 DEF OneHurried
<1>4. QED BY <1>1, <1>2, <1>3, CalmSteps

-----------------------------------------------------------------------------
(* One mutex for each private *)

\* A private with no references serves no mutex, and nobody knows it.
LEMMA FreeServesNone ==
  ASSUME IInv, NEW p \in Privates, priv[p].refCount = 0
  PROVE  /\ \A m \in Mutexes : d_ptr[m] # p
         /\ \A t \in Threads : d[t] = p => pc[t] \notin Held \cup {"install"}
<1>a. Fields /\ ServesOne /\ WordSound /\ Anchor /\ RefCountExact
      BY DEF IInv
<1>1. \A t \in Threads : d[t] = p => pc[t] \notin Held \cup {"install"}
      BY <1>a, HolderCounted DEF Fields, PrivateFields
<1>2. ~Owned(p) /\ ~priv[p].possiblyUnlocked
      BY <1>a, HolderCounted DEF Fields, PrivateFields
<1>3. ASSUME NEW m \in Mutexes, d_ptr[m] = p PROVE FALSE
      <2>1. CASE Owners(m) = {}
            BY <1>1, <1>2, <1>3, <1>a, <2>1
               DEF Anchor, Held, Referenced, Counted, Leaving
      <2>2. CASE Owners(m) # {}
            <3>1. PICK t \in Owners(m) : TRUE
                  BY <2>2
            <3>2. t \in Threads /\ mutex[t] = m /\ pc[t] \in Settling
                  BY <1>2, <1>3, <3>1 DEF Owned, OwnedWith, Owners
            <3>3. d[t] = p
                  BY <1>3, <1>a, <3>2 DEF WordSound, On, Word
            <3>4. QED BY <1>1, <3>2, <3>3 DEF Held
      <2>3. QED BY <2>1, <2>2
<1>4. QED BY <1>1, <1>3

\* What keeps a private with its mutex: no new word, and nobody who has seen another.
LEMMA ServesKept ==
  ASSUME Fields, Fields', ServesOne, NEW t \in Threads, Others(t),
         \A m \in Mutexes : d_ptr'[m] \in Privates => d_ptr'[m] = d_ptr[m],
         pc'[t] # "install",
         pc'[t] \in Past => /\ mutex'[t] = mutex[t]
                            /\ (pc[t] \in Past /\ d'[t] = d[t]) \/ d'[t] = Word(t)
  PROVE  ServesOne'
<1>1. ASSUME NEW s \in Threads, pc'[s] \in Past
      PROVE  /\ mutex'[s] = mutex[s] /\ d'[s] \in Privates
             /\ (pc[s] \in Past /\ d'[s] = d[s]) \/ d'[s] = d_ptr[mutex[s]]
      <2>1. d'[s] \in Privates
            BY <1>1 DEF Fields, Past, InHand
      <2>2. QED BY <1>1, <2>1 DEF Others, Past, Held, Referenced, Counted, Word
<1>2. ASSUME NEW s \in Threads, pc'[s] = "install"
      PROVE  pc[s] = "install" /\ d'[s] = d[s] /\ d'[s] \in Privates
      BY <1>2 DEF Others, Fields, InHand
<1>3. \A m, n \in Mutexes : d_ptr'[m] \in Privates /\ d_ptr'[m] = d_ptr'[n] => m = n
      BY DEF ServesOne
<1>4. ASSUME NEW s \in Threads, pc'[s] \in Past, NEW m \in Mutexes, d_ptr'[m] = d'[s]
      PROVE  m = mutex'[s]
      <2>1. d_ptr[m] = d'[s] /\ d'[s] \in Privates /\ mutex[s] \in Mutexes
            BY <1>1, <1>4 DEF Fields
      <2>2. QED BY <1>1, <1>4, <2>1 DEF ServesOne
<1>5. ASSUME NEW i \in Threads, pc'[i] = "install"
      PROVE  /\ \A m \in Mutexes : d_ptr'[m] # d'[i]
             /\ \A s \in Threads : s # i /\ d'[s] = d'[i] => pc'[s] \notin Past \cup {"install"}
      <2>1. \A m \in Mutexes : d_ptr'[m] # d'[i]
            BY <1>2, <1>5 DEF ServesOne
      <2>2. ASSUME NEW s \in Threads, s # i, d'[s] = d'[i], pc'[s] \in Past PROVE FALSE
            BY <1>1, <1>2, <1>5, <2>2 DEF ServesOne, Fields
      <2>3. ASSUME NEW s \in Threads, s # i, d'[s] = d'[i], pc'[s] = "install" PROVE FALSE
            BY <1>2, <1>5, <2>3 DEF ServesOne
      <2>4. QED BY <2>1, <2>2, <2>3
<1>6. QED BY <1>3, <1>4, <1>5 DEF ServesOne

\* A private serves one mutex in one life.
LEMMA ServesOneInductive == IInv /\ [Next]_vars => ServesOne'
<1> SUFFICES ASSUME IInv, [Next]_vars PROVE ServesOne'
    OBVIOUS
<1>a. Fields /\ ServesOne /\ WordSound
      BY DEF IInv
<1>b. Fields'
      BY FieldsInductive
<1>1. CASE UNCHANGED vars
      BY <1>a, <1>1 DEF vars, ServesOne
<1> SUFFICES ASSUME NEW t \in Threads, Call(t) \/ Step(t) \/ SpuriousWakeup(t) \/ ClearWaiters(t)
             PROVE  ServesOne'
    BY <1>1 DEF Next
<1>c. Others(t)
      BY <1>a, StepOfOne
<1> DEFINE Kept == \A m \in Mutexes : d_ptr'[m] \in Privates => d_ptr'[m] = d_ptr[m]
           Same == pc'[t] \in Past => /\ mutex'[t] = mutex[t]
                                      /\ (pc[t] \in Past /\ d'[t] = d[t]) \/ d'[t] = Word(t)
<1>d. Kept /\ Same /\ pc'[t] # "install" => ServesOne'
      BY <1>a, <1>b, <1>c, ServesKept
<1> HIDE DEF Kept, Same
<1>e. /\ d_ptr \in [Mutexes -> {0, 1} \cup Privates] /\ mutex \in [Threads -> Mutexes]
      /\ pc \in [Threads -> Places] /\ d \in [Threads -> Privates \cup {NoPrivate}]
      BY <1>a DEF Fields
<1>f. UNCHANGED d_ptr => Kept
      BY DEF Kept
<1> USE DEF Goto, Forget, Past, Held, Referenced, Counted, Settling, Grabbed, Leaving
<1>2. CASE Call(t)
      BY <1>d, <1>e, <1>f, <1>2 DEF Call, Same
<1>3. CASE FastTryLock(t) \/ FastTryUnlock(t)
      BY <1>d, <1>e, <1>3, PrivatesAssumption
         DEF FastTryLock, FastTryUnlock, Same, Kept, SetWord, dummyLocked
<1>4. CASE Load(t) \/ Flag(t) \/ Ref(t) \/ Refused(t)
      BY <1>d, <1>e, <1>f, <1>4 DEF Load, Flag, Ref, Refused, Same
<1>5. CASE Allocate(t)
      <2>1. PICK p \in Privates : priv[p].refCount = 0 /\ d' = [d EXCEPT ![t] = p]
            BY <1>5 DEF Allocate
      <2>2. /\ \A m \in Mutexes : d_ptr[m] # p
            /\ \A s \in Threads : d[s] = p => pc[s] \notin Past \cup {"install"}
            BY <2>1, FreeServesNone
      <2>3. /\ UNCHANGED <<d_ptr, mutex>> /\ pc' = [pc EXCEPT ![t] = "install"]
            BY <1>5 DEF Allocate
      <2>4. /\ pc'[t] = "install" /\ d'[t] = p
            /\ \A s \in Threads : s # t => pc'[s] = pc[s] /\ d'[s] = d[s]
            BY <1>e, <2>1, <2>3
      <2>5. QED BY <1>a, <2>2, <2>3, <2>4 DEF ServesOne
<1>6. CASE Install(t)
      <2>1. CASE Word(t) = dummyLocked
            <3>1. /\ pc[t] = "install" /\ d_ptr' = [d_ptr EXCEPT ![mutex[t]] = d[t]]
                  /\ pc' = [pc EXCEPT ![t] = "ref"] /\ UNCHANGED <<mutex, d>>
                  BY <1>6, <2>1 DEF Install, SetWord
            <3>2. /\ \A m \in Mutexes : m # mutex[t] => d_ptr'[m] = d_ptr[m] /\ d_ptr[m] # d[t]
                  /\ d_ptr'[mutex[t]] = d[t]
                  /\ \A s \in Threads : s # t /\ d[s] = d[t] => pc[s] \notin Past \cup {"install"}
                  BY <1>a, <1>e, <3>1 DEF ServesOne
            <3>3. pc'[t] = "ref" /\ \A s \in Threads : s # t => pc'[s] = pc[s]
                  BY <1>e, <3>1
            <3>4. QED BY <1>a, <1>e, <3>1, <3>2, <3>3 DEF ServesOne
      <2>2. CASE Word(t) # dummyLocked
            BY <1>d, <1>e, <1>f, <1>6, <2>2 DEF Install, Same
      <2>3. QED BY <2>1, <2>2
<1>7. CASE Recheck(t) \/ Count(t) \/ Verify(t) \/ Uncount(t) \/ ClearWaiters(t)
      BY <1>d, <1>e, <1>f, <1>7 DEF Recheck, Count, Verify, Uncount, ClearWaiters, Same, Word
<1>8. CASE Grab(t)
      BY <1>d, <1>e, <1>8, PrivatesAssumption
         DEF Grab, Same, Kept, SetWord, dummyLocked
<1>9. CASE \/ TakeWakeup(t) \/ MissWakeup(t) \/ CondTimeout(t) \/ SpuriousWakeup(t) \/ Taken(t)
           \/ DropFlag(t) \/ Discount(t) \/ GiveUp(t)
      BY <1>d, <1>e, <1>f, <1>9 DEF TakeWakeup, MissWakeup, CondTimeout, SpuriousWakeup, Taken,
                                    DropFlag, Discount, GiveUp, Same
<1>10. CASE RaiseFlag(t) \/ Drop(t) \/ UnlockInternal(t)
      BY <1>d, <1>e, <1>f, <1>10 DEF RaiseFlag, Drop, UnlockInternal, Same, Word
<1>11. CASE ClearWord(t)
      BY <1>d, <1>e, <1>11, PrivatesAssumption DEF ClearWord, Same, Kept, SetWord
<1>12. CASE LowerFlag(t) \/ DropLowered(t) \/ Settle(t) \/ WakeUp(t)
      BY <1>d, <1>e, <1>f, <1>12 DEF LowerFlag, DropLowered, Settle, WakeUp, Sleepers, Same
<1>13. QED BY <1>2, <1>3, <1>4, <1>5, <1>6, <1>7, <1>8, <1>9, <1>10, <1>11, <1>12 DEF Step

-----------------------------------------------------------------------------
(* The word *)

\* How many threads are counted on a private
LEMMA CountedOnSize ==
  ASSUME NEW p \in Privates
  PROVE  /\ IsFiniteSet(CountedOn(p)) /\ Cardinality(CountedOn(p)) \in Nat
         /\ Cardinality(CountedOn(p)) < BigNumber
         /\ Cardinality(CountedOn(p)) = 0 <=> CountedOn(p) = {}
<1>1. CountedOn(p) \subseteq Threads
      BY DEF CountedOn
<1>2. /\ IsFiniteSet(CountedOn(p)) /\ Cardinality(CountedOn(p)) \in Nat
      /\ Cardinality(CountedOn(p)) <= Cardinality(Threads) /\ Cardinality(Threads) \in Nat
      BY <1>1, BigNumberAssumption, FS_Subset, FS_CardinalityType
<1>3. Cardinality(CountedOn(p)) < BigNumber
      BY <1>2, BigNumberAssumption
<1>4. QED BY <1>2, <1>3, FS_EmptySet

\* A thread that can still clear the word has nobody counted behind it.
LEMMA NobodyBehind ==
  ASSUME Fields, CountSound, NEW u \in Threads, pc[u] = "clearWord", Word(u) = d[u]
  PROVE  d[u] \in Privates /\ CountedOn(d[u]) = {}
<1>1. d[u] \in Privates
      BY DEF Fields, InHand, Held, Leaving
<1>2. priv[d[u]].waiters = -BigNumber
      BY DEF CountSound
<1> DEFINE n == Cardinality(CountedOn(d[u]))
<1>3. n \in Nat /\ n < BigNumber /\ (n = 0 <=> CountedOn(d[u]) = {})
      BY <1>1, CountedOnSize
<1>4. \/ priv[d[u]].waiters = n
      \/ priv[d[u]].waiters = n - BigNumber
      BY <1>1 DEF CountSound, CountOf
<1> HIDE DEF n
<1>5. n = 0
      BY <1>2, <1>3, <1>4, BigNumberAssumption
<1>6. QED BY <1>1, <1>3, <1>5

\* The word of one mutex is written.
LEMMA WordKept ==
  ASSUME WordSound, NEW t \in Threads, Others(t),
         \A s \in Threads : s # t =>
           /\ pc[s] \in Off => d_ptr'[mutex[s]] # d[s]
           /\ pc[s] \in On  => d_ptr'[mutex[s]] = d[s],
         pc'[t] \in Off => d_ptr'[mutex'[t]] # d'[t],
         pc'[t] \in On  => d_ptr'[mutex'[t]] = d'[t]
  PROVE  WordSound'
<1>1. ASSUME NEW s \in Threads, s # t
      PROVE  /\ pc'[s] \in Off => d_ptr'[mutex'[s]] # d'[s]
             /\ pc'[s] \in On  => d_ptr'[mutex'[s]] = d'[s]
      BY <1>1 DEF Others, Off, On
<1>2. QED BY <1>1 DEF WordSound, Word

\* A word with no private in it has nobody who waits for it or hands it on.
LEMMA WordSoundInductive == IInv /\ [Next]_vars => WordSound'
<1> SUFFICES ASSUME IInv, [Next]_vars PROVE WordSound'
    OBVIOUS
<1>a. Fields /\ ServesOne /\ WordSound /\ Baton /\ CountSound
      BY DEF IInv
<1>1. CASE UNCHANGED vars
      BY <1>a, <1>1 DEF vars, WordSound, Word
<1> SUFFICES ASSUME NEW t \in Threads, Call(t) \/ Step(t) \/ SpuriousWakeup(t) \/ ClearWaiters(t)
             PROVE  WordSound'
    BY <1>1 DEF Next
<1>c. Others(t)
      BY <1>a, StepOfOne
<1> DEFINE Own == /\ pc'[t] \in Off => d_ptr'[mutex'[t]] # d'[t]
                  /\ pc'[t] \in On  => d_ptr'[mutex'[t]] = d'[t]
           Rest == \A s \in Threads :
                     s # t => /\ pc[s] \in Off => d_ptr'[mutex[s]] # d[s]
                              /\ pc[s] \in On  => d_ptr'[mutex[s]] = d[s]
<1>d. Own /\ Rest => WordSound'
      BY <1>a, <1>c, WordKept
<1>e. /\ d_ptr \in [Mutexes -> {0, 1} \cup Privates] /\ mutex \in [Threads -> Mutexes]
      /\ pc \in [Threads -> Places] /\ d \in [Threads -> Privates \cup {NoPrivate}]
      BY <1>a DEF Fields
<1>f. UNCHANGED d_ptr => Rest
      BY <1>a DEF WordSound, Word
<1>g. \A s \in Threads : pc[s] \in Off \cup On => d[s] \in Privates /\ pc[s] \in Past
      BY <1>a DEF Fields, InHand, Past, Held, Off, On, Referenced, Counted, Settling, Grabbed, Leaving
<1>h. /\ \A s \in Threads : pc[s] \in On => Word(s) = d[s]
      /\ pc[t] \in On => Word(t) = d[t]
      BY <1>a DEF WordSound
\* A word changes to 0 or 1: nobody may be attached to it.
<1>i. ASSUME NEW w \in {0, 1}, SetWord(t, w),
             \A s \in Threads : s # t /\ mutex[s] = mutex[t] => pc[s] \notin On
      PROVE  Rest
      <2>1. \A m \in Mutexes : d_ptr'[m] = IF m = mutex[t] THEN w ELSE d_ptr[m]
            BY <1>e, <1>i DEF SetWord
      <2>2. ASSUME NEW s \in Threads, s # t, pc[s] \in Off PROVE d_ptr'[mutex[s]] # d[s]
            <3>1. d[s] # w
                  BY <1>g, <2>2, PrivatesAssumption
            <3>2. QED BY <1>a, <1>e, <2>1, <2>2, <3>1 DEF WordSound, Word
      <2>3. ASSUME NEW s \in Threads, s # t, pc[s] \in On PROVE d_ptr'[mutex[s]] = d[s]
            BY <1>a, <1>e, <1>i, <2>1, <2>3 DEF WordSound, Word
      <2>4. QED BY <2>2, <2>3
\* Nobody is attached to a mutex some thread can clear the word of.
<1>j. ASSUME NEW u \in Threads, mutex[u] = mutex[t], pc[u] = "clearWord", Word(u) = d[u]
      PROVE  \A s \in Threads : mutex[s] = mutex[t] => pc[s] \notin On
      <2> SUFFICES ASSUME NEW s \in Threads, mutex[s] = mutex[t], pc[s] \in On PROVE FALSE
          OBVIOUS
      <2>1. d[s] = d[u] /\ d_ptr[mutex[t]] = d[u]
            BY <1>a, <1>j DEF WordSound, Word
      <2>2. s \notin CountedOn(d[u])
            BY <1>a, <1>j, NobodyBehind
      <2>3. pc[s] \in {"settleTransfer", "wakeUp"}
            BY <2>1, <2>2 DEF On, CountedOn, Counted
      <2>4. s \in Holders(mutex[t]) /\ u \in Holders(mutex[t])
            BY <1>j, <2>1, <2>3 DEF Holders
      <2>5. s = u
            BY <1>a, <1>e, <2>4 DEF Baton, BatonOf
      <2>6. QED BY <1>j, <2>3, <2>5
\* Nor to one that has no private.
<1>k. ASSUME Word(t) \in {0, 1}
      PROVE  \A s \in Threads : mutex[s] = mutex[t] => pc[s] \notin On
      BY <1>a, <1>g, <1>k, PrivatesAssumption DEF WordSound, Word
<1> HIDE DEF Own, Rest
<1>2. CASE Call(t)
      BY <1>d, <1>e, <1>f, <1>2 DEF Call, Goto, Own, Off, On, Settling
<1>3. CASE FastTryLock(t) \/ FastTryUnlock(t)
      <2>1. Own
            BY <1>e, <1>3 DEF FastTryLock, FastTryUnlock, Goto, Own, Off, On, Settling
      <2>2. Rest
            BY <1>3, <1>f, <1>i, <1>k DEF FastTryLock, FastTryUnlock, dummyLocked
      <2>3. QED BY <1>d, <2>1, <2>2
<1>4. CASE Load(t) \/ Allocate(t) \/ Flag(t) \/ Ref(t)
      BY <1>d, <1>e, <1>f, <1>4 DEF Load, Allocate, Flag, Ref, Goto, Forget, Own, Off, On, Settling
<1>5. CASE Install(t)
      <2>1. Own
            BY <1>e, <1>5 DEF Install, Goto, Own, Off, On, Settling
      <2>2. CASE Word(t) = dummyLocked
            <3>1. \A m \in Mutexes : d_ptr'[m] = IF m = mutex[t] THEN d[t] ELSE d_ptr[m]
                  BY <1>5, <1>e, <2>2 DEF Install, SetWord
            <3>2. ASSUME NEW s \in Threads, s # t, pc[s] \in Off PROVE d_ptr'[mutex[s]] # d[s]
                  <4>1. pc[s] \in Past /\ pc[t] = "install"
                        BY <1>5, <1>g, <3>2 DEF Install
                  <4>2. d[s] # d[t]
                        BY <1>a, <3>2, <4>1 DEF ServesOne
                  <4>3. QED BY <1>a, <1>e, <3>1, <3>2, <4>2 DEF WordSound, Word
            <3>3. ASSUME NEW s \in Threads, s # t, pc[s] \in On PROVE d_ptr'[mutex[s]] = d[s]
                  <4>1. mutex[s] # mutex[t]
                        BY <1>k, <2>2, <3>3 DEF dummyLocked
                  <4>2. QED BY <1>a, <1>e, <3>1, <3>3, <4>1 DEF WordSound, Word
            <3>4. QED BY <1>d, <2>1, <3>2, <3>3 DEF Rest
      <2>3. CASE Word(t) # dummyLocked
            BY <1>5, <1>d, <1>f, <2>1, <2>3 DEF Install
      <2>4. QED BY <2>2, <2>3
<1>6. CASE Recheck(t) \/ Count(t) \/ Verify(t) \/ Uncount(t) \/ ClearWaiters(t)
      BY <1>d, <1>e, <1>f, <1>6
         DEF Recheck, Count, Verify, Uncount, ClearWaiters, Goto, Own, Off, On, Settling, Word
<1>7. CASE Grab(t)
      <2>1. CASE Word(t) = d[t]
            <3>1. PICK u \in Threads : mutex[u] = mutex[t] /\ d[u] = d[t] /\ pc[u] = "clearWord"
                  BY <1>7, <1>a, <2>1 DEF Grab, CountSound
            <3>2. Word(u) = d[u]
                  BY <2>1, <3>1 DEF Word
            <3>3. Rest
                  BY <1>7, <1>i, <1>j, <2>1, <3>1, <3>2 DEF Grab, dummyLocked
            <3>4. d[t] \in Privates
                  BY <1>7, <1>a DEF Grab, Fields, InHand, Held, Referenced
            <3>5. /\ d_ptr'[mutex[t]] = 1 /\ UNCHANGED <<mutex, d>>
                  /\ pc'[t] = "clearWaiters"
                  BY <1>7, <1>e, <2>1 DEF Grab, SetWord, Goto, dummyLocked
            <3>6. Own
                  BY <3>4, <3>5, PrivatesAssumption DEF Own, Off, On, Settling
            <3>7. QED BY <1>d, <3>3, <3>6
      <2>2. CASE Word(t) # d[t]
            BY <1>7, <1>d, <1>e, <1>f, <2>2 DEF Grab, Goto, Own, Off, On, Settling, Word
      <2>3. QED BY <2>1, <2>2
<1>8. CASE \/ TakeWakeup(t) \/ MissWakeup(t) \/ CondTimeout(t) \/ SpuriousWakeup(t) \/ Taken(t)
           \/ DropFlag(t)
      <2>1. UNCHANGED <<d_ptr, mutex, d>> /\ pc[t] \in On /\ pc'[t] \notin Off
            BY <1>8, <1>e DEF TakeWakeup, MissWakeup, CondTimeout, SpuriousWakeup, Taken, DropFlag,
                        Goto, On, Off, Settling
      <2>2. QED BY <1>d, <1>f, <1>h, <2>1 DEF Own, Word
<1>9. CASE Discount(t) \/ GiveUp(t) \/ RaiseFlag(t) \/ Refused(t) \/ Drop(t)
      BY <1>d, <1>e, <1>f, <1>9
         DEF Discount, GiveUp, RaiseFlag, Refused, Drop, Goto, Forget, Own, Off, On, Settling
<1>10. CASE UnlockInternal(t)
      BY <1>d, <1>e, <1>f, <1>10 DEF UnlockInternal, Goto, Own, Off, On, Settling, Word
<1>11. CASE ClearWord(t)
      <2>1. CASE Word(t) = d[t]
            <3>1. Rest
                  BY <1>11, <1>i, <1>j, <2>1 DEF ClearWord
            <3>2. d[t] \in Privates
                  BY <1>11, <1>a DEF ClearWord, Fields, InHand, Held, Leaving
            <3>3. d_ptr'[mutex[t]] = 0 /\ UNCHANGED <<mutex, d>> /\ pc'[t] = "lowerFlag"
                  BY <1>11, <1>e, <2>1 DEF ClearWord, SetWord, Goto
            <3>4. QED BY <1>d, <3>1, <3>2, <3>3, PrivatesAssumption DEF Own, Off, On, Settling
      <2>2. CASE Word(t) # d[t]
            BY <1>11, <1>d, <1>e, <1>f, <2>2 DEF ClearWord, Goto, Own, Off, On, Settling, Word
      <2>3. QED BY <2>1, <2>2
<1>12. CASE LowerFlag(t) \/ DropLowered(t)
      <2>1. UNCHANGED <<d_ptr, mutex, d>> /\ pc[t] \in Off /\ pc'[t] \notin On
            BY <1>12, <1>e DEF LowerFlag, DropLowered, Goto, On, Off, Settling
      <2>2. Word(t) # d[t]
            BY <1>a, <2>1 DEF WordSound
      <2>3. QED BY <1>d, <1>f, <2>1, <2>2 DEF Own, Word
<1>13. CASE Settle(t) \/ WakeUp(t)
      <2>1. /\ UNCHANGED <<d_ptr, mutex, d>> /\ pc'[t] \notin Off
            /\ pc'[t] \in On => pc[t] \in On
            BY <1>13, <1>e DEF Settle, WakeUp, Sleepers, Goto, On, Off, Settling
      <2>2. QED BY <1>d, <1>f, <1>h, <2>1 DEF Own, Word
<1>14. QED BY <1>2, <1>3, <1>4, <1>5, <1>6, <1>7, <1>8, <1>9, <1>10, <1>11, <1>12, <1>13 DEF Step

-----------------------------------------------------------------------------
(* Who has the mutex *)

\* Who gives a reference back has one.
LEMMA DropsOne ==
  ASSUME IInv, NEW t \in Threads, DropFlag(t) \/ DropLowered(t) \/ Drop(t)
  PROVE  d[t] \in Privates /\ RefCountSet(d[t], priv[d[t]].refCount - 1)
<1>1. Fields /\ ServesOne /\ RefCountExact
      BY DEF IInv
<1>2. pc[t] \in Held
      BY DEF DropFlag, DropLowered, Drop, Held, Settling, Leaving, Grabbed, Referenced
<1>3. d[t] \in Privates
      BY <1>1, <1>2 DEF Fields, InHand
<1>4. priv[d[t]].refCount > 0
      BY <1>1, <1>2, <1>3, HolderCounted
<1>5. QED BY <1>1, <1>3, <1>4, RefCountSteps

\* Which field a step may write
LEMMA FieldsKept ==
  ASSUME IInv, NEW t \in Threads, Call(t) \/ Step(t) \/ SpuriousWakeup(t) \/ ClearWaiters(t)
  PROVE  /\ Allocate(t) \/ Ref(t) \/ DropFlag(t) \/ DropLowered(t) \/ Drop(t)
            \/ \A p \in Privates : priv'[p].refCount = priv[p].refCount
         /\ Count(t) \/ Uncount(t) \/ ClearWaiters(t) \/ Discount(t) \/ GiveUp(t) \/ Settle(t)
            \/ UnlockInternal(t) \/ \A p \in Privates : priv'[p].waiters = priv[p].waiters
         /\ Taken(t) \/ RaiseFlag(t) \/ LowerFlag(t)
            \/ \A p \in Privates : priv'[p].possiblyUnlocked = priv[p].possiblyUnlocked
         /\ TakeWakeup(t) \/ WakeUp(t) \/ \A p \in Privates : priv'[p].wakeup = priv[p].wakeup
<1>1. Fields
      BY DEF IInv
<1>2. CASE \/ Call(t) \/ FastTryLock(t) \/ Load(t) \/ Install(t) \/ Flag(t) \/ Recheck(t)
           \/ Grab(t) \/ Verify(t) \/ MissWakeup(t) \/ CondTimeout(t) \/ SpuriousWakeup(t)
           \/ Refused(t) \/ FastTryUnlock(t) \/ ClearWord(t)
      <2>1. UNCHANGED priv
            BY <1>2 DEF Call, FastTryLock, Load, Install, Flag, Recheck, Grab, Verify, MissWakeup,
                        CondTimeout, SpuriousWakeup, Refused, FastTryUnlock, ClearWord
      <2>2. QED BY <2>1
<1>3. CASE Allocate(t)
      BY <1>1, <1>3, RefCountSteps DEF RefCountSet
<1>4. CASE Ref(t)
      <2>1. UNCHANGED priv \/ RefCountSet(d[t], priv[d[t]].refCount + 1)
            BY <1>1, <1>4, RefCountSteps DEF Ref
      <2>2. QED BY <1>4, <2>1 DEF RefCountSet
<1>5. CASE DropFlag(t) \/ DropLowered(t) \/ Drop(t)
      BY <1>5, DropsOne DEF RefCountSet
<1>6. CASE Count(t)
      <2>1. UNCHANGED priv \/ WaitersSet(d[t], priv[d[t]].waiters + 1)
            BY <1>1, <1>6, WaitersSteps DEF Count
      <2>2. QED BY <1>6, <2>1 DEF WaitersSet
<1>7. CASE Uncount(t) \/ ClearWaiters(t) \/ Discount(t) \/ GiveUp(t) \/ Settle(t) \/ UnlockInternal(t)
      <2>1. \E p, v : WaitersSet(p, v)
            BY <1>1, <1>7, WaitersSteps
      <2>2. QED BY <1>7, <2>1 DEF WaitersSet
<1>8. CASE Taken(t) \/ RaiseFlag(t) \/ LowerFlag(t)
      <2>1. \E p, v : FlagSet(p, v)
            BY <1>1, <1>8, FlagSteps
      <2>2. QED BY <1>8, <2>1 DEF FlagSet
<1>9. CASE TakeWakeup(t) \/ WakeUp(t)
      <2>1. \E p, v : WakeupSet(p, v)
            BY <1>1, <1>9, FlagSteps
      <2>2. QED BY <1>9, <2>1 DEF WakeupSet
<1>10. QED BY <1>2, <1>3, <1>4, <1>5, <1>6, <1>7, <1>8, <1>9 DEF Step

\* Other threads stay what they are to a mutex.
LEMMA OthersHold ==
  ASSUME NEW t \in Threads, Others(t), NEW s \in Threads, s # t, NEW m \in Mutexes
  PROVE  /\ s \in Owners(m)' <=> s \in Owners(m)
         /\ d_ptr'[m] = d_ptr[m] => (s \in Holders(m)' <=> s \in Holders(m))
<1>1. s \in Owners(m)' <=> s \in Owners(m)
      BY DEF Others, Owners, Owning, Settling, Grabbed
<1>2. QED BY <1>1 DEF Others, Holders

\* No word and no wake-up is written, and the owners and holders stay.
LEMMA BatonKept ==
  ASSUME Fields, Baton, NEW t \in Threads, Others(t), UNCHANGED d_ptr,
         \A p \in Privates : priv'[p].wakeup = priv[p].wakeup,
         \A m \in Mutexes : /\ t \in Owners(m)' <=> t \in Owners(m)
                            /\ t \in Holders(m)' <=> t \in Holders(m)
  PROVE  Baton'
<1>1. ASSUME NEW m \in Mutexes
      PROVE  /\ Owners(m)' = Owners(m)
             /\ Holders(m)' = Holders(m)
      <2>1. \A s \in Threads : /\ s \in Owners(m)' <=> s \in Owners(m)
                               /\ s \in Holders(m)' <=> s \in Holders(m)
            BY <1>1, OthersHold
      <2>2. /\ Owners(m) \subseteq Threads /\ Owners(m)' \subseteq Threads
            /\ Holders(m) \subseteq Threads /\ Holders(m)' \subseteq Threads
            BY DEF Owners, Holders
      <2>3. QED BY <2>1, <2>2
<1>2. \A m \in Mutexes : d_ptr[m] \in Privates => priv'[d_ptr[m]].wakeup = priv[d_ptr[m]].wakeup
      OBVIOUS
<1>3. QED BY <1>1, <1>2 DEF Baton, BatonOf

\* The words and the holders of the other mutexes stay.
LEMMA BatonElsewhere ==
  ASSUME Fields, ServesOne, Baton, NEW t \in Threads, Others(t),
         NEW w \in Mutexes, mutex[t] = w, mutex'[t] = w, \A m \in Mutexes : m # w => d_ptr'[m] = d_ptr[m],
         \A p \in Privates : p # Word(t) => priv'[p].wakeup = priv[p].wakeup,
         Word(t) \in Privates /\ priv'[Word(t)].wakeup => d_ptr'[w] = Word(t),
         BatonOf(w)'
  PROVE  Baton'
<1>1. ASSUME NEW m \in Mutexes, m # w
      PROVE  BatonOf(m)'
      <2>1. t \notin Owners(m) \cup Holders(m) \cup Owners(m)' \cup Holders(m)'
            BY <1>1 DEF Owners, Holders
      <2>2. \A s \in Threads : /\ s \in Owners(m)' <=> s \in Owners(m)
                               /\ s \in Holders(m)' <=> s \in Holders(m)
            BY <1>1, <2>1, OthersHold
      <2>3. /\ Owners(m) \subseteq Threads /\ Owners(m)' \subseteq Threads
            /\ Holders(m) \subseteq Threads /\ Holders(m)' \subseteq Threads
            BY DEF Owners, Holders
      <2>4. Owners(m)' = Owners(m) /\ Holders(m)' = Holders(m)
            BY <2>2, <2>3
      <2>5. d_ptr'[m] = d_ptr[m] /\ BatonOf(m)
            BY <1>1 DEF Baton
      <2>6. d_ptr[m] \in Privates => priv'[d_ptr[m]].wakeup = priv[d_ptr[m]].wakeup
            <3>1. mutex[t] \in Mutexes
                  BY DEF Fields
            <3>2. d_ptr[m] \in Privates => d_ptr[m] # Word(t)
                  BY <1>1, <3>1 DEF ServesOne, Word
            <3>3. QED BY <3>2
      <2>7. QED BY <2>4, <2>5, <2>6 DEF BatonOf
<1>2. ASSUME NEW p \in Privates, priv'[p].wakeup
      PROVE  \E m \in Mutexes : d_ptr'[m] = p
      <2>1. mutex[t] \in Mutexes
            BY DEF Fields
      <2>2. CASE p = Word(t)
            BY <1>2, <2>1, <2>2
      <2>3. CASE p # Word(t)
            BY <1>2, <2>1, <2>3 DEF Baton, Word
      <2>4. QED BY <2>2, <2>3
<1>3. QED BY <1>1, <1>2 DEF Baton

\* A mutex passes from hand to hand and is in one hand at a time.
LEMMA BatonInductive == IInv /\ [Next]_vars => Baton'
<1> SUFFICES ASSUME IInv, [Next]_vars PROVE Baton'
    OBVIOUS
<1>a. Fields /\ ServesOne /\ WordSound /\ Baton /\ CountSound
      BY DEF IInv
<1>1. CASE UNCHANGED vars
      BY <1>a, <1>1 DEF vars, Baton, BatonOf, Owners, Holders
<1> SUFFICES ASSUME NEW t \in Threads, Call(t) \/ Step(t) \/ SpuriousWakeup(t) \/ ClearWaiters(t)
             PROVE  Baton'
    BY <1>1 DEF Next
<1>c. Others(t)
      BY <1>a, StepOfOne
<1>e. /\ d_ptr \in [Mutexes -> {0, 1} \cup Privates] /\ mutex \in [Threads -> Mutexes]
      /\ pc \in [Threads -> Places] /\ d \in [Threads -> Privates \cup {NoPrivate}]
      /\ mutex[t] \in Mutexes
      BY <1>a DEF Fields
<1>w. PICK w \in Mutexes : w = mutex[t]
      BY <1>e
<1> DEFINE Wakeups == \A p \in Privates : priv'[p].wakeup = priv[p].wakeup
           Quiet == \A m \in Mutexes : /\ t \in Owners(m)' <=> t \in Owners(m)
                                       /\ t \in Holders(m)' <=> t \in Holders(m)
           Elsewhere == mutex'[t] = w /\ \A m \in Mutexes : m # w => d_ptr'[m] = d_ptr[m]
<1>d. UNCHANGED d_ptr /\ Wakeups /\ Quiet => Baton'
      BY <1>a, <1>c, BatonKept
<1>f. /\ Elsewhere
      /\ \A p \in Privates : p # Word(t) => priv'[p].wakeup = priv[p].wakeup
      /\ Word(t) \in Privates /\ priv'[Word(t)].wakeup => d_ptr'[w] = Word(t)
      /\ BatonOf(w)'
      => Baton'
      BY <1>a, <1>c, <1>w, BatonElsewhere
<1>g. TakeWakeup(t) \/ WakeUp(t) \/ Wakeups
      BY FieldsKept
\* What the others are to the mutex
<1>h. ASSUME NEW s \in Threads, s # t
      PROVE  /\ s \in Owners(w)' <=> s \in Owners(w)
             /\ d_ptr'[w] = d_ptr[w] => (s \in Holders(w)' <=> s \in Holders(w))
      BY <1>c, <1>h, OthersHold
<1>i. BatonOf(w) /\ Word(t) = d_ptr[w]
      BY <1>a, <1>w DEF Baton, Word
<1>j. /\ Owners(w) \subseteq Threads /\ Owners(w)' \subseteq Threads
      /\ Holders(w) \subseteq Threads /\ Holders(w)' \subseteq Threads
      /\ Owners(w) \subseteq Holders(w) /\ Owners(w)' \subseteq Holders(w)'
      BY DEF Owners, Holders
\* Nobody gives up a mutex without a private slowly.
<1>k. ASSUME NEW s \in Threads, s # t, s \in Holders(w)', s \notin Owners(w)'
      PROVE  /\ d'[s] = d_ptr'[w] /\ d'[s] = d[s] /\ d[s] \in Privates
             /\ pc[s] \in {"clearWord", "settleTransfer", "wakeUp"} /\ mutex[s] = w
      <2>1. d'[s] = d_ptr'[w] /\ pc'[s] \in {"clearWord", "settleTransfer", "wakeUp"} /\ mutex'[s] = w
            BY <1>k DEF Holders
      <2>2. d'[s] = d[s] /\ pc[s] \in {"clearWord", "settleTransfer", "wakeUp"} /\ mutex[s] = w
            BY <1>c, <1>k, <2>1 DEF Others
      <2>3. d[s] \in Privates
            BY <1>a, <2>2 DEF Fields, InHand, Held, Leaving
      <2>4. QED BY <2>1, <2>2, <2>3
<1> HIDE DEF Wakeups, Quiet, Elsewhere
<1>2. CASE FastTryLock(t) /\ Word(t) = 0
      <2>1. /\ d_ptr' = [d_ptr EXCEPT ![w] = 1] /\ UNCHANGED <<priv, mutex, d>>
            /\ pc[t] = "fastTryLock" /\ pc' = [pc EXCEPT ![t] = "owner"]
            BY <1>2, <1>w DEF FastTryLock, SetWord, Goto, dummyLocked
      <2>2. d_ptr'[w] = 1 /\ Elsewhere
            BY <1>e, <2>1, <1>w DEF Elsewhere
      <2>3. t \in Owners(w)'
            BY <1>e, <2>1, <1>w DEF Owners, Owning
      <2>4. \A s \in Threads : s # t => s \notin Holders(w)'
            BY <1>2, <1>h, <1>i, <1>k, <2>2, PrivatesAssumption DEF BatonOf
      <2>5. BatonOf(w)'
            BY <1>j, <2>2, <2>3, <2>4, PrivatesAssumption DEF BatonOf
      <2>6. QED BY <1>2, <1>f, <2>1, <2>2, <2>5, PrivatesAssumption
<1>3. CASE Install(t) /\ Word(t) = dummyLocked
      <2>1. /\ d_ptr' = [d_ptr EXCEPT ![w] = d[t]] /\ UNCHANGED <<priv, mutex, d>>
            /\ pc[t] = "install" /\ pc' = [pc EXCEPT ![t] = "ref"]
            BY <1>3, <1>w DEF Install, SetWord, Goto
      <2>2. d_ptr'[w] = d[t] /\ Elsewhere /\ d[t] \in Privates
            BY <1>a, <1>e, <2>1, <1>w DEF Elsewhere, Fields, InHand
      <2>3. /\ \A m \in Mutexes : d_ptr[m] # d[t]
            /\ \A s \in Threads : s # t /\ d[s] = d[t] => pc[s] \notin Past
            BY <1>a, <2>1 DEF ServesOne
      <2>4. ~priv[d[t]].wakeup
            BY <1>a, <2>2, <2>3 DEF Baton
      <2>5. t \notin Owners(w) /\ t \notin Holders(w)'
            BY <1>e, <2>1 DEF Owners, Holders, Owning, Settling, Grabbed
      <2>6. \A s \in Threads : s # t => (s \in Holders(w)' <=> s \in Owners(w))
            BY <1>h, <1>j, <1>k, <2>2, <2>3 DEF Past, Held, Leaving
      <2>7. Owners(w) # {} /\ \A s, u \in Owners(w) : s = u
            BY <1>3, <1>i, <1>j DEF BatonOf, dummyLocked
      <2>8. BatonOf(w)'
            BY <1>j, <2>1, <2>2, <2>4, <2>5, <2>6, <2>7, PrivatesAssumption DEF BatonOf
      <2>9. QED BY <1>3, <1>f, <2>1, <2>2, <2>8, PrivatesAssumption DEF dummyLocked
<1>4. CASE Word(t) = d[t] /\ (Grab(t) \/ ClearWord(t))
      <2>1. /\ d[t] \in Privates
            /\ \E u \in Threads : mutex[u] = w /\ d[u] = d[t] /\ pc[u] = "clearWord"
            <3>1. d[t] \in Privates
                  BY <1>4, <1>a DEF Grab, ClearWord, Fields, InHand, Held, Referenced, Leaving
            <3>2. CASE Grab(t)
                  BY <1>4, <1>a, <3>1, <3>2, <1>w DEF Grab, CountSound
            <3>3. CASE ClearWord(t)
                  BY <3>1, <3>3, <1>w DEF ClearWord
            <3>4. QED BY <1>4, <3>1, <3>2, <3>3
      <2>2. PICK u \in Threads : mutex[u] = w /\ d[u] = d[t] /\ pc[u] = "clearWord"
            BY <2>1
      <2>3. u \in Holders(w)
            BY <1>4, <1>i, <2>2 DEF Holders
      <2>4. Owners(w) = {} /\ ~priv[d[t]].wakeup
            <3>1. u \notin Owners(w)
                  BY <2>2 DEF Owners, Owning, Settling, Grabbed
            <3>2. QED BY <1>4, <1>i, <1>j, <2>1, <2>3, <3>1 DEF BatonOf
      <2>5. CASE Grab(t)
            <3>1. /\ d_ptr' = [d_ptr EXCEPT ![w] = 1] /\ UNCHANGED <<priv, mutex, d>>
                  /\ pc' = [pc EXCEPT ![t] = "clearWaiters"]
                  BY <1>4, <2>5, <1>w DEF Grab, ClearWord, SetWord, Goto, dummyLocked
            <3>2. d_ptr'[w] = 1 /\ Elsewhere
                  BY <1>e, <3>1, <1>w DEF Elsewhere
            <3>3. t \in Owners(w)'
                  BY <1>e, <3>1, <1>w DEF Owners, Owning, Grabbed
            <3>4. \A s \in Threads : s # t => s \notin Holders(w)'
                  BY <1>h, <1>k, <2>4, <3>2, PrivatesAssumption
            <3>5. BatonOf(w)'
                  BY <1>j, <3>2, <3>3, <3>4, PrivatesAssumption DEF BatonOf
            <3>6. QED BY <1>4, <1>f, <2>4, <3>1, <3>2, <3>5
      <2>6. CASE ClearWord(t)
            <3>1. /\ d_ptr' = [d_ptr EXCEPT ![w] = 0] /\ UNCHANGED <<priv, mutex, d>>
                  /\ pc' = [pc EXCEPT ![t] = "lowerFlag"]
                  BY <1>4, <2>6, <1>w DEF Grab, ClearWord, SetWord, Goto
            <3>2. d_ptr'[w] = 0 /\ Elsewhere
                  BY <1>e, <3>1, <1>w DEF Elsewhere
            <3>3. t \notin Holders(w)'
                  BY <1>e, <3>1 DEF Holders, Owners, Owning, Settling, Grabbed
            <3>4. \A s \in Threads : s # t => s \notin Holders(w)'
                  BY <1>h, <1>k, <2>4, <3>2, PrivatesAssumption
            <3>5. BatonOf(w)'
                  BY <1>j, <3>2, <3>3, <3>4, PrivatesAssumption DEF BatonOf
            <3>6. QED BY <1>4, <1>f, <2>4, <3>1, <3>2, <3>5
      <2>7. QED BY <1>4, <2>5, <2>6
<1>5. CASE FastTryUnlock(t) /\ Word(t) = dummyLocked
      <2>1. /\ d_ptr' = [d_ptr EXCEPT ![w] = 0] /\ UNCHANGED <<priv, mutex, d>>
            /\ pc[t] = "owner" /\ pc' = [pc EXCEPT ![t] = "idle"]
            BY <1>5, <1>w DEF FastTryUnlock, SetWord, Goto
      <2>2. d_ptr'[w] = 0 /\ Elsewhere
            BY <1>e, <2>1, <1>w DEF Elsewhere
      <2>3. t \in Owners(w) /\ t \notin Holders(w)'
            BY <1>e, <2>1, <1>w DEF Holders, Owners, Owning, Settling, Grabbed
      <2>4. \A s \in Threads : s # t => s \notin Holders(w)'
            BY <1>h, <1>i, <1>j, <1>k, <2>2, <2>3, PrivatesAssumption DEF BatonOf
      <2>5. BatonOf(w)'
            BY <1>j, <2>2, <2>3, <2>4, PrivatesAssumption DEF BatonOf
      <2>6. QED BY <1>5, <1>f, <2>1, <2>2, <2>5, PrivatesAssumption DEF dummyLocked
<1>6. CASE UnlockInternal(t)
      <2>1. /\ Word(t) \in Privates /\ d' = [d EXCEPT ![t] = Word(t)] /\ UNCHANGED <<d_ptr, mutex>>
            /\ pc[t] = "unlockInternal"
            /\ \E place \in {"clearWord", "settleTransfer"} : pc' = [pc EXCEPT ![t] = place]
            BY <1>6 DEF UnlockInternal, Goto
      <2>2. Elsewhere /\ Wakeups /\ d_ptr'[w] = d_ptr[w]
            BY <1>6, <1>g, <2>1, <1>w DEF Elsewhere, TakeWakeup, WakeUp
      <2>3. t \in Owners(w) /\ t \in Holders(w)'
            BY <1>e, <1>i, <2>1, <1>w DEF Owners, Holders, Owning
      <2>4. Holders(w)' = Holders(w)
            BY <1>h, <1>j, <2>2, <2>3
      <2>5. d_ptr[w] \in Privates => priv'[d_ptr[w]].wakeup = priv[d_ptr[w]].wakeup
            BY <2>2 DEF Wakeups
      <2>6. BatonOf(w)'
            BY <1>i, <2>1, <2>2, <2>4, <2>5, PrivatesAssumption DEF BatonOf
      <2>7. QED BY <1>f, <1>i, <2>2, <2>6 DEF Wakeups
<1>7. CASE TakeWakeup(t)
      <2>1. /\ pc[t] \in {"wait", "woken", "timedOut"} /\ priv[d[t]].wakeup /\ d[t] \in Privates
            /\ UNCHANGED <<d_ptr, mutex, d>> /\ pc' = [pc EXCEPT ![t] = "taken"]
            BY <1>7, <1>a DEF TakeWakeup, Goto, Fields, InHand, Held, Referenced, Counted
      <2>2. Word(t) = d[t]
            BY <1>a, <2>1 DEF WordSound, On
      <2>3. WakeupSet(d[t], FALSE)
            BY <1>7, <1>a, FlagSteps
      <2>4. Elsewhere /\ d_ptr'[w] = d_ptr[w]
            BY <2>1, <1>w DEF Elsewhere
      <2>5. Holders(w) = {}
            BY <1>i, <2>1, <2>2 DEF BatonOf
      <2>6. t \in Owners(w)'
            BY <1>e, <2>1, <1>w DEF Owners, Owning, Settling
      <2>7. Holders(w)' = {t}
            BY <1>h, <1>j, <2>4, <2>5, <2>6
      <2>8. BatonOf(w)'
            BY <1>i, <2>1, <2>2, <2>3, <2>4, <2>6, <2>7, PrivatesAssumption DEF BatonOf, WakeupSet
      <2>9. QED BY <1>f, <1>i, <2>2, <2>3, <2>4, <2>8 DEF WakeupSet
<1>8. CASE WakeUp(t)
      <2>1. /\ pc[t] = "wakeUp" /\ d[t] \in Privates /\ UNCHANGED <<d_ptr, mutex, d>>
            /\ pc'[t] = "dropAndLeave"
            BY <1>8, <1>a, <1>e DEF WakeUp, Sleepers, Goto, Fields, InHand, Held, Leaving
      <2>2. Word(t) = d[t]
            BY <1>a, <2>1 DEF WordSound, On
      <2>3. WakeupSet(d[t], TRUE)
            BY <1>8, <1>a, FlagSteps
      <2>4. Elsewhere /\ d_ptr'[w] = d_ptr[w]
            BY <2>1, <1>w DEF Elsewhere
      <2>5. t \in Holders(w) /\ t \notin Holders(w)'
            BY <1>i, <2>1, <2>2, <1>w DEF Holders, Owners, Owning, Settling, Grabbed
      <2>6. Holders(w)' = {}
            BY <1>h, <1>i, <1>j, <2>4, <2>5 DEF BatonOf
      <2>7. BatonOf(w)'
            BY <1>i, <1>j, <2>1, <2>2, <2>3, <2>4, <2>6, PrivatesAssumption DEF BatonOf, WakeupSet
      <2>8. QED BY <1>f, <1>i, <2>2, <2>3, <2>4, <2>7 DEF WakeupSet
<1> USE DEF Quiet, Goto, Forget, Owners, Holders, Owning, Settling, Grabbed
<1>9. CASE Call(t) \/ Load(t) \/ Allocate(t) \/ Flag(t) \/ Ref(t) \/ Recheck(t) \/ Count(t)
      BY <1>9, <1>d, <1>e, <1>g
         DEF Call, Load, Allocate, Flag, Ref, Recheck, Count, TakeWakeup, WakeUp
<1>10. CASE ClearWaiters(t) \/ Verify(t) \/ Uncount(t) \/ MissWakeup(t) \/ CondTimeout(t)
            \/ SpuriousWakeup(t) \/ Taken(t) \/ DropFlag(t) \/ Refused(t)
      BY <1>10, <1>d, <1>e, <1>g
         DEF ClearWaiters, Verify, Uncount, MissWakeup, CondTimeout, SpuriousWakeup, Taken,
             DropFlag, Refused, TakeWakeup, WakeUp
<1>11. CASE Discount(t) \/ GiveUp(t) \/ RaiseFlag(t) \/ Drop(t)
      BY <1>11, <1>d, <1>e, <1>g
         DEF Discount, GiveUp, RaiseFlag, Drop, TakeWakeup, WakeUp
<1>12. CASE LowerFlag(t) \/ DropLowered(t) \/ Settle(t)
      BY <1>12, <1>d, <1>e, <1>g
         DEF LowerFlag, DropLowered, Settle, TakeWakeup, WakeUp
<1>13. CASE \/ FastTryLock(t) /\ Word(t) # 0
            \/ Install(t) /\ Word(t) # dummyLocked
            \/ FastTryUnlock(t) /\ Word(t) # dummyLocked
      BY <1>13, <1>d, <1>e, <1>g
         DEF FastTryLock, Install, FastTryUnlock, TakeWakeup, WakeUp
<1>14. CASE Word(t) # d[t] /\ (Grab(t) \/ ClearWord(t))
      BY <1>14, <1>d, <1>e, <1>g
         DEF Grab, ClearWord, TakeWakeup, WakeUp, Word
<1>15. QED BY <1>2, <1>3, <1>4, <1>5, <1>6, <1>7, <1>8, <1>9, <1>10, <1>11, <1>12, <1>13, <1>14
           DEF Step

-----------------------------------------------------------------------------
(* Counting the waiters *)

\* One thread more or less makes one more or less.
LEMMA OneMoreOrLess ==
  ASSUME NEW S, NEW R, S \subseteq Threads, R \subseteq Threads, NEW t \in Threads,
         \A s \in Threads : s # t => (s \in R <=> s \in S)
  PROVE  /\ Cardinality(S) \in Nat /\ Cardinality(R) \in Nat
         /\ Cardinality(R) = Cardinality(S) + One(t \in R) - One(t \in S)
         /\ t \in S => Cardinality(S) > 0
<1>1. IsFiniteSet(S) /\ IsFiniteSet(R) /\ Cardinality(S) \in Nat /\ Cardinality(R) \in Nat
      BY BigNumberAssumption, FS_Subset, FS_CardinalityType
<1>2. CASE t \in S /\ t \in R
      <2>1. R = S
            BY <1>2
      <2>2. Cardinality(S) # 0
            BY <1>1, <1>2, FS_EmptySet
      <2>3. QED BY <1>1, <1>2, <2>1, <2>2 DEF One
<1>3. CASE t \notin S /\ t \notin R
      <2>1. R = S
            BY <1>3
      <2>2. QED BY <1>1, <1>3, <2>1 DEF One
<1>4. CASE t \notin S /\ t \in R
      <2>1. R = S \cup {t}
            BY <1>4
      <2>2. Cardinality(R) = Cardinality(S) + 1
            BY <1>1, <1>4, <2>1, FS_AddElement
      <2>3. QED BY <1>1, <1>4, <2>2 DEF One
<1>5. CASE t \in S /\ t \notin R
      <2>1. R = S \ {t}
            BY <1>5
      <2>2. Cardinality(R) = Cardinality(S) - 1
            BY <1>1, <1>5, <2>1, FS_RemoveElement
      <2>3. Cardinality(S) # 0
            BY <1>1, <1>5, FS_EmptySet
      <2>4. QED BY <1>1, <1>5, <2>2, <2>3 DEF One
<1>6. QED BY <1>2, <1>3, <1>4, <1>5

\* Other threads stay counted, and go on unlocking.
LEMMA OthersCounted ==
  ASSUME NEW t \in Threads, Others(t), NEW p \in Privates
  PROVE  /\ \A s \in Threads : s # t => (s \in CountedOn(p)' <=> s \in CountedOn(p))
         /\ \A s \in Threads : s # t /\ d[s] = p /\ pc[s] \in Clearing \cup {"settleTransfer"}
              => d'[s] = p /\ pc'[s] = pc[s]
BY DEF Others, CountedOn, Counted, Settling, Clearing

\* A count stays right if it is not written and the same threads are counted.
LEMMA CountStays ==
  ASSUME NEW t \in Threads, Others(t), NEW p \in Privates, CountOf(p),
         priv'[p].waiters = priv[p].waiters,
         t \in CountedOn(p)' <=> t \in CountedOn(p),
         d[t] = p /\ pc[t] \in Clearing => d'[t] = p /\ pc'[t] \in Clearing,
         ~(d[t] = p /\ pc[t] = "settleTransfer")
  PROVE  CountOf(p)'
<1>1. CountedOn(p)' = CountedOn(p)
      <2>1. CountedOn(p) \subseteq Threads /\ CountedOn(p)' \subseteq Threads
            BY DEF CountedOn
      <2>2. \A s \in Threads : s \in CountedOn(p)' <=> s \in CountedOn(p)
            BY OthersCounted
      <2>3. QED BY <2>1, <2>2
<1>2. Unlocking(p, Clearing) => Unlocking(p, Clearing)'
      BY OthersCounted DEF Unlocking
<1>3. Unlocking(p, {"settleTransfer"}) => Unlocking(p, {"settleTransfer"})'
      BY OthersCounted DEF Unlocking
<1>4. QED BY <1>1, <1>2, <1>3 DEF CountOf

\* derefWaiters() finds the number of counted threads behind either value.
LEMMA Unmarked ==
  ASSUME NEW p \in Privates, CountOf(p)
  PROVE  LET n == priv[p].waiters
         IN  (IF n < 0 THEN n + BigNumber ELSE n) = Cardinality(CountedOn(p))
<1> DEFINE k == Cardinality(CountedOn(p))
<1>1. k \in Nat /\ k < BigNumber
      BY CountedOnSize
<1>2. priv[p].waiters = k \/ priv[p].waiters = k - BigNumber
      BY DEF CountOf
<1> HIDE DEF k
<1>3. QED
      <2>1. LET n == priv[p].waiters IN (IF n < 0 THEN n + BigNumber ELSE n) = k
            BY <1>1, <1>2, BigNumberAssumption
      <2>2. QED BY <2>1 DEF k

\* waiters is right on every private.
LEMMA CountOfInductive ==
  ASSUME IInv, [Next]_vars, NEW p \in Privates
  PROVE  CountOf(p)'
<1>a. Fields /\ ServesOne /\ WordSound /\ Baton /\ CountSound /\ CountOf(p)
      BY DEF IInv, CountSound
<1>1. CASE UNCHANGED vars
      BY <1>a, <1>1 DEF vars, CountOf, CountedOn, Unlocking
<1> SUFFICES ASSUME NEW t \in Threads, Call(t) \/ Step(t) \/ SpuriousWakeup(t) \/ ClearWaiters(t)
             PROVE  CountOf(p)'
    BY <1>1 DEF Next
<1>c. Others(t)
      BY <1>a, StepOfOne
<1>e. /\ mutex \in [Threads -> Mutexes] /\ pc \in [Threads -> Places] /\ mutex[t] \in Mutexes
      /\ d \in [Threads -> Privates \cup {NoPrivate}] /\ priv \in [Privates -> PrivateFields]
      /\ priv[p].waiters \in Int
      BY <1>a DEF Fields, PrivateFields
<1> DEFINE Quiet == /\ t \in CountedOn(p)' <=> t \in CountedOn(p)
                    /\ d[t] = p /\ pc[t] \in Clearing => d'[t] = p /\ pc'[t] \in Clearing
                    /\ ~(d[t] = p /\ pc[t] = "settleTransfer")
           n == Cardinality(CountedOn(p))
           n1 == Cardinality(CountedOn(p)')
           Writes == \/ Count(t) \/ Uncount(t) \/ ClearWaiters(t) \/ Discount(t) \/ GiveUp(t)
                     \/ Settle(t) \/ UnlockInternal(t)
<1>d. priv'[p].waiters = priv[p].waiters /\ Quiet => CountOf(p)'
      BY <1>a, <1>c, CountStays
<1>f. Writes \/ priv'[p].waiters = priv[p].waiters
      BY FieldsKept
<1>g. /\ n \in Nat /\ n < BigNumber /\ n1 \in Nat
      /\ n1 = n + One(t \in CountedOn(p)') - One(t \in CountedOn(p))
      /\ t \in CountedOn(p) => n > 0
      <2>1. n \in Nat /\ n < BigNumber
            BY CountedOnSize
      <2>2. CountedOn(p) \subseteq Threads /\ CountedOn(p)' \subseteq Threads
            BY DEF CountedOn
      <2>3. \A s \in Threads : s # t => (s \in CountedOn(p)' <=> s \in CountedOn(p))
            BY <1>c, OthersCounted
      <2>4. QED BY <2>1, <2>2, <2>3, OneMoreOrLess
<1>h. priv'[p].waiters = n1 => CountOf(p)'
      BY DEF CountOf
<1>i. (IF priv[p].waiters < 0 THEN priv[p].waiters + BigNumber ELSE priv[p].waiters) = n
      BY <1>a, Unmarked
<1>j. \/ priv[p].waiters = n
      \/ priv[p].waiters = n - BigNumber /\ n = 0 /\ Unlocking(p, Clearing)
      \/ priv[p].waiters = n - BigNumber /\ n > 0 /\ Unlocking(p, {"settleTransfer"})
      BY <1>a DEF CountOf
<1>l. priv'[p].waiters = n1 - BigNumber /\ n1 > 0 /\ Unlocking(p, {"settleTransfer"})' => CountOf(p)'
      BY DEF CountOf
<1>m. priv'[p].waiters = n1 - BigNumber /\ n1 = 0 /\ Unlocking(p, Clearing)' => CountOf(p)'
      BY DEF CountOf
\* A thread that unlocks the mutex of p is its holder, if p is still in the word.
<1>n. ASSUME NEW u \in Threads, d[u] = p, pc[u] \in Clearing \cup {"settleTransfer"}, Word(t) = p
      PROVE  u \in Holders(mutex[t])
      <2>1. pc[u] \in Past
            BY <1>n DEF Past, Held, Clearing, Leaving
      <2>2. mutex[u] = mutex[t] /\ Word(u) = d[u]
            BY <1>a, <1>e, <1>n, <2>1 DEF ServesOne, Word
      <2>3. pc[u] \notin Off
            BY <1>a, <2>2 DEF WordSound
      <2>4. QED BY <1>n, <2>2, <2>3 DEF Clearing, Off, Holders, Word
<1>o. ASSUME NEW u \in Threads, d[u] = p, pc[u] = "settleTransfer", pc[t] \in Past, d[t] = p
      PROVE  Word(t) = p
      <2>1. Word(u) = p /\ mutex[u] \in Mutexes
            BY <1>a, <1>e, <1>o DEF WordSound, On
      <2>2. mutex[t] = mutex[u]
            BY <1>a, <1>o, <2>1 DEF ServesOne, Word
      <2>3. QED BY <2>1, <2>2 DEF Word
<1> HIDE DEF Quiet, n, n1
<1>2. CASE Count(t)
      <2>1. /\ pc[t] = "count" /\ d[t] \in Privates /\ UNCHANGED <<mutex, d>>
            BY <1>2, <1>a DEF Count, Fields, InHand, Held, Referenced
      <2>2. CASE priv[d[t]].waiters = -BigNumber
            <3>1. UNCHANGED priv /\ pc'[t] = "grab"
                  BY <1>2, <1>e, <2>2 DEF Count, Goto
            <3>2. Quiet
                  BY <2>1, <3>1 DEF Quiet, CountedOn, Counted, Settling, Clearing
            <3>3. QED BY <1>d, <3>1, <3>2
      <2>3. CASE priv[d[t]].waiters # -BigNumber
            <3>1. WaitersSet(d[t], priv[d[t]].waiters + 1) /\ pc'[t] = "verifyCounted"
                  BY <1>2, <1>a, <1>e, <2>3, WaitersSteps DEF Count, Goto
            <3>2. CASE d[t] # p
                  BY <1>d, <2>1, <3>1, <3>2 DEF WaitersSet, Quiet, CountedOn
            <3>3. CASE d[t] = p
                  <4>1. t \in CountedOn(p)' /\ t \notin CountedOn(p)
                        BY <2>1, <3>1, <3>3 DEF CountedOn, Counted, Settling
                  <4>2. n1 = n + 1 /\ priv'[p].waiters = priv[p].waiters + 1
                        BY <1>g, <3>1, <3>3, <4>1 DEF One, WaitersSet
                  <4>3. CASE priv[p].waiters = n
                        BY <1>h, <4>2, <4>3
                  <4>4. CASE priv[p].waiters # n
                        <5>1. priv[p].waiters = n - BigNumber /\ n > 0 /\ Unlocking(p, {"settleTransfer"})
                              BY <1>g, <1>j, <2>3, <3>3, <4>4, BigNumberAssumption
                        <5>2. Unlocking(p, {"settleTransfer"})'
                              BY <1>c, <2>1, <5>1, OthersCounted DEF Unlocking
                        <5>3. n1 > 0 /\ priv'[p].waiters = n1 - BigNumber
                              BY <1>g, <4>2, <5>1, BigNumberAssumption
                        <5>4. QED BY <1>l, <5>2, <5>3
                  <4>5. QED BY <4>3, <4>4
            <3>4. QED BY <3>2, <3>3
      <2>4. QED BY <2>2, <2>3
<1>3. CASE Uncount(t)
      <2>1. /\ pc[t] = "uncount" /\ d[t] \in Privates /\ UNCHANGED <<mutex, d>>
            /\ pc'[t] = "dropAndRetry" /\ WaitersSet(d[t], priv[d[t]].waiters - 1)
            BY <1>3, <1>a, <1>e, WaitersSteps DEF Uncount, Goto, Fields, InHand, Held, Referenced, Counted
      <2>2. CASE d[t] # p
            BY <1>d, <2>1, <2>2 DEF WaitersSet, Quiet, CountedOn
      <2>3. CASE d[t] = p
            <3>1. t \notin CountedOn(p)' /\ t \in CountedOn(p)
                  BY <2>1, <2>3 DEF CountedOn, Counted, Settling
            <3>2. n1 = n - 1 /\ n > 0 /\ priv'[p].waiters = priv[p].waiters - 1
                  BY <1>g, <2>1, <2>3, <3>1 DEF One, WaitersSet
            <3>3. ~Unlocking(p, {"settleTransfer"})
                  <4>1. Word(t) # p /\ pc[t] \in Past
                        BY <1>a, <2>1, <2>3 DEF WordSound, Off, Past, Held, Referenced, Counted
                  <4>2. QED BY <1>o, <2>3, <4>1 DEF Unlocking
            <3>4. priv[p].waiters = n
                  BY <1>j, <3>2, <3>3
            <3>5. QED BY <1>h, <3>2, <3>4
      <2>4. QED BY <2>2, <2>3
<1>4. CASE ClearWaiters(t)
      <2>1. /\ pc[t] = "clearWaiters" /\ d[t] \in Privates /\ UNCHANGED <<mutex, d>>
            /\ pc'[t] = "dropAndOwn" /\ WaitersSet(d[t], 0)
            BY <1>4, <1>a, <1>e, WaitersSteps DEF ClearWaiters, Goto, Fields, InHand, Held, Grabbed
      <2>2. CASE d[t] # p
            BY <1>d, <2>1, <2>2 DEF WaitersSet, Quiet, CountedOn
      <2>3. CASE d[t] = p
            <3>1. t \notin CountedOn(p)' /\ t \notin CountedOn(p)
                  BY <2>1, <2>3 DEF CountedOn, Counted, Settling
            <3>2. n1 = n /\ priv'[p].waiters = 0
                  BY <1>g, <2>1, <2>3, <3>1 DEF One, WaitersSet
            <3>3. priv[p].waiters = -BigNumber
                  BY <1>a, <2>1, <2>3 DEF CountSound
            <3>4. n = 0
                  BY <1>g, <1>j, <3>3, BigNumberAssumption
            <3>5. QED BY <1>h, <3>2, <3>4
      <2>4. QED BY <2>2, <2>3
<1>5. CASE Discount(t) \/ GiveUp(t)
      <2> DEFINE settled == IF priv[d[t]].waiters < 0 THEN priv[d[t]].waiters + BigNumber
                                                      ELSE priv[d[t]].waiters
      <2>1. /\ pc[t] \in {"discount", "giveUp"} /\ d[t] \in Privates
            /\ pc'[t] \in {"owner", "raiseFlag"} /\ WaitersSet(d[t], settled - 1)
            /\ d'[t] \in {d[t], NoPrivate}
            BY <1>5, <1>a, <1>e, WaitersSteps
               DEF Discount, GiveUp, Goto, Forget, Fields, InHand, Held, Referenced, Counted, Settling
      <2>2. t \notin CountedOn(p)'
            BY <2>1 DEF CountedOn, Counted, Settling
      <2>3. CASE d[t] # p
            BY <1>d, <2>1, <2>2, <2>3 DEF WaitersSet, Quiet, CountedOn
      <2>4. CASE d[t] = p
            <3>1. t \in CountedOn(p)
                  BY <2>1, <2>4 DEF CountedOn, Counted, Settling
            <3>2. settled = n /\ priv'[p].waiters = settled - 1
                  BY <1>i, <2>1, <2>4 DEF WaitersSet
            <3>3. n1 = n - 1
                  BY <1>g, <2>2, <3>1 DEF One
            <3>4. QED BY <1>h, <3>2, <3>3
      <2>5. QED BY <2>3, <2>4
<1>6. CASE Settle(t)
      <2> DEFINE settled == IF priv[d[t]].waiters < 0 THEN priv[d[t]].waiters + BigNumber
                                                      ELSE priv[d[t]].waiters
      <2>1. /\ pc[t] \in {"settle", "settleTransfer"} /\ d[t] \in Privates
            /\ pc'[t] \in {"dropAndLeave", "wakeUp"} /\ WaitersSet(d[t], settled)
            /\ UNCHANGED d
            BY <1>6, <1>a, <1>e, WaitersSteps
               DEF Settle, Goto, Fields, InHand, Held, Leaving
      <2>2. t \notin CountedOn(p)' /\ t \notin CountedOn(p)
            BY <2>1 DEF CountedOn, Counted, Settling
      <2>3. CASE d[t] # p
            BY <1>d, <2>1, <2>2, <2>3 DEF WaitersSet, Quiet
      <2>4. CASE d[t] = p
            <3>1. settled = n /\ priv'[p].waiters = settled
                  BY <1>i, <2>1, <2>4 DEF WaitersSet
            <3>2. n1 = n
                  BY <1>g, <2>2 DEF One
            <3>3. QED BY <1>h, <3>1, <3>2
      <2>5. QED BY <2>3, <2>4
<1>7. CASE UnlockInternal(t)
      <2>1. /\ pc[t] = "unlockInternal" /\ Word(t) \in Privates /\ d'[t] = Word(t)
            /\ d[t] \notin Privates /\ WaitersSet(Word(t), priv[Word(t)].waiters - BigNumber)
            /\ pc'[t] = IF priv[Word(t)].waiters = 0 THEN "clearWord" ELSE "settleTransfer"
            BY <1>7, <1>a, <1>e, WaitersSteps
               DEF UnlockInternal, Goto, Fields, InHand, Held, Referenced, Counted, Settling,
                   Grabbed, Leaving
      <2>2. t \notin CountedOn(p)' /\ t \notin CountedOn(p)
            BY <2>1 DEF CountedOn, Counted, Settling
      <2>3. CASE Word(t) # p
            BY <1>d, <2>1, <2>2, <2>3 DEF WaitersSet, Quiet
      <2>4. CASE Word(t) = p
            <3>1. \A places \in SUBSET (Clearing \cup {"settleTransfer"}) : ~Unlocking(p, places)
                  <4>1. t \in Holders(mutex[t])
                        BY <2>1 DEF Holders, Owners, Owning
                  <4>2. \A u \in Threads : d[u] = p => pc[u] \notin Clearing \cup {"settleTransfer"}
                        BY <1>a, <1>e, <1>n, <2>1, <2>4, <4>1 DEF Baton, BatonOf
                  <4>3. QED BY <4>2 DEF Unlocking
            <3>2. priv[p].waiters = n
                  BY <1>j, <3>1
            <3>3. n1 = n /\ priv'[p].waiters = n1 - BigNumber
                  BY <1>g, <2>1, <2>2, <2>4, <3>2 DEF One, WaitersSet
            <3>4. CASE n = 0
                  <4>1. Unlocking(p, Clearing)'
                        BY <2>1, <2>4, <3>2, <3>4 DEF Unlocking, Clearing
                  <4>2. QED BY <1>m, <3>3, <3>4, <4>1
            <3>5. CASE n # 0
                  <4>1. Unlocking(p, {"settleTransfer"})'
                        BY <2>1, <2>4, <3>2, <3>5 DEF Unlocking
                  <4>2. n1 > 0
                        BY <1>g, <3>3, <3>5
                  <4>3. QED BY <1>l, <3>3, <4>1, <4>2
            <3>6. QED BY <3>4, <3>5
      <2>5. QED BY <2>3, <2>4
<1> USE DEF Quiet, Goto, Forget, CountedOn, Counted, Settling, Clearing
<1>8. CASE Call(t) \/ FastTryLock(t) \/ Load(t) \/ Allocate(t) \/ Install(t) \/ Flag(t) \/ Ref(t)
      BY <1>8, <1>d, <1>e, <1>f
         DEF Call, FastTryLock, Load, Allocate, Install, Flag, Ref, Count, Uncount, ClearWaiters,
             Discount, GiveUp, Settle, UnlockInternal
<1>9. CASE Recheck(t) \/ Grab(t)
      BY <1>9, <1>d, <1>e, <1>f
         DEF Recheck, Grab, Count, Uncount, ClearWaiters, Discount, GiveUp, Settle, UnlockInternal
<1>10. CASE Verify(t)
      <2>1. pc[t] = "verifyUncounted" => Word(t) # d[t]
            BY <1>a DEF WordSound, Off
      <2>2. QED BY <1>10, <1>d, <1>e, <1>f, <2>1
                DEF Verify, Count, Uncount, ClearWaiters, Discount, GiveUp, Settle, UnlockInternal
<1>11. CASE TakeWakeup(t) \/ MissWakeup(t) \/ CondTimeout(t) \/ SpuriousWakeup(t) \/ Taken(t)
            \/ DropFlag(t)
      BY <1>11, <1>d, <1>e, <1>f
         DEF TakeWakeup, MissWakeup, CondTimeout, SpuriousWakeup, Taken, DropFlag, Count, Uncount,
             ClearWaiters, Discount, GiveUp, Settle, UnlockInternal
<1>12. CASE RaiseFlag(t) \/ Refused(t) \/ Drop(t) \/ FastTryUnlock(t)
      BY <1>12, <1>d, <1>e, <1>f
         DEF RaiseFlag, Refused, Drop, FastTryUnlock, Count, Uncount,
             ClearWaiters, Discount, GiveUp, Settle, UnlockInternal
<1>13. CASE ClearWord(t) \/ LowerFlag(t) \/ DropLowered(t) \/ WakeUp(t)
      BY <1>13, <1>d, <1>e, <1>f
         DEF ClearWord, LowerFlag, DropLowered, WakeUp, Sleepers, Count, Uncount,
             ClearWaiters, Discount, GiveUp, Settle, UnlockInternal
<1>14. QED BY <1>2, <1>3, <1>4, <1>5, <1>6, <1>7, <1>8, <1>9, <1>10, <1>11, <1>12, <1>13 DEF Step

\* A private comes into a word by install only.
LEMMA WordsKept ==
  ASSUME Fields, NEW t \in Threads,
         Call(t) \/ Step(t) \/ SpuriousWakeup(t) \/ ClearWaiters(t),
         NEW m \in Mutexes, d_ptr'[m] \in Privates, d_ptr'[m] # d_ptr[m]
  PROVE  /\ Install(t) /\ pc[t] = "install" /\ m = mutex[t] /\ d_ptr'[m] = d[t]
         /\ d_ptr[m] = dummyLocked
<1>0. d_ptr \in [Mutexes -> {0, 1} \cup Privates]
      BY DEF Fields
<1>1. CASE FastTryLock(t) \/ Grab(t) \/ FastTryUnlock(t) \/ ClearWord(t)
      <2>1. UNCHANGED d_ptr \/ SetWord(t, 0) \/ SetWord(t, 1)
            BY <1>1 DEF FastTryLock, Grab, FastTryUnlock, ClearWord, dummyLocked
      <2>2. QED BY <1>0, <2>1, PrivatesAssumption DEF SetWord
<1>2. CASE Install(t)
      BY <1>0, <1>2 DEF Install, SetWord, Word
<1>3. CASE Call(t) \/ Load(t) \/ Allocate(t) \/ Flag(t) \/ Ref(t) \/ Recheck(t) \/ Count(t)
           \/ ClearWaiters(t) \/ Verify(t) \/ Uncount(t)
      BY <1>3 DEF Call, Load, Allocate, Flag, Ref, Recheck, Count, ClearWaiters, Verify, Uncount
<1>4. CASE \/ TakeWakeup(t) \/ MissWakeup(t) \/ CondTimeout(t) \/ SpuriousWakeup(t) \/ Taken(t)
           \/ DropFlag(t) \/ Discount(t) \/ GiveUp(t) \/ RaiseFlag(t) \/ Refused(t) \/ Drop(t)
      BY <1>4 DEF TakeWakeup, MissWakeup, CondTimeout, SpuriousWakeup, Taken, DropFlag, Discount,
                  GiveUp, RaiseFlag, Refused, Drop
<1>5. CASE UnlockInternal(t) \/ LowerFlag(t) \/ DropLowered(t) \/ Settle(t) \/ WakeUp(t)
      BY <1>5 DEF UnlockInternal, LowerFlag, DropLowered, Settle, WakeUp
<1>6. QED BY <1>1, <1>2, <1>3, <1>4, <1>5 DEF Step

\* Who has seen its private in the word and finds it there finds nothing new.
LEMMA SeenBefore ==
  ASSUME IInv, NEW t \in Threads,
         Call(t) \/ Step(t) \/ SpuriousWakeup(t) \/ ClearWaiters(t),
         NEW s \in Threads, s # t, pc[s] \in Past, d_ptr'[mutex[s]] = d[s]
  PROVE  Word(s) = d[s] /\ d[s] \in Privates
<1>1. Fields /\ ServesOne
      BY DEF IInv
<1>2. mutex[s] \in Mutexes /\ d[s] \in Privates
      BY <1>1 DEF Fields, Past, InHand
<1>3. ASSUME d_ptr'[mutex[s]] # d_ptr[mutex[s]] PROVE FALSE
      <2>1. pc[t] = "install" /\ d[s] = d[t]
            BY <1>1, <1>2, <1>3, WordsKept
      <2>2. QED BY <1>1, <2>1 DEF ServesOne
<1>4. QED BY <1>2, <1>3 DEF Word

\* While a thread can clear the word, -BigNumber stays.
LEMMA MarkStays ==
  ASSUME IInv, NEW t \in Threads,
         Call(t) \/ Step(t) \/ SpuriousWakeup(t) \/ ClearWaiters(t),
         NEW s \in Threads, s # t, pc[s] = "clearWord", Word(s) = d[s]
  PROVE  priv'[d[s]].waiters = -BigNumber
<1>1. Fields /\ ServesOne /\ WordSound /\ Baton /\ CountSound
      BY DEF IInv
<1>2. d[s] \in Privates /\ mutex[s] \in Mutexes /\ mutex[t] \in Mutexes
      BY <1>1 DEF Fields, InHand, Held, Leaving
<1>3. priv[d[s]].waiters = -BigNumber
      BY <1>1 DEF CountSound
<1>4. CountedOn(d[s]) = {}
      BY <1>1, NobodyBehind
<1>5. s \in Holders(mutex[s]) /\ \A u \in Holders(mutex[s]) : u = s
      BY <1>1, <1>2 DEF Baton, BatonOf, Holders, Word
<1> SUFFICES priv'[d[s]].waiters = priv[d[s]].waiters
    BY <1>3
<1>6. CASE Count(t)
      <2>1. UNCHANGED priv \/ priv[d[t]].waiters # -BigNumber
            BY <1>6 DEF Count
      <2>2. CASE d[t] = d[s]
            BY <1>3, <2>1, <2>2
      <2>3. CASE d[t] # d[s]
            <3>1. UNCHANGED priv \/ WaitersSet(d[t], priv[d[t]].waiters + 1)
                  BY <1>1, <1>6, <2>1, WaitersSteps
            <3>2. QED BY <1>2, <2>3, <3>1 DEF WaitersSet
      <2>4. QED BY <2>2, <2>3
<1>7. CASE Uncount(t) \/ Discount(t) \/ GiveUp(t)
      <2>1. \E v : WaitersSet(d[t], v)
            BY <1>1, <1>7, WaitersSteps
      <2>2. t \in CountedOn(d[t])
            BY <1>7 DEF Uncount, Discount, GiveUp, CountedOn, Counted, Settling
      <2>3. d[t] # d[s]
            BY <1>4, <2>2
      <2>4. QED BY <1>2, <2>1, <2>3 DEF WaitersSet
<1>8. CASE ClearWaiters(t) \/ Settle(t)
      <2>1. \E v : WaitersSet(d[t], v)
            BY <1>1, <1>8, WaitersSteps
      <2>2. pc[t] \in {"clearWaiters", "settle", "settleTransfer"}
            BY <1>8 DEF ClearWaiters, Settle
      <2>3. d[t] # d[s]
            <3>1. SUFFICES ASSUME d[t] = d[s] PROVE FALSE
                  OBVIOUS
            <3>2. pc[t] \in Past
                  BY <2>2 DEF Past, Held, Grabbed, Leaving
            <3>3. mutex[t] = mutex[s] /\ Word(t) = d[t]
                  BY <1>1, <1>2, <3>1, <3>2 DEF ServesOne, Word
            <3>4. pc[t] = "settleTransfer"
                  BY <1>1, <2>2, <3>3 DEF WordSound, Off
            <3>5. t \in Holders(mutex[s])
                  BY <3>3, <3>4 DEF Holders, Word
            <3>6. QED BY <1>5, <3>5
      <2>4. QED BY <1>2, <2>1, <2>3 DEF WaitersSet
<1>9. CASE UnlockInternal(t)
      <2>1. Word(t) # d[s]
            <3>1. SUFFICES ASSUME Word(t) = d[s] PROVE FALSE
                  OBVIOUS
            <3>2. mutex[t] = mutex[s]
                  BY <1>1, <1>2, <3>1 DEF ServesOne, Word
            <3>3. t \in Holders(mutex[s])
                  BY <1>9, <3>2 DEF UnlockInternal, Holders, Owners, Owning
            <3>4. QED BY <1>5, <3>3
      <2>2. WaitersSet(Word(t), priv[Word(t)].waiters - BigNumber)
            BY <1>1, <1>9, WaitersSteps
      <2>3. QED BY <1>2, <2>1, <2>2 DEF WaitersSet
<1>10. QED BY <1>2, <1>6, <1>7, <1>8, <1>9, FieldsKept

\* waiters is the number of waiters, or the mark of an unlock that is under way.
LEMMA CountSoundInductive == Unhurried /\ IInv /\ [Next]_vars => CountSound'
<1> SUFFICES ASSUME Unhurried, IInv, [Next]_vars PROVE CountSound'
    OBVIOUS
<1>a. Fields /\ OneHurried /\ ServesOne /\ WordSound /\ Baton /\ CountSound
      BY DEF IInv
<1>1. CASE UNCHANGED vars
      BY <1>a, <1>1 DEF vars, CountSound, CountOf, CountedOn, Unlocking, Word
<1>b. \A p \in Privates : CountOf(p)'
      BY CountOfInductive
<1> DEFINE Seen(s) == (pc[s] = "clearWord" /\ Word(s) = d[s]) \/ pc[s] = "clearWaiters"
           Meets(s) == \E u \in Threads : mutex[u] = mutex[s] /\ d[u] = d[s] /\ pc[u] = "clearWord"
<1> SUFFICES ASSUME NEW t \in Threads, Call(t) \/ Step(t) \/ SpuriousWakeup(t) \/ ClearWaiters(t),
                    Calm \/ ClearWaiters(t)
             PROVE  CountSound'
    BY <1>1, CalmSteps
<1>c. Others(t)
      BY <1>a, StepOfOne
<1>e. /\ d_ptr \in [Mutexes -> {0, 1} \cup Privates] /\ mutex \in [Threads -> Mutexes]
      /\ pc \in [Threads -> Places] /\ d \in [Threads -> Privates \cup {NoPrivate}]
      BY <1>a DEF Fields
<1>f. ASSUME NEW s \in Threads, s # t, Seen(s)'
      PROVE  (priv[d[s]].waiters = -BigNumber)'
      <2>1. CASE pc'[s] = "clearWord" /\ d_ptr'[mutex'[s]] = d'[s]
            <3>1. pc[s] = "clearWord" /\ d'[s] = d[s] /\ d_ptr'[mutex[s]] = d[s]
                  BY <1>c, <1>f, <2>1 DEF Others
            <3>2. pc[s] \in Past
                  BY <3>1 DEF Past, Held, Leaving
            <3>3. Word(s) = d[s]
                  BY <1>f, <3>1, <3>2, SeenBefore
            <3>4. QED BY <1>f, <3>1, <3>3, MarkStays
      <2>2. CASE pc'[s] = "clearWaiters"
            BY <1>a, <1>c, <1>f, <2>2 DEF Others, Calm, OneHurried, ClearWaiters
      <2>3. QED BY <1>f, <2>1, <2>2 DEF Word
<1>g. ASSUME Seen(t)'
      PROVE  (priv[d[t]].waiters = -BigNumber)'
      <2>1. (UnlockInternal(t) /\ priv[Word(t)].waiters = 0) \/ (Grab(t) /\ Word(t) = d[t])
            <3>1. pc'[t] \in {"clearWord", "clearWaiters"}
                  BY <1>g
            <3> HIDE DEF Seen
            <3> USE DEF Goto, Forget
            <3>2. ~(Call(t) \/ FastTryLock(t) \/ Load(t) \/ Allocate(t) \/ Install(t) \/ Flag(t) \/ Ref(t))
                  BY <1>e, <3>1 DEF Call, FastTryLock, Load, Allocate, Install, Flag, Ref
            <3>3. ~(Recheck(t) \/ Count(t) \/ ClearWaiters(t) \/ Verify(t) \/ Uncount(t) \/ TakeWakeup(t))
                  BY <1>e, <3>1 DEF Recheck, Count, ClearWaiters, Verify, Uncount, TakeWakeup
            <3>4. ~(\/ MissWakeup(t) \/ CondTimeout(t) \/ SpuriousWakeup(t) \/ Taken(t) \/ DropFlag(t)
                    \/ Discount(t) \/ GiveUp(t))
                  BY <1>e, <3>1 DEF MissWakeup, CondTimeout, SpuriousWakeup, Taken, DropFlag,
                                    Discount, GiveUp
            <3>5. ~(RaiseFlag(t) \/ Refused(t) \/ Drop(t) \/ FastTryUnlock(t) \/ ClearWord(t))
                  BY <1>e, <3>1 DEF RaiseFlag, Refused, Drop, FastTryUnlock, ClearWord
            <3>6. ~(LowerFlag(t) \/ DropLowered(t) \/ Settle(t) \/ WakeUp(t))
                  BY <1>e, <3>1 DEF LowerFlag, DropLowered, Settle, WakeUp, Sleepers
            <3>7. Grab(t) \/ UnlockInternal(t)
                  BY <3>2, <3>3, <3>4, <3>5, <3>6 DEF Step
            <3>8. QED BY <1>e, <3>1, <3>7 DEF Grab, UnlockInternal
      <2>2. CASE UnlockInternal(t) /\ priv[Word(t)].waiters = 0
            <3>1. WaitersSet(Word(t), 0 - BigNumber) /\ d'[t] = Word(t)
                  BY <1>a, <1>e, <2>2, WaitersSteps DEF UnlockInternal
            <3>2. 0 - BigNumber = -BigNumber
                  BY BigNumberAssumption
            <3>3. QED BY <3>1, <3>2 DEF WaitersSet
      <2>3. CASE Grab(t) /\ Word(t) = d[t]
            <3>1. PICK u \in Threads : mutex[u] = mutex[t] /\ d[u] = d[t] /\ pc[u] = "clearWord"
                  BY <1>a, <2>3 DEF CountSound, Grab
            <3>2. priv[d[u]].waiters = -BigNumber
                  BY <1>a, <2>3, <3>1 DEF CountSound, Word
            <3>3. QED BY <2>3, <3>1, <3>2 DEF Grab
      <2>4. QED BY <2>1, <2>2, <2>3
<1>h. ASSUME NEW s \in Threads, s # t, pc'[s] = "grab", (Word(s) = d[s])'
      PROVE  Meets(s)'
      <2>1. /\ pc[s] = "grab" /\ mutex'[s] = mutex[s] /\ d'[s] = d[s] /\ d_ptr'[mutex[s]] = d[s]
            BY <1>c, <1>h DEF Others, Word
      <2>2. pc[s] \in Past
            BY <2>1 DEF Past, Held, Referenced
      <2>3. Word(s) = d[s] /\ d[s] \in Privates
            BY <1>h, <2>1, <2>2, SeenBefore
      <2>4. PICK u \in Threads : mutex[u] = mutex[s] /\ d[u] = d[s] /\ pc[u] = "clearWord"
            BY <1>a, <2>1, <2>3 DEF CountSound
      <2>5. u # t
            <3>1. SUFFICES ASSUME u = t PROVE FALSE
                  OBVIOUS
            <3>2. Word(t) = d[t] /\ pc[t] = "clearWord"
                  BY <2>3, <2>4, <3>1 DEF Word
            <3>3. ClearWord(t)
                  BY <3>2 DEF Step, Call, SpuriousWakeup, ClearWaiters, FastTryLock, Load, Allocate,
                     Install, Flag, Ref, Recheck, Count, Grab, Verify, Uncount, TakeWakeup, MissWakeup,
                     CondTimeout, Taken, DropFlag, Discount, GiveUp, RaiseFlag, Refused, Drop,
                     FastTryUnlock, UnlockInternal, LowerFlag, DropLowered, Settle, WakeUp
            <3>4. d_ptr'[mutex[s]] = 0
                  BY <1>e, <2>4, <3>1, <3>2, <3>3 DEF ClearWord, SetWord
            <3>5. QED BY <2>1, <2>3, <3>4, PrivatesAssumption
      <2>6. QED BY <1>c, <2>1, <2>4, <2>5 DEF Others
<1>i. ASSUME pc'[t] = "grab", (Word(t) = d[t])'
      PROVE  Meets(t)'
      <2>1. Count(t)
            <3> USE DEF Goto, Forget
            <3>2. ~(Call(t) \/ FastTryLock(t) \/ Load(t) \/ Allocate(t) \/ Install(t) \/ Flag(t) \/ Ref(t))
                  BY <1>e, <1>i DEF Call, FastTryLock, Load, Allocate, Install, Flag, Ref
            <3>3. ~(Recheck(t) \/ Grab(t) \/ ClearWaiters(t) \/ Verify(t) \/ Uncount(t) \/ TakeWakeup(t))
                  BY <1>e, <1>i DEF Recheck, Grab, ClearWaiters, Verify, Uncount, TakeWakeup
            <3>4. ~(\/ MissWakeup(t) \/ CondTimeout(t) \/ SpuriousWakeup(t) \/ Taken(t) \/ DropFlag(t)
                    \/ Discount(t) \/ GiveUp(t))
                  BY <1>e, <1>i DEF MissWakeup, CondTimeout, SpuriousWakeup, Taken, DropFlag,
                                    Discount, GiveUp
            <3>5. ~(\/ RaiseFlag(t) \/ Refused(t) \/ Drop(t) \/ FastTryUnlock(t) \/ ClearWord(t)
                    \/ UnlockInternal(t))
                  BY <1>e, <1>i DEF RaiseFlag, Refused, Drop, FastTryUnlock, ClearWord, UnlockInternal
            <3>6. ~(LowerFlag(t) \/ DropLowered(t) \/ Settle(t) \/ WakeUp(t))
                  BY <1>e, <1>i DEF LowerFlag, DropLowered, Settle, WakeUp, Sleepers
            <3>7. QED BY <3>2, <3>3, <3>4, <3>5, <3>6 DEF Step
      <2>2. /\ pc[t] = "count" /\ UNCHANGED <<d_ptr, mutex, d>> /\ priv[d[t]].waiters = -BigNumber
            BY <1>e, <1>i, <2>1 DEF Count, Goto
      <2>3. Word(t) = d[t] /\ d[t] \in Privates /\ mutex[t] \in Mutexes
            BY <1>a, <1>i, <2>2 DEF Word, Fields, InHand, Held, Referenced
      <2>4. PICK u \in Threads : d[u] = d[t] /\ pc[u] \in Clearing
            <3> DEFINE n == Cardinality(CountedOn(d[t]))
            <3>1. n \in Nat /\ n < BigNumber
                  BY <2>3, CountedOnSize
            <3>2. \/ priv[d[t]].waiters = n
                  \/ priv[d[t]].waiters = n - BigNumber /\ n = 0 /\ Unlocking(d[t], Clearing)
                  \/ priv[d[t]].waiters = n - BigNumber /\ n > 0
                  BY <1>a, <2>3 DEF CountSound, CountOf
            <3> HIDE DEF n
            <3>3. Unlocking(d[t], Clearing)
                  BY <2>2, <3>1, <3>2, BigNumberAssumption
            <3>4. QED BY <3>3 DEF Unlocking
      <2>5. mutex[u] = mutex[t]
            BY <1>a, <2>3, <2>4 DEF ServesOne, Past, Held, Leaving, Clearing, Word
      <2>6. pc[u] = "clearWord"
            BY <1>a, <2>3, <2>4, <2>5 DEF WordSound, Off, Clearing, Word
      <2>7. QED BY <1>c, <2>2, <2>4, <2>5, <2>6 DEF Others
<1>2. QED BY <1>b, <1>f, <1>g, <1>h, <1>i DEF CountSound

-----------------------------------------------------------------------------
(* Somebody is there to take the wake-up *)

\* Who will look at the mutex of a private that nobody owns
Looking == {"clearWord", "verifyCounted", "wait", "sleeping", "woken", "timedOut", "giveUp",
            "raiseFlag"}

\* Anchor, in one piece
LEMMA AnchorIs ==
  ASSUME Fields, ServesOne
  PROVE  Anchor <=> \A m \in Mutexes :
           d_ptr[m] \in Privates /\ Owners(m) = {} =>
             \/ priv[d_ptr[m]].possiblyUnlocked
             \/ \E t \in Threads : d[t] = d_ptr[m] /\ pc[t] \in Looking
<1>1. ASSUME NEW m \in Mutexes, NEW t \in Threads, d[t] = d_ptr[m], pc[t] = "clearWord"
      PROVE  mutex[t] = m
      BY <1>1 DEF ServesOne, Past, Held, Leaving
<1>2. QED BY <1>1 DEF Anchor, Looking

\* The flag stays, or a thread that looks does.
LEMMA AnchorInductive == IInv /\ [Next]_vars => Anchor'
<1> SUFFICES ASSUME IInv, [Next]_vars PROVE Anchor'
    OBVIOUS
<1>a. Fields /\ ServesOne /\ WordSound /\ Baton /\ CountSound /\ Anchor
      BY DEF IInv
<1>b. Fields' /\ ServesOne'
      BY FieldsInductive, ServesOneInductive
<1>1. CASE UNCHANGED vars
      BY <1>a, <1>1 DEF vars, Anchor, Owners
<1> SUFFICES ASSUME NEW t \in Threads, Call(t) \/ Step(t) \/ SpuriousWakeup(t) \/ ClearWaiters(t)
             PROVE  Anchor'
    BY <1>1 DEF Next
<1>c. Others(t)
      BY <1>a, StepOfOne
<1>e. /\ d_ptr \in [Mutexes -> {0, 1} \cup Privates] /\ mutex \in [Threads -> Mutexes]
      /\ pc \in [Threads -> Places] /\ d \in [Threads -> Privates \cup {NoPrivate}]
      BY <1>a DEF Fields
<1> SUFFICES ASSUME NEW m \in Mutexes, d_ptr'[m] \in Privates, Owners(m)' = {}
             PROVE  \/ priv'[d_ptr'[m]].possiblyUnlocked
                    \/ \E s \in Threads : d'[s] = d_ptr'[m] /\ pc'[s] \in Looking
    <2>1. \A n \in Mutexes, s \in Threads : d'[s] = d_ptr'[n] /\ pc'[s] = "clearWord" => mutex'[s] = n
          BY <1>b DEF ServesOne, Past, Held, Leaving
    <2>2. QED BY <2>1 DEF Anchor, Looking
<1> DEFINE p == d_ptr[m]
           Answer == \/ priv'[p].possiblyUnlocked
                     \/ \E s \in Threads : d'[s] = p /\ pc'[s] \in Looking
\* A private that is installed has an owner behind it.
<1>f. d_ptr'[m] = p
      <2> SUFFICES ASSUME d_ptr'[m] # p PROVE FALSE
          OBVIOUS
      <2>1. Install(t) /\ m = mutex[t] /\ d_ptr[m] = 1 /\ pc[t] = "install"
            BY <1>a, WordsKept DEF dummyLocked
      <2>2. PICK s \in Threads : s \in Owners(m)
            BY <1>a, <2>1 DEF Baton, BatonOf, Owners
      <2>3. s # t
            BY <2>1, <2>2 DEF Owners, Owning, Settling, Grabbed
      <2>4. s \in Owners(m)'
            BY <1>c, <2>2, <2>3, OthersHold
      <2>5. QED BY <2>4
<1>g. \A s \in Threads : s # t => s \notin Owners(m)
      BY <1>c, OthersHold
\* Who looks, but for t, goes on looking.
<1>h. ASSUME NEW s \in Threads, s # t, d[s] = p, pc[s] \in Looking
      PROVE  Answer
      BY <1>c, <1>h DEF Others, Looking
<1>i. CASE t \in Owners(m)
      <2>1. t \notin Owners(m)'
            OBVIOUS
      <2>2. CASE UnlockInternal(t)
            <3>1. /\ mutex[t] = m /\ d'[t] = p /\ UNCHANGED <<mutex, d_ptr>> /\ pc[t] = "unlockInternal"
                  /\ pc'[t] = IF priv[p].waiters = 0 THEN "clearWord" ELSE "settleTransfer"
                  BY <1>e, <1>i, <2>2 DEF UnlockInternal, Owners, Goto, Word
            <3>2. CASE priv[p].waiters = 0
                  BY <3>1, <3>2 DEF Looking
            <3>3. CASE priv[p].waiters # 0
                  <4>1. \A u \in Threads : d[u] = p => pc[u] \notin Clearing \cup {"settleTransfer"}
                        <5> SUFFICES ASSUME NEW u \in Threads, d[u] = p,
                                            pc[u] \in Clearing \cup {"settleTransfer"}
                                     PROVE  FALSE
                            OBVIOUS
                        <5>1. pc[u] \in Past
                              BY DEF Past, Held, Clearing, Leaving
                        <5>2. mutex[u] = m /\ Word(u) = d[u]
                              BY <1>a, <5>1 DEF ServesOne, Word
                        <5>3. pc[u] \notin Off
                              BY <1>a, <5>2 DEF WordSound
                        <5>4. u \in Holders(m) /\ t \in Holders(m) /\ u # t
                              BY <1>i, <3>1, <5>2, <5>3 DEF Clearing, Off, Holders, Word
                        <5>5. QED BY <1>a, <5>4 DEF Baton, BatonOf
                  <4>2. CountedOn(p) # {}
                        <5>1. p \in Privates
                              BY <1>f
                        <5>2. priv[p].waiters = Cardinality(CountedOn(p))
                              BY <1>a, <4>1, <5>1 DEF CountSound, CountOf, Unlocking
                        <5>3. QED BY <3>3, <5>2, FS_EmptySet
                  <4>3. PICK s \in Threads : d[s] = p /\ pc[s] \in Counted \cup Settling
                        BY <4>2 DEF CountedOn
                  <4>4. pc[s] \in Past /\ s # t
                        BY <3>1, <4>3 DEF Past, Held, Referenced, Counted, Settling
                  <4>5. mutex[s] = m /\ Word(s) = d[s]
                        BY <1>a, <4>3, <4>4 DEF ServesOne, Word
                  <4>6. pc[s] \notin Settling
                        <5>1. SUFFICES ASSUME pc[s] \in Settling PROVE FALSE
                              OBVIOUS
                        <5>2. s \in Owners(m)
                              BY <4>5, <5>1 DEF Owners, Owning
                        <5>3. QED BY <1>g, <4>4, <5>2
                  <4>7. pc[s] # "uncount"
                        BY <1>a, <4>5 DEF WordSound, Off
                  <4>8. pc[s] \in Looking
                        BY <4>3, <4>6, <4>7 DEF Counted, Looking
                  <4>9. QED BY <1>f, <1>h, <4>3, <4>4, <4>8
            <3>4. QED BY <1>f, <3>2, <3>3
      <2>3. CASE FastTryUnlock(t) /\ Word(t) = dummyLocked
            <3>1. d_ptr'[m] = 0
                  BY <1>e, <1>i, <2>3 DEF FastTryUnlock, SetWord, Owners
            <3>2. QED BY <3>1, PrivatesAssumption
      <2>4. QED
            <3>1. mutex[t] = m /\ pc[t] \in Owning
                  BY <1>i DEF Owners
            <3>2. mutex'[t] # m \/ pc'[t] \notin Owning
                  BY DEF Owners
            <3> USE DEF Goto, Forget, Owning, Settling, Grabbed
            <3>3. ~(Call(t) \/ FastTryLock(t) \/ Load(t) \/ Allocate(t) \/ Install(t) \/ Flag(t) \/ Ref(t))
                  BY <3>1 DEF Call, FastTryLock, Load, Allocate, Install, Flag, Ref
            <3>4. ~(Recheck(t) \/ Count(t) \/ Verify(t) \/ Uncount(t) \/ TakeWakeup(t) \/ Grab(t))
                  BY <3>1 DEF Recheck, Count, Verify, Uncount, TakeWakeup, Grab
            <3>5. ~(ClearWaiters(t) \/ Taken(t) \/ DropFlag(t) \/ Discount(t) \/ Drop(t))
                  BY <1>e, <3>1, <3>2 DEF ClearWaiters, Taken, DropFlag, Discount, Drop
            <3>6. ~(\/ MissWakeup(t) \/ CondTimeout(t) \/ SpuriousWakeup(t) \/ GiveUp(t)
                    \/ RaiseFlag(t) \/ Refused(t))
                  BY <3>1 DEF MissWakeup, CondTimeout, SpuriousWakeup, GiveUp, RaiseFlag, Refused
            <3>7. ~(ClearWord(t) \/ LowerFlag(t) \/ DropLowered(t) \/ Settle(t) \/ WakeUp(t))
                  BY <3>1 DEF ClearWord, LowerFlag, DropLowered, Settle, WakeUp
            <3>8. ~(FastTryUnlock(t) /\ Word(t) # dummyLocked)
                  BY <1>e, <3>1, <3>2 DEF FastTryUnlock
            <3>9. QED BY <2>2, <2>3, <3>3, <3>4, <3>5, <3>6, <3>7, <3>8 DEF Step
<1>j. CASE t \notin Owners(m)
      <2>1. Owners(m) = {}
            <3>1. Owners(m) \subseteq Threads
                  BY DEF Owners
            <3>2. QED BY <1>g, <1>j, <3>1
      <2>2. \/ priv[p].possiblyUnlocked
            \/ \E s \in Threads : d[s] = p /\ pc[s] \in Looking
            BY <1>a, <1>f, <2>1, AnchorIs
      <2>3. CASE priv[p].possiblyUnlocked
            <3>1. (Taken(t) \/ LowerFlag(t)) /\ d[t] = p => FALSE
                  <4> SUFFICES ASSUME Taken(t) \/ LowerFlag(t), d[t] = p PROVE FALSE
                      OBVIOUS
                  <4>1. pc[t] \in Past /\ pc[t] \in Off \cup Settling
                        BY DEF Taken, LowerFlag, Past, Held, Settling, Leaving, Off
                  <4>2. mutex[t] = m /\ Word(t) = d[t]
                        BY <1>a, <4>1 DEF ServesOne, Word
                  <4>3. pc[t] \notin Off
                        BY <1>a, <4>2 DEF WordSound
                  <4>4. t \in Owners(m)
                        BY <4>1, <4>2, <4>3 DEF Owners, Owning
                  <4>5. QED BY <1>j, <4>4
            <3>2. priv'[p].possiblyUnlocked
                  <4>1. p \in Privates
                        BY <1>f
                  <4>2. CASE Taken(t) \/ LowerFlag(t)
                        <5>1. FlagSet(d[t], FALSE)
                              BY <1>a, <4>2, FlagSteps
                        <5>2. QED BY <2>3, <3>1, <4>1, <4>2, <5>1 DEF FlagSet
                  <4>3. CASE RaiseFlag(t)
                        <5>1. FlagSet(d[t], TRUE)
                              BY <1>a, <4>3, FlagSteps
                        <5>2. QED BY <2>3, <4>1, <5>1 DEF FlagSet
                  <4>4. QED BY <2>3, <4>1, <4>2, <4>3, FieldsKept
            <3>3. QED BY <1>f, <3>2
      <2>4. CASE d[t] = p /\ pc[t] \in Looking
            <3>1. (mutex[t] = m /\ Word(t) = d[t] /\ d[t] \in Privates) \/ pc[t] = "raiseFlag"
                  BY <1>a, <1>f, <2>4
                     DEF ServesOne, Past, Held, Referenced, Counted, Leaving, Looking, Word
            <3> USE DEF Goto, Forget, Looking
            <3>2. CASE Verify(t) \/ GiveUp(t) \/ MissWakeup(t) \/ CondTimeout(t) \/ SpuriousWakeup(t)
                  <4>1. UNCHANGED d /\ pc'[t] \in Looking
                        BY <1>e, <2>4, <3>1, <3>2
                           DEF Verify, GiveUp, MissWakeup, CondTimeout, SpuriousWakeup
                  <4>2. QED BY <1>f, <2>4, <4>1
            <3>3. CASE RaiseFlag(t)
                  <4>1. FlagSet(d[t], TRUE)
                        BY <1>a, <3>3, FlagSteps
                  <4>2. QED BY <1>f, <2>4, <4>1 DEF FlagSet
            <3>4. CASE TakeWakeup(t)
                  <4>1. t \in Owners(m)'
                        BY <1>e, <2>4, <3>1, <3>4 DEF TakeWakeup, Owners, Owning, Settling
                  <4>2. QED BY <4>1
            <3>5. CASE ClearWord(t)
                  <4>1. d_ptr'[m] = 0
                        BY <1>e, <3>1, <3>5 DEF ClearWord, SetWord
                  <4>2. QED BY <4>1, PrivatesAssumption
            <3>6. QED BY <2>4, <3>2, <3>3, <3>4, <3>5
                     DEF Step, Call, ClearWaiters, FastTryLock, Load, Allocate,
                         Install, Flag, Ref, Recheck, Count, Grab, Uncount, Taken, DropFlag, Discount,
                         Refused, Drop, FastTryUnlock, UnlockInternal, LowerFlag, DropLowered, Settle,
                         WakeUp
      <2>5. QED BY <1>f, <1>h, <2>2, <2>3, <2>4
<1>2. QED BY <1>i, <1>j

-----------------------------------------------------------------------------
(* The books *)

\* A set whose elements are equal has one or none.
LEMMA AtMostOne ==
  ASSUME NEW S, \A x, y \in S : x = y
  PROVE  Cardinality(S) = One(S # {})
<1>1. CASE S = {}
      BY <1>1, FS_EmptySet DEF One
<1>2. CASE S # {}
      <2>1. PICK x \in S : TRUE
            BY <1>2
      <2>2. S = {x}
            BY <2>1
      <2>3. QED BY <1>2, <2>2, FS_Singleton DEF One
<1>3. QED BY <1>1, <1>2

\* An owner that has the reference of the word
Full(t, m) == t \in Owners(m) /\ pc[t] \notin Settling

\* The reference counts stay exact.
LEMMA RefCountExactInductive == IInv /\ [Next]_vars => RefCountExact'
<1> SUFFICES ASSUME IInv, [Next]_vars, NEW p \in Privates
             PROVE  priv'[p].refCount = References(p)'
    BY DEF RefCountExact
<1>a. Fields /\ ServesOne /\ WordSound /\ Baton /\ CountSound /\ RefCountExact
      BY DEF IInv
<1>b. Fields' /\ ServesOne'
      BY FieldsInductive, ServesOneInductive
<1>1. CASE UNCHANGED vars
      BY <1>a, <1>1 DEF vars, RefCountExact, References, Owners
<1> SUFFICES ASSUME NEW t \in Threads, Call(t) \/ Step(t) \/ SpuriousWakeup(t) \/ ClearWaiters(t)
             PROVE  priv'[p].refCount = References(p)'
    BY <1>1 DEF Next
<1>c. Others(t)
      BY <1>a, StepOfOne
<1>e. /\ d_ptr \in [Mutexes -> {0, 1} \cup Privates] /\ mutex \in [Threads -> Mutexes]
      /\ pc \in [Threads -> Places] /\ d \in [Threads -> Privates \cup {NoPrivate}]
      /\ mutex[t] \in Mutexes /\ priv \in [Privates -> PrivateFields]
      /\ priv' \in [Privates -> PrivateFields]
      BY <1>a, <1>b DEF Fields
<1>w. PICK w \in Mutexes : w = mutex[t]
      BY <1>e
<1> DEFINE rc == priv[p].refCount
           f == priv[p].possiblyUnlocked
           h == t \in HeldBy(p)
           e == t \in ExtraBy(p)
           o == Owned(p)
           rc1 == priv'[p].refCount
           f1 == priv'[p].possiblyUnlocked
           h1 == t \in HeldBy(p)'
           e1 == t \in ExtraBy(p)'
           o1 == Owned(p)'
\* The count is the sum of what t changes.
<1>f. rc1 = rc + One(h1) - One(h) + One(e1) - One(e) + One(o1) - One(o) + One(f1) - One(f)
        => rc1 = References(p)'
      <2> DEFINE H == HeldBy(p)
                 E == ExtraBy(p)
                 M == {m \in Mutexes : OwnedWith(p, m)'}
      <2>1. /\ Cardinality(H) \in Nat /\ Cardinality(H') \in Nat
            /\ Cardinality(H') = Cardinality(H) + One(h1) - One(h)
            <3>1. H \subseteq Threads /\ H' \subseteq Threads
                  BY DEF HeldBy
            <3>2. \A s \in Threads : s # t => (s \in H' <=> s \in H)
                  BY <1>c DEF Others, HeldBy, Held, Referenced, Counted, Settling, Grabbed, Leaving
            <3>3. QED BY <3>1, <3>2, OneMoreOrLess
      <2>2. /\ Cardinality(E) \in Nat /\ Cardinality(E') \in Nat
            /\ Cardinality(E') = Cardinality(E) + One(e1) - One(e)
            <3>1. E \subseteq Threads /\ E' \subseteq Threads
                  BY DEF ExtraBy
            <3>2. \A s \in Threads : s # t => (s \in E' <=> s \in E)
                  BY <1>c DEF Others, ExtraBy
            <3>3. QED BY <3>1, <3>2, OneMoreOrLess
      <2>3. rc = Cardinality(H) + Cardinality(E) + One(o) + One(f)
            BY <1>a, ReferencesAre DEF RefCountExact
      <2>4. Cardinality(M) = One(o1)
            <3>1. \A m, n \in M : m = n
                  BY <1>b DEF OwnedWith, ServesOne
            <3>2. M # {} <=> o1
                  BY DEF Owned
            <3>3. Cardinality(M) = One(M # {})
                  BY <3>1, AtMostOne
            <3>4. QED BY <3>2, <3>3 DEF One
      <2>5. References(p)' = Cardinality(H') + Cardinality(E') + Cardinality(M) + One(f1)
            BY DEF References, HeldBy, ExtraBy, Held, One, OwnedWith
      <2> DEFINE a == Cardinality(H)
                 a1 == Cardinality(H')
                 c == Cardinality(E)
                 c1 == Cardinality(E')
                 g == Cardinality(M)
      <2> HIDE DEF a, a1, c, c1, g, rc, f, h, e, o, rc1, f1, h1, e1, o1
      <2>6. /\ a \in Nat /\ a1 \in Nat /\ c \in Nat /\ c1 \in Nat /\ a1 = a + One(h1) - One(h)
            /\ c1 = c + One(e1) - One(e) /\ rc = a + c + One(o) + One(f) /\ g = One(o1)
            BY <2>1, <2>2, <2>3, <2>4 DEF a, a1, c, c1, g
      <2>7. References(p)' = a1 + c1 + g + One(f1)
            BY <2>5 DEF a1, c1, g
      <2>8. QED BY <2>6, <2>7 DEF One
\* The owners of t's mutex, and of the others
<1>g. ASSUME UNCHANGED d_ptr, \A m \in Mutexes : Full(t, m)' <=> Full(t, m)
      PROVE  o1 <=> o
      <2>1. \A m \in Mutexes, s \in Threads : Full(s, m)' <=> Full(s, m)
            BY <1>c, <1>g DEF Others, Full, Owners, Owning, Settling, Grabbed
      <2>2. QED BY <1>g, <2>1 DEF Owned, OwnedWith, Full, Owners
<1>h. ASSUME UNCHANGED mutex, \A m \in Mutexes : m # w => d_ptr'[m] = d_ptr[m]
      PROVE  \A m \in Mutexes : m # w => (OwnedWith(p, m)' <=> OwnedWith(p, m))
      <2>1. \A m \in Mutexes, s \in Threads : m # w => (Full(s, m)' <=> Full(s, m))
            BY <1>c, <1>h, <1>w DEF Others, Full, Owners, Owning, Settling, Grabbed
      <2>2. QED BY <1>h, <2>1 DEF OwnedWith, Full, Owners
<1>i. ASSUME UNCHANGED mutex, \A m \in Mutexes : m # w => d_ptr'[m] = d_ptr[m],
             OwnedWith(p, w)' <=> OwnedWith(p, w)
      PROVE  o1 <=> o
      BY <1>h, <1>i DEF Owned
<1>j. d_ptr[w] = p => (o <=> OwnedWith(p, w))
      BY <1>a DEF Owned, OwnedWith, ServesOne
<1>k. d_ptr'[w] = p => (o1 <=> OwnedWith(p, w)')
      BY <1>b DEF Owned, OwnedWith, ServesOne
\* Nothing changes
<1> DEFINE Quiet == (h1 <=> h) /\ (e1 <=> e)
           SameOwned == o1 <=> o
           Goal == priv'[p].refCount = References(p)'
<1>y. Quiet /\ SameOwned /\ rc1 = rc /\ f1 = f => Goal
      <2>1. rc \in Nat
            BY <1>e DEF PrivateFields
      <2> HIDE DEF rc, f, h, e, o, rc1, f1, h1, e1, o1
      <2>2. Quiet /\ SameOwned /\ rc1 = rc /\ f1 = f =>
            rc1 = rc + One(h1) - One(h) + One(e1) - One(e) + One(o1) - One(o) + One(f1) - One(f)
            BY <2>1 DEF One
      <2>3. QED BY <1>f, <2>2 DEF rc1
<1> DEFINE Before == One(h) + One(e) + One(o) + One(f)
           After == One(h1) + One(e1) + One(o1) + One(f1)
<1>z. /\ rc1 = rc /\ After = Before => Goal
      /\ rc1 = rc + 1 /\ After = Before + 1 => Goal
      /\ rc1 = rc - 1 /\ After = Before - 1 => Goal
      <2>1. rc \in Nat
            BY <1>e DEF PrivateFields
      <2> HIDE DEF rc, f, h, e, o, rc1, f1, h1, e1, o1
      <2>2. rc1 = rc + (After - Before) =>
            rc1 = rc + One(h1) - One(h) + One(e1) - One(e) + One(o1) - One(o) + One(f1) - One(f)
            BY <2>1 DEF One
      <2>3. After \in Nat /\ Before \in Nat
            BY DEF One
      <2> HIDE DEF Before, After
      <2>4. /\ rc1 = rc /\ After = Before => rc1 = rc + (After - Before)
            /\ rc1 = rc + 1 /\ After = Before + 1 => rc1 = rc + (After - Before)
            /\ rc1 = rc - 1 /\ After = Before - 1 => rc1 = rc + (After - Before)
            BY <2>1, <2>3
      <2>5. QED BY <1>f, <2>2, <2>4 DEF rc1
<1>s. /\ h <=> d[t] = p /\ pc[t] \in Held
      /\ h1 <=> d'[t] = p /\ pc'[t] \in Held
      /\ e <=> d[t] = p /\ pc[t] \in {"install", "dropFlag", "dropLowered"}
      /\ e1 <=> d'[t] = p /\ pc'[t] \in {"install", "dropFlag", "dropLowered"}
      BY DEF HeldBy, ExtraBy
<1>t. /\ Allocate(t) \/ Ref(t) \/ DropFlag(t) \/ DropLowered(t) \/ Drop(t) \/ rc1 = rc
      /\ Taken(t) \/ RaiseFlag(t) \/ LowerFlag(t) \/ f1 = f
      BY FieldsKept
<1>u. /\ f \in BOOLEAN /\ f1 \in BOOLEAN /\ rc \in Nat /\ rc1 \in Nat
      /\ h \in BOOLEAN /\ e \in BOOLEAN /\ h1 \in BOOLEAN /\ e1 \in BOOLEAN
      BY <1>e DEF PrivateFields
<1>v. \A m \in Mutexes : Full(t, m) <=> mutex[t] = m /\ pc[t] \in Owning \ Settling
      BY DEF Full, Owners
<1>x. \A m \in Mutexes : Full(t, m)' <=> mutex'[t] = m /\ pc'[t] \in Owning \ Settling
      BY DEF Full, Owners
<1>r. UNCHANGED <<d_ptr, mutex>> /\ (pc'[t] \in Owning \ Settling <=> pc[t] \in Owning \ Settling)
        => SameOwned
      BY <1>g, <1>v, <1>x
<1> HIDE DEF rc, f, h, e, o, rc1, f1, h1, e1, o1, Quiet, SameOwned, Goal, Before, After
<1> USE DEF Goto, Forget
<1>2. CASE Call(t)
      <2>1. pc[t] = "idle" /\ pc'[t] = "fastTryLock" /\ UNCHANGED <<d_ptr, d>>
            BY <1>2, <1>e DEF Call
      <2>2. SameOwned
            BY <1>g, <1>v, <1>x, <2>1 DEF SameOwned, Owning, Grabbed
      <2>3. Quiet
            BY <1>s, <2>1 DEF Quiet, Held, Referenced, Counted, Settling, Grabbed, Leaving
      <2>4. rc1 = rc /\ f1 = f
            BY <1>2, <1>t, <2>1 DEF Allocate, Ref, DropFlag, DropLowered, Drop, Taken, RaiseFlag, LowerFlag
      <2>5. QED BY <1>y, <2>2, <2>3, <2>4 DEF Goal
\* No counts, no words
<1>3. CASE \/ Load(t) \/ Flag(t) \/ Recheck(t) \/ Count(t) \/ ClearWaiters(t) \/ Verify(t) \/ Uncount(t)
           \/ FastTryLock(t) /\ Word(t) # 0
           \/ FastTryUnlock(t) /\ Word(t) # dummyLocked
      <2>1. UNCHANGED <<d_ptr, mutex>> /\ rc1 = rc /\ f1 = f
            BY <1>3, <1>t
               DEF Load, Flag, Recheck, Count, ClearWaiters, Verify, Uncount, FastTryLock, FastTryUnlock,
                   Allocate, Ref, DropFlag, DropLowered, Drop, Taken, RaiseFlag, LowerFlag
      <2>2. /\ pc'[t] \in Owning \ Settling <=> pc[t] \in Owning \ Settling
            /\ Quiet
            BY <1>3, <1>e, <1>s
               DEF Load, Flag, Recheck, Count, ClearWaiters, Verify, Uncount, FastTryLock, FastTryUnlock,
                   Owning, Quiet, Held, Referenced, Counted, Settling, Grabbed, Leaving
      <2>3. QED BY <1>r, <1>y, <2>1, <2>2 DEF Goal
<1>4. CASE \/ TakeWakeup(t) \/ MissWakeup(t) \/ CondTimeout(t) \/ SpuriousWakeup(t) \/ GiveUp(t)
           \/ Refused(t) \/ Settle(t) \/ WakeUp(t)
      <2>1. UNCHANGED <<d_ptr, mutex>> /\ rc1 = rc /\ f1 = f
            BY <1>4, <1>t
               DEF TakeWakeup, MissWakeup, CondTimeout, SpuriousWakeup, GiveUp, Refused, Settle, WakeUp,
                   Allocate, Ref, DropFlag, DropLowered, Drop, Taken, RaiseFlag, LowerFlag
      <2>2. /\ pc'[t] \in Owning \ Settling <=> pc[t] \in Owning \ Settling
            /\ Quiet
            BY <1>4, <1>e, <1>s
               DEF TakeWakeup, MissWakeup, CondTimeout, SpuriousWakeup, GiveUp, Refused, Settle, WakeUp,
                   Sleepers, Owning, Quiet, Held, Referenced, Counted, Settling, Grabbed, Leaving
      <2>3. QED BY <1>r, <1>y, <2>1, <2>2 DEF Goal
<1>5. CASE Word(t) # d[t] /\ (Grab(t) \/ ClearWord(t))
      <2>1. UNCHANGED <<d_ptr, mutex>> /\ rc1 = rc /\ f1 = f
            BY <1>5, <1>t
               DEF Grab, ClearWord, Allocate, Ref, DropFlag, DropLowered, Drop, Taken, RaiseFlag, LowerFlag
      <2>2. /\ pc'[t] \in Owning \ Settling <=> pc[t] \in Owning \ Settling
            /\ Quiet
            BY <1>5, <1>e, <1>s
               DEF Grab, ClearWord, Owning, Quiet, Held, Referenced, Settling, Grabbed, Leaving
      <2>3. QED BY <1>r, <1>y, <2>1, <2>2 DEF Goal
\* Words that are not privates
<1>6. CASE (FastTryLock(t) /\ Word(t) = 0) \/ (FastTryUnlock(t) /\ Word(t) = dummyLocked)
      <2>1. /\ UNCHANGED <<mutex, d>> /\ rc1 = rc /\ f1 = f
            /\ SetWord(t, 0) \/ SetWord(t, 1)
            BY <1>6, <1>t
               DEF FastTryLock, FastTryUnlock, dummyLocked,
                   Allocate, Ref, DropFlag, DropLowered, Drop, Taken, RaiseFlag, LowerFlag
      <2>2. Quiet
            BY <1>6, <1>e, <1>s
               DEF FastTryLock, FastTryUnlock, Quiet, Held, Referenced, Counted, Settling, Grabbed, Leaving
      <2>3. /\ \A m \in Mutexes : m # w => d_ptr'[m] = d_ptr[m]
            /\ d_ptr[w] \in {0, 1} /\ d_ptr'[w] \in {0, 1}
            BY <1>6, <1>e, <1>w, <2>1 DEF SetWord, Word, dummyLocked
      <2>4. SameOwned
            BY <1>i, <2>1, <2>3, PrivatesAssumption DEF OwnedWith, SameOwned
      <2>5. QED BY <1>y, <2>1, <2>2, <2>4 DEF Goal
<1>7. CASE Word(t) = d[t] /\ (Grab(t) \/ ClearWord(t))
      <2>1. /\ UNCHANGED <<mutex, d>> /\ rc1 = rc /\ f1 = f
            /\ SetWord(t, 0) \/ SetWord(t, 1)
            BY <1>7, <1>t
               DEF Grab, ClearWord, dummyLocked,
                   Allocate, Ref, DropFlag, DropLowered, Drop, Taken, RaiseFlag, LowerFlag
      <2>2. Quiet
            BY <1>7, <1>e, <1>s
               DEF Grab, ClearWord, Quiet, Held, Referenced, Counted, Settling, Grabbed, Leaving
      <2>3. /\ \A m \in Mutexes : m # w => d_ptr'[m] = d_ptr[m]
            /\ d_ptr'[w] \in {0, 1}
            BY <1>e, <1>w, <2>1 DEF SetWord
      <2>4. ~OwnedWith(p, w)
            <3>1. \E u \in Threads : mutex[u] = w /\ d[u] = d_ptr[w] /\ pc[u] = "clearWord"
                  BY <1>7, <1>a, <1>w DEF Grab, ClearWord, CountSound, Word
            <3>2. PICK u \in Threads : mutex[u] = w /\ d[u] = d_ptr[w] /\ pc[u] = "clearWord"
                  BY <3>1
            <3>3. u \in Holders(w) /\ u \notin Owners(w)
                  BY <3>2 DEF Holders, Owners, Owning, Settling, Grabbed
            <3>4. Owners(w) = {}
                  BY <1>a, <3>3 DEF Baton, BatonOf, Holders
            <3>5. QED BY <3>4 DEF OwnedWith
      <2>5. SameOwned
            BY <1>i, <2>1, <2>3, <2>4, PrivatesAssumption DEF OwnedWith, SameOwned
      <2>6. QED BY <1>y, <2>1, <2>2, <2>5 DEF Goal
<1>8. CASE Allocate(t)
      <2>1. PICK q \in Privates : priv[q].refCount = 0 /\ RefCountSet(q, 1) /\ d' = [d EXCEPT ![t] = q]
            BY <1>8, <1>a, RefCountSteps
      <2>2. /\ pc[t] = "allocate" /\ pc'[t] = "install" /\ UNCHANGED <<d_ptr, mutex>> /\ f1 = f
            BY <1>8, <1>e, <1>t DEF Allocate, Taken, RaiseFlag, LowerFlag
      <2>3. SameOwned
            BY <1>r, <2>2 DEF Owning, Settling, Grabbed
      <2>4. ~h /\ ~e /\ ~h1 /\ (e1 <=> p = q)
            BY <1>e, <1>s, <2>1, <2>2 DEF Held, Referenced, Counted, Settling, Grabbed, Leaving
      <2>5. CASE p = q
            <3>1. rc1 = rc + 1
                  BY <2>1, <2>5 DEF RefCountSet, rc, rc1
            <3>2. After = Before + 1
                  BY <2>2, <2>3, <2>4, <2>5, <3>1 DEF One, SameOwned, Before, After
            <3>3. QED BY <1>z, <3>1, <3>2 DEF Goal
      <2>6. CASE p # q
            <3>1. rc1 = rc
                  BY <2>1, <2>6 DEF RefCountSet, rc, rc1
            <3>2. QED BY <1>y, <2>2, <2>3, <2>4, <2>6, <3>1 DEF Quiet, Goal
      <2>7. QED BY <2>5, <2>6
<1>9. CASE Install(t)
      <2>1. /\ UNCHANGED <<mutex, d>> /\ rc1 = rc /\ f1 = f /\ pc[t] = "install" /\ d[t] \in Privates
            BY <1>9, <1>a, <1>t
               DEF Install, Fields, InHand, Allocate, Ref, DropFlag, DropLowered, Drop, Taken, RaiseFlag,
                   LowerFlag
      <2>2. CASE Word(t) # dummyLocked
            <3>1. UNCHANGED d_ptr /\ pc'[t] = "dropAndRetry"
                  BY <1>9, <1>e, <2>2 DEF Install
            <3>2. SameOwned
                  BY <1>r, <2>1, <3>1 DEF Owning, Settling, Grabbed
            <3>3. /\ ~h /\ ~e1
                  /\ h1 <=> d[t] = p
                  /\ e <=> d[t] = p
                  BY <1>s, <2>1, <3>1 DEF Held, Referenced, Counted, Settling, Grabbed, Leaving
            <3>4. After = Before
                  BY <1>u, <2>1, <3>2, <3>3 DEF One, SameOwned, Before, After
            <3>5. QED BY <1>z, <2>1, <3>4 DEF Goal
      <2>3. CASE Word(t) = dummyLocked
            <3>1. d_ptr' = [d_ptr EXCEPT ![w] = d[t]] /\ pc'[t] = "ref"
                  BY <1>9, <1>e, <1>w, <2>3 DEF Install, SetWord
            <3>2. /\ \A m \in Mutexes : m # w => d_ptr'[m] = d_ptr[m]
                  /\ d_ptr'[w] = d[t] /\ d_ptr[w] = 1
                  BY <1>e, <1>w, <2>3, <3>1 DEF Word, dummyLocked
            <3>3. ~h /\ ~h1 /\ ~e1 /\ (e <=> d[t] = p)
                  BY <1>s, <2>1, <3>1 DEF Held, Referenced, Counted, Settling, Grabbed, Leaving
            <3>4. CASE d[t] # p
                  <4>1. SameOwned
                        BY <1>i, <2>1, <3>2, <3>4, PrivatesAssumption DEF OwnedWith, SameOwned
                  <4>2. QED BY <1>y, <2>1, <3>3, <3>4, <4>1 DEF Quiet, Goal
            <3>5. CASE d[t] = p
                  <4>1. ~o
                        BY <1>a, <2>1, <3>5 DEF o, Owned, OwnedWith, ServesOne
                  <4>2. PICK s \in Owners(w) : TRUE
                        BY <1>a, <3>2 DEF Baton, BatonOf
                  <4>3. s \in Threads /\ s # t /\ pc[s] \in Owning /\ mutex[s] = w
                        BY <2>1, <4>2 DEF Owners, Owning, Settling, Grabbed
                  <4>4. pc[s] \notin Settling
                        BY <1>a, <3>2, <4>3, PrivatesAssumption
                           DEF WordSound, On, Word, Fields, InHand, Held
                  <4>5. Full(s, w)'
                        BY <1>c, <4>3, <4>4 DEF Others, Full, Owners, Owning, Settling, Grabbed
                  <4>6. o1
                        BY <1>k, <3>2, <3>5, <4>3, <4>5 DEF OwnedWith, Full
                  <4>7. After = Before
                        BY <1>u, <2>1, <3>3, <3>5, <4>1, <4>6 DEF One, Before, After
                  <4>8. QED BY <1>z, <2>1, <4>7 DEF Goal
            <3>6. QED BY <3>4, <3>5
      <2>4. QED BY <2>2, <2>3
<1>10. CASE Ref(t)
      <2>1. UNCHANGED <<d_ptr, mutex>> /\ f1 = f /\ pc[t] = "ref" /\ d[t] \in Privates
            BY <1>10, <1>a, <1>t DEF Ref, Taken, RaiseFlag, LowerFlag, Fields, InHand
      <2>2. pc'[t] \in {"fastTryLock", "recheck"}
            BY <1>10, <1>e DEF Ref
      <2>3. SameOwned
            BY <1>r, <2>1, <2>2 DEF Owning, Settling, Grabbed
      <2>4. CASE priv[d[t]].refCount = 0
            <3>1. UNCHANGED priv /\ pc'[t] = "fastTryLock"
                  BY <1>10, <1>e, <2>4 DEF Ref
            <3>2. Quiet /\ rc1 = rc
                  BY <1>s, <2>1, <3>1
                     DEF Quiet, Held, Referenced, Counted, Settling, Grabbed, Leaving, rc, rc1
            <3>3. QED BY <1>y, <2>1, <2>3, <3>2 DEF Goal
      <2>5. CASE priv[d[t]].refCount # 0
            <3>1. RefCountSet(d[t], priv[d[t]].refCount + 1) /\ pc'[t] = "recheck" /\ UNCHANGED d
                  BY <1>10, <1>a, <1>e, <2>5, RefCountSteps DEF Ref
            <3>2. ~h /\ ~e /\ ~e1 /\ (h1 <=> d[t] = p)
                  BY <1>s, <2>1, <3>1 DEF Held, Referenced, Counted, Settling, Grabbed, Leaving
            <3>3. CASE d[t] = p
                  <4>1. rc1 = rc + 1
                        BY <3>1, <3>3 DEF RefCountSet, rc, rc1
                  <4>2. After = Before + 1
                        BY <2>1, <2>3, <3>2, <3>3, <4>1 DEF One, SameOwned, Before, After
                  <4>3. QED BY <1>z, <4>1, <4>2 DEF Goal
            <3>4. CASE d[t] # p
                  <4>1. rc1 = rc
                        BY <3>1, <3>4 DEF RefCountSet, rc, rc1
                  <4>2. QED BY <1>y, <2>1, <2>3, <3>2, <3>4, <4>1 DEF Quiet, Goal
            <3>5. QED BY <3>3, <3>4
      <2>6. QED BY <2>4, <2>5
<1>11. CASE Taken(t) \/ LowerFlag(t)
      <2>1. /\ UNCHANGED <<d_ptr, mutex, d>> /\ rc1 = rc /\ FlagSet(d[t], FALSE)
            /\ pc[t] \in {"taken", "lowerFlag"} /\ d[t] \in Privates
            BY <1>11, <1>a, <1>t, FlagSteps
               DEF Taken, LowerFlag, Allocate, Ref, DropFlag, DropLowered, Drop, Fields, InHand, Held,
                   Settling, Leaving
      <2>2. /\ priv[d[t]].possiblyUnlocked => pc'[t] \in {"dropFlag", "dropLowered"}
            /\ ~priv[d[t]].possiblyUnlocked => pc'[t] \in {"discount", "settle"}
            BY <1>11, <1>e DEF Taken, LowerFlag
      <2>3. SameOwned
            BY <1>r, <2>1, <2>2 DEF Owning, Settling, Grabbed
      <2>4. /\ h <=> d[t] = p
            /\ h1 <=> d[t] = p
            BY <1>s, <2>1, <2>2 DEF Held, Settling, Leaving
      <2>5. ~e /\ (e1 <=> d[t] = p /\ f)
            BY <1>s, <2>1, <2>2 DEF f
      <2>6. CASE d[t] = p
            <3>1. f1 = FALSE
                  BY <2>1, <2>6 DEF FlagSet, f1
            <3>2. After = Before
                  BY <1>u, <2>1, <2>3, <2>4, <2>5, <2>6, <3>1 DEF One, SameOwned, Before, After
            <3>3. QED BY <1>z, <2>1, <3>2 DEF Goal
      <2>7. CASE d[t] # p
            <3>1. f1 = f
                  BY <2>1, <2>7 DEF FlagSet, f, f1
            <3>2. QED BY <1>y, <2>1, <2>3, <2>4, <2>5, <2>7, <3>1 DEF Quiet, Goal
      <2>8. QED BY <2>6, <2>7
<1>12. CASE RaiseFlag(t)
      <2>1. /\ UNCHANGED <<d_ptr, mutex>> /\ rc1 = rc /\ FlagSet(d[t], TRUE)
            /\ pc[t] = "raiseFlag" /\ d[t] \in Privates
            BY <1>12, <1>a, <1>t, FlagSteps
               DEF RaiseFlag, Allocate, Ref, DropFlag, DropLowered, Drop, Fields, InHand, Held, Referenced
      <2>2. /\ priv[d[t]].possiblyUnlocked => pc'[t] = "dropAndFail" /\ d'[t] = d[t]
            /\ ~priv[d[t]].possiblyUnlocked => pc'[t] = "refused" /\ d'[t] = NoPrivate
            BY <1>12, <1>e DEF RaiseFlag
      <2>3. SameOwned
            BY <1>r, <2>1, <2>2 DEF Owning, Settling, Grabbed
      <2>4. ~e /\ ~e1 /\ (h <=> d[t] = p)
            BY <1>s, <2>1, <2>2 DEF Held, Referenced
      <2>5. h1 <=> d[t] = p /\ f
            BY <1>s, <2>1, <2>2, PrivatesAssumption DEF f, Held, Referenced
      <2>6. CASE d[t] = p
            <3>1. f1 = TRUE
                  BY <2>1, <2>6 DEF FlagSet, f1
            <3>2. After = Before
                  BY <1>u, <2>1, <2>3, <2>4, <2>5, <2>6, <3>1 DEF One, SameOwned, Before, After
            <3>3. QED BY <1>z, <2>1, <3>2 DEF Goal
      <2>7. CASE d[t] # p
            <3>1. f1 = f
                  BY <2>1, <2>7 DEF FlagSet, f, f1
            <3>2. QED BY <1>y, <2>1, <2>3, <2>4, <2>5, <2>7, <3>1 DEF Quiet, Goal
      <2>8. QED BY <2>6, <2>7
<1>13. CASE DropFlag(t) \/ DropLowered(t) \/ Drop(t)
      <2>1. /\ UNCHANGED <<d_ptr, mutex>> /\ f1 = f
            /\ d[t] \in Privates /\ RefCountSet(d[t], priv[d[t]].refCount - 1)
            BY <1>13, <1>t, DropsOne DEF DropFlag, DropLowered, Drop, Taken, RaiseFlag, LowerFlag
      <2>2. SameOwned
            BY <1>13, <1>e, <1>r, <2>1 DEF DropFlag, DropLowered, Drop, Owning, Settling, Grabbed
      <2>3. \/ (h <=> d[t] = p) /\ (h1 <=> d[t] = p) /\ (e <=> d[t] = p) /\ ~e1
            \/ (h <=> d[t] = p) /\ ~h1 /\ ~e /\ ~e1
            BY <1>13, <1>e, <1>s, PrivatesAssumption
               DEF DropFlag, DropLowered, Drop, Held, Referenced, Counted, Settling, Grabbed, Leaving
      <2>4. CASE d[t] = p
            <3>1. rc1 = rc - 1
                  BY <1>u, <2>1, <2>4 DEF RefCountSet, rc, rc1
            <3>2. After = Before - 1
                  BY <2>1, <2>2, <2>3, <2>4, <3>1 DEF One, SameOwned, Before, After
            <3>3. QED BY <1>z, <3>1, <3>2 DEF Goal
      <2>5. CASE d[t] # p
            <3>1. rc1 = rc
                  BY <2>1, <2>5 DEF RefCountSet, rc, rc1
            <3>2. QED BY <1>y, <2>1, <2>2, <2>3, <2>5, <3>1 DEF Quiet, Goal
      <2>6. QED BY <2>4, <2>5
<1>14. CASE Discount(t)
      <2>1. /\ UNCHANGED <<d_ptr, mutex>> /\ rc1 = rc /\ f1 = f /\ pc[t] = "discount" /\ d[t] \in Privates
            /\ pc'[t] = "owner" /\ d'[t] = NoPrivate
            BY <1>14, <1>a, <1>e, <1>t
               DEF Discount, Allocate, Ref, DropFlag, DropLowered, Drop, Taken, RaiseFlag, LowerFlag,
                   Fields, InHand, Held, Settling
      <2>2. d_ptr[w] = d[t] /\ t \in Owners(w) /\ t \in Holders(w)
            BY <1>a, <1>w, <2>1 DEF WordSound, On, Word, Owners, Owning, Settling, Holders
      <2>3. ~OwnedWith(d[t], w)
            BY <1>a, <2>1, <2>2 DEF OwnedWith, Baton, BatonOf, Holders, Settling
      <2>4. ~e /\ ~e1 /\ ~h1 /\ (h <=> d[t] = p)
            BY <1>s, <2>1, PrivatesAssumption DEF Held, Settling
      <2>5. CASE d[t] = p
            <3>1. ~o
                  BY <1>j, <2>2, <2>3, <2>5
            <3>2. t \in Owners(w)' /\ pc'[t] \notin Settling
                  BY <1>w, <2>1 DEF Owners, Owning, Settling
            <3>3. o1
                  BY <1>k, <2>1, <2>2, <2>5, <3>2 DEF OwnedWith
            <3>4. After = Before
                  BY <1>u, <2>1, <2>4, <2>5, <3>1, <3>3 DEF One, Before, After
            <3>5. QED BY <1>z, <2>1, <3>4 DEF Goal
      <2>6. CASE d[t] # p
            <3>1. ~OwnedWith(p, w) /\ ~OwnedWith(p, w)'
                  BY <2>1, <2>2, <2>6 DEF OwnedWith
            <3>2. SameOwned
                  BY <1>i, <2>1, <3>1 DEF SameOwned
            <3>3. QED BY <1>y, <2>1, <2>4, <2>6, <3>2 DEF Quiet, Goal
      <2>7. QED BY <2>5, <2>6
<1>15. CASE UnlockInternal(t)
      <2>1. /\ UNCHANGED <<d_ptr, mutex>> /\ rc1 = rc /\ f1 = f /\ pc[t] = "unlockInternal"
            /\ d'[t] = d_ptr[w] /\ d_ptr[w] \in Privates /\ pc'[t] \in {"clearWord", "settleTransfer"}
            BY <1>15, <1>e, <1>t, <1>w
               DEF UnlockInternal, Allocate, Ref, DropFlag, DropLowered, Drop, Taken, RaiseFlag,
                   LowerFlag, Word
      <2>2. t \in Owners(w) /\ pc[t] \notin Settling /\ t \notin Owners(w)'
            BY <1>w, <2>1 DEF Owners, Owning, Settling, Grabbed
      <2>3. \A s \in Threads : s \notin Owners(w)'
            <3>1. \A s \in Threads : s # t => s \notin Owners(w)
                  BY <1>a, <2>2 DEF Baton, BatonOf, Holders
            <3>2. QED BY <1>c, <2>2, <3>1, OthersHold
      <2>4. ~OwnedWith(p, w)'
            BY <2>3 DEF OwnedWith, Owners
      <2>5. ~h /\ ~e /\ ~e1 /\ (h1 <=> d_ptr[w] = p)
            BY <1>s, <2>1 DEF Held, Referenced, Counted, Settling, Grabbed, Leaving
      <2>6. CASE d_ptr[w] = p
            <3>1. o
                  BY <1>j, <2>2, <2>6 DEF OwnedWith
            <3>2. ~o1
                  BY <1>k, <2>1, <2>4, <2>6
            <3>3. After = Before
                  BY <1>u, <2>1, <2>5, <2>6, <3>1, <3>2 DEF One, Before, After
            <3>4. QED BY <1>z, <2>1, <3>3 DEF Goal
      <2>7. CASE d_ptr[w] # p
            <3>1. SameOwned
                  BY <1>i, <2>1, <2>4, <2>7 DEF OwnedWith, SameOwned
            <3>2. QED BY <1>y, <2>1, <2>5, <2>7, <3>1 DEF Quiet, Goal
      <2>8. QED BY <2>6, <2>7
<1>16. QED BY <1>2, <1>3, <1>4, <1>5, <1>6, <1>7, <1>8, <1>9, <1>10, <1>11, <1>12, <1>13, <1>14,
              <1>15 DEF Step, Goal

-----------------------------------------------------------------------------
(* Two small parts, and the whole *)

\* Who lowers the flag is the one that cleared the word.
LEMMA LoweredOnceInductive == IInv /\ [Next]_vars => LoweredOnce'
<1> SUFFICES ASSUME IInv, [Next]_vars PROVE LoweredOnce'
    OBVIOUS
<1>a. Fields /\ ServesOne /\ WordSound /\ LoweredOnce
      BY DEF IInv
<1>1. CASE UNCHANGED vars
      BY <1>a, <1>1 DEF vars, LoweredOnce
<1> SUFFICES ASSUME NEW t \in Threads, Call(t) \/ Step(t) \/ SpuriousWakeup(t) \/ ClearWaiters(t)
             PROVE  LoweredOnce'
    BY <1>1 DEF Next
<1>c. Others(t)
      BY <1>a, StepOfOne
<1>e. pc \in [Threads -> Places] /\ d \in [Threads -> Privates \cup {NoPrivate}]
      BY <1>a DEF Fields
<1> DEFINE Lowering == {"lowerFlag", "dropLowered"}
<1>2. pc'[t] \in Lowering =>
        /\ d'[t] = d[t]
        /\ pc[t] \in Lowering \/ (pc[t] = "clearWord" /\ Word(t) = d[t])
      <2> SUFFICES ASSUME pc'[t] \in Lowering
                   PROVE  /\ d'[t] = d[t]
                          /\ pc[t] \in Lowering \/ (pc[t] = "clearWord" /\ Word(t) = d[t])
          OBVIOUS
      <2> USE DEF Goto, Forget
      <2>1. ~(Call(t) \/ FastTryLock(t) \/ Load(t) \/ Allocate(t) \/ Install(t) \/ Flag(t) \/ Ref(t))
            BY <1>e DEF Call, FastTryLock, Load, Allocate, Install, Flag, Ref
      <2>2. ~(\/ Recheck(t) \/ Count(t) \/ Grab(t) \/ ClearWaiters(t) \/ Verify(t) \/ Uncount(t)
              \/ TakeWakeup(t))
            BY <1>e DEF Recheck, Count, Grab, ClearWaiters, Verify, Uncount, TakeWakeup
      <2>3. ~(\/ MissWakeup(t) \/ CondTimeout(t) \/ SpuriousWakeup(t) \/ Taken(t) \/ DropFlag(t)
              \/ Discount(t) \/ GiveUp(t))
            BY <1>e DEF MissWakeup, CondTimeout, SpuriousWakeup, Taken, DropFlag, Discount, GiveUp
      <2>4. ~(RaiseFlag(t) \/ Refused(t) \/ Drop(t) \/ FastTryUnlock(t) \/ UnlockInternal(t))
            BY <1>e DEF RaiseFlag, Refused, Drop, FastTryUnlock, UnlockInternal
      <2>5. ~(DropLowered(t) \/ Settle(t) \/ WakeUp(t))
            BY <1>e DEF DropLowered, Settle, WakeUp, Sleepers
      <2>6. ClearWord(t) \/ LowerFlag(t)
            BY <2>1, <2>2, <2>3, <2>4, <2>5 DEF Step
      <2>7. QED BY <1>e, <2>6 DEF ClearWord, LowerFlag
<1>3. ASSUME NEW s \in Threads, s # t, d'[s] = d'[t], pc'[s] \in Lowering, pc'[t] \in Lowering
      PROVE  FALSE
      <2>1. d[s] = d[t] /\ pc[s] \in Lowering
            BY <1>2, <1>3, <1>c DEF Others
      <2>2. pc[t] = "clearWord" /\ Word(t) = d[t]
            BY <1>2, <1>3, <1>a, <2>1 DEF LoweredOnce
      <2>3. mutex[s] = mutex[t]
            BY <1>a, <2>1, <2>2 DEF Fields, ServesOne, Past, Held, Leaving, Word
      <2>4. QED BY <1>a, <2>1, <2>2, <2>3 DEF WordSound, Off, Word
<1>4. ASSUME NEW s \in Threads, NEW u \in Threads, s # t, u # t, d'[s] = d'[u],
             pc'[s] \in Lowering, pc'[u] \in Lowering
      PROVE  s = u
      BY <1>4, <1>a, <1>c DEF Others, LoweredOnce
<1>5. QED BY <1>3, <1>4 DEF LoweredOnce

\* A call without a timeout does not come to these places.
LEMMA PatientInductive == IInv /\ [Next]_vars => Patient'
<1> SUFFICES ASSUME IInv, [Next]_vars PROVE Patient'
    OBVIOUS
<1>a. Fields /\ Patient
      BY DEF IInv
<1>1. CASE UNCHANGED vars
      BY <1>a, <1>1 DEF vars, Patient
<1> SUFFICES ASSUME NEW t \in Threads, Call(t) \/ Step(t) \/ SpuriousWakeup(t) \/ ClearWaiters(t)
             PROVE  Patient'
    BY <1>1 DEF Next
<1>c. Others(t)
      BY <1>a, StepOfOne
<1>d. (pc'[t] \in {"flag", "timedOut", "giveUp", "raiseFlag"} => timeout'[t] # "forever") => Patient'
      BY <1>a, <1>c DEF Others, Patient
<1>e. pc \in [Threads -> Places] /\ timeout \in [Threads -> Timeouts \cup {"zero"}]
      BY <1>a DEF Fields
<1>f. pc[t] \in {"flag", "timedOut", "giveUp", "raiseFlag"} => timeout[t] # "forever"
      BY <1>a DEF Patient
<1> USE DEF Goto, Forget
<1>2. CASE Call(t) \/ FastTryLock(t) \/ Load(t) \/ Allocate(t) \/ Install(t) \/ Flag(t) \/ Ref(t)
      BY <1>2, <1>d, <1>e DEF Call, FastTryLock, Load, Allocate, Install, Flag, Ref
<1>3. CASE \/ Recheck(t) \/ Count(t) \/ Grab(t) \/ ClearWaiters(t) \/ Verify(t) \/ Uncount(t)
           \/ TakeWakeup(t)
      BY <1>3, <1>d, <1>e DEF Recheck, Count, Grab, ClearWaiters, Verify, Uncount, TakeWakeup
<1>4. CASE \/ MissWakeup(t) \/ CondTimeout(t) \/ SpuriousWakeup(t) \/ Taken(t) \/ DropFlag(t)
           \/ Discount(t) \/ GiveUp(t)
      BY <1>4, <1>d, <1>e, <1>f
         DEF MissWakeup, CondTimeout, SpuriousWakeup, Taken, DropFlag, Discount, GiveUp
<1>5. CASE RaiseFlag(t) \/ Refused(t) \/ Drop(t) \/ FastTryUnlock(t) \/ UnlockInternal(t)
      BY <1>5, <1>d, <1>e DEF RaiseFlag, Refused, Drop, FastTryUnlock, UnlockInternal
<1>6. CASE ClearWord(t) \/ LowerFlag(t) \/ DropLowered(t) \/ Settle(t) \/ WakeUp(t)
      BY <1>6, <1>d, <1>e DEF ClearWord, LowerFlag, DropLowered, Settle, WakeUp, Sleepers
<1>7. QED BY <1>2, <1>3, <1>4, <1>5, <1>6 DEF Step

\* Nothing is locked and nothing is counted at the start.
LEMMA InitSound == Init => IInv
<1> SUFFICES ASSUME Init PROVE IInv
    OBVIOUS
<1>1. /\ \A t \in Threads : pc[t] = "idle" /\ d[t] = NoPrivate /\ timeout[t] = "zero"
      /\ \A m \in Mutexes : d_ptr[m] = 0
      /\ \A p \in Privates : /\ priv[p].refCount = 0 /\ priv[p].waiters = 0
                             /\ priv[p].possiblyUnlocked = FALSE /\ priv[p].wakeup = FALSE
      BY DEF Init
<1>2. Fields
      BY <1>1, PrivatesAssumption
         DEF Init, Fields, PrivateFields, Places, InHand, Held, Referenced, Counted, Settling,
             Grabbed, Leaving
<1>3. \A m \in Mutexes : Owners(m) = {} /\ Holders(m) = {}
      BY <1>1 DEF Owners, Holders, Owning, Settling, Grabbed
<1>4. OneHurried /\ ServesOne /\ WordSound /\ LoweredOnce /\ Patient
      BY <1>1, PrivatesAssumption
         DEF OneHurried, ServesOne, WordSound, LoweredOnce, Patient, Off, On, Past, Held,
             Referenced, Counted, Settling, Grabbed, Leaving
<1>5. Baton /\ Anchor
      BY <1>1, <1>3, PrivatesAssumption DEF Baton, BatonOf, Anchor
<1>6. CountSound
      <2>1. ASSUME NEW p \in Privates PROVE CountOf(p)
            <3>1. CountedOn(p) = {}
                  BY <1>1 DEF CountedOn, Counted, Settling
            <3>2. QED BY <1>1, <3>1, FS_EmptySet DEF CountOf
      <2>2. QED BY <1>1, <2>1 DEF CountSound
<1>7. RefCountExact
      <2> SUFFICES ASSUME NEW p \in Privates PROVE priv[p].refCount = References(p)
          BY DEF RefCountExact
      <2>1. HeldBy(p) = {} /\ ExtraBy(p) = {} /\ ~Owned(p)
            BY <1>1, <1>3, PrivatesAssumption
               DEF HeldBy, ExtraBy, Owned, OwnedWith, Held, Referenced, Counted, Settling, Grabbed,
                   Leaving
      <2>2. References(p) = Cardinality(HeldBy(p)) + Cardinality(ExtraBy(p))
                            + One(Owned(p)) + One(priv[p].possiblyUnlocked)
            BY <1>4, ReferencesAre
      <2>3. Cardinality(HeldBy(p)) = 0 /\ Cardinality(ExtraBy(p)) = 0
            BY <2>1, FS_EmptySet
      <2>4. QED BY <1>1, <2>1, <2>2, <2>3 DEF One
<1>8. QED BY <1>2, <1>4, <1>5, <1>6, <1>7 DEF IInv

\* The invariant of the generic mutex, in the schedules in which a grab is completed at once:
\* a private serves one mutex at a time, one thread holds it or the wake-up stands for it, and
\* both counters are exact.
THEOREM InvariantHolds == ASSUME Unhurried PROVE Spec => []IInv
<1>1. IInv /\ [Next]_vars => IInv'
      BY FieldsInductive, OneHurriedInductive, ServesOneInductive, WordSoundInductive,
         BatonInductive, CountSoundInductive, AnchorInductive, RefCountExactInductive,
         LoweredOnceInductive, PatientInductive DEF IInv
<1>2. QED BY <1>1, InitSound, PTL DEF Spec

-----------------------------------------------------------------------------
(* What follows from the invariant *)

\* A mutex has at most one owner, whichever way it was handed on.
THEOREM Excludes == ASSUME Unhurried PROVE Spec => []MutualExclusion
<1>1. IInv => MutualExclusion
      <2> SUFFICES ASSUME IInv, NEW m \in Mutexes PROVE Cardinality(Owners(m)) <= 1
          BY DEF MutualExclusion
      <2>1. \A s, t \in Owners(m) : s = t
            BY DEF IInv, Baton, BatonOf, Holders
      <2>2. QED BY <2>1, AtMostOne DEF One
<1>2. QED BY <1>1, InvariantHolds, PTL

\* The books of the privates are right, and the assertions of the source hold: the reference
\* count is exact, a private on the free list is clean, the grab finds no waiters, and a waiter
\* that counted itself is counted.
THEOREM BooksAreSound == ASSUME Unhurried PROVE Spec => []BooksSound
<1>1. ASSUME IInv PROVE BooksSound
      <2>a. Fields /\ ServesOne /\ WordSound /\ Baton /\ CountSound /\ RefCountExact
            BY <1>1 DEF IInv
      <2>1. FreeIsClean
            <3> SUFFICES ASSUME NEW p \in Privates, priv[p].refCount = 0
                         PROVE  /\ priv[p].waiters = 0
                                /\ ~priv[p].possiblyUnlocked
                                /\ ~priv[p].wakeup
                BY DEF FreeIsClean
            <3>1. /\ \A m \in Mutexes : d_ptr[m] # p
                  /\ \A t \in Threads : d[t] = p => pc[t] \notin Held
                  BY <1>1, FreeServesNone
            <3>2. ~priv[p].wakeup
                  BY <2>a, <3>1 DEF Baton
            <3>3. ~priv[p].possiblyUnlocked
                  BY <2>a, HolderCounted DEF Fields, PrivateFields
            <3>4. CountedOn(p) = {}
                  BY <3>1 DEF CountedOn, Held, Referenced
            <3>5. priv[p].waiters = Cardinality(CountedOn(p))
                  BY <2>a, <3>1 DEF CountSound, CountOf, Unlocking, Clearing, Held, Leaving
            <3>6. QED BY <3>2, <3>3, <3>4, <3>5, FS_EmptySet
      <2>2. GrabFindsNoWaiters
            BY <2>a DEF GrabFindsNoWaiters, CountSound
      <2>3. CountedWaitersCount
            <3>1. ASSUME NEW t \in Threads, pc[t] = "uncount" PROVE priv[d[t]].waiters >= 1
                  <4>1. d[t] \in Privates
                        BY <2>a, <3>1 DEF Fields, InHand, Held, Referenced, Counted
                  <4> DEFINE n == Cardinality(CountedOn(d[t]))
                  <4>2. n \in Nat /\ n # 0
                        BY <3>1, <4>1, CountedOnSize DEF CountedOn, Counted
                  <4>3. ~Unlocking(d[t], {"settleTransfer"})
                        <5> SUFFICES ASSUME NEW u \in Threads, d[u] = d[t], pc[u] = "settleTransfer"
                                     PROVE  FALSE
                            BY DEF Unlocking
                        <5>1. Word(u) = d[t] /\ mutex[u] \in Mutexes
                              BY <2>a DEF WordSound, On, Fields
                        <5>2. mutex[t] = mutex[u]
                              BY <2>a, <3>1, <5>1
                                 DEF ServesOne, Past, Held, Referenced, Counted, Word
                        <5>3. QED BY <2>a, <3>1, <5>1, <5>2 DEF WordSound, Off, Word
                  <4>4. priv[d[t]].waiters = n
                        BY <2>a, <4>1, <4>2, <4>3 DEF CountSound, CountOf
                  <4>5. QED BY <4>2, <4>4
            <3>2. QED BY <2>a, <3>1 DEF CountedWaitersCount, WordSound, On
      <2>4. QED BY <2>a, <2>1, <2>2, <2>3 DEF BooksSound
<1>2. QED BY <1>1, InvariantHolds, PTL

\* A thread waits on the private of its mutex, and the wake-up it needs is there or on its way.
THEOREM NoWakeupLost == ASSUME Unhurried PROVE Spec => []NoLostWakeup
<1>1. ASSUME IInv PROVE NoLostWakeup
      <2>a. Fields /\ WordSound /\ Baton /\ CountSound
            BY <1>1 DEF IInv
      <2> SUFFICES ASSUME NEW t \in Threads, pc[t] \in {"wait", "sleeping", "woken"}
                   PROVE  /\ Word(t) = d[t]
                          /\ Owners(mutex[t]) = {} =>
                               \/ priv[d[t]].wakeup
                               \/ \E s \in Threads : /\ d[s] = d[t]
                                                     /\ pc[s] \in {"settleTransfer", "wakeUp"}
          BY DEF NoLostWakeup
      <2>1. Word(t) = d[t]
            BY <2>a DEF WordSound, On
      <2>2. d[t] \in Privates /\ mutex[t] \in Mutexes
            BY <2>a DEF Fields, InHand, Held, Referenced, Counted
      <2>3. ASSUME Owners(mutex[t]) = {}, ~priv[d[t]].wakeup
            PROVE  \E s \in Threads : d[s] = d[t] /\ pc[s] \in {"settleTransfer", "wakeUp"}
            <3>1. Holders(mutex[t]) # {}
                  BY <2>1, <2>2, <2>3, <2>a DEF Baton, BatonOf, Word
            <3>2. PICK s \in Threads : /\ d[s] = d[t] /\ mutex[s] = mutex[t]
                                       /\ pc[s] \in {"clearWord", "settleTransfer", "wakeUp"}
                  BY <2>1, <2>3, <3>1 DEF Holders, Word
            <3>3. pc[s] # "clearWord"
                  <4> SUFFICES ASSUME pc[s] = "clearWord" PROVE FALSE
                      OBVIOUS
                  <4>1. Word(s) = d[s]
                        BY <2>1, <3>2 DEF Word
                  <4>2. CountedOn(d[t]) = {}
                        BY <2>a, <3>2, <4>1, NobodyBehind
                  <4>3. QED BY <4>2 DEF CountedOn, Counted
            <3>4. QED BY <3>2, <3>3
      <2>4. QED BY <2>1, <2>3
<1>2. QED BY <1>1, InvariantHolds, PTL

\* The variables have their types, and the counters their bounds: a private has at most two
\* references more than there are threads.
THEOREM TypeCorrect == ASSUME Unhurried PROVE Spec => []TypeOK
<1>1. ASSUME IInv PROVE TypeOK
      <2>a. Fields /\ ServesOne /\ WordSound /\ Baton /\ CountSound /\ RefCountExact /\ LoweredOnce
            BY <1>1 DEF IInv
      <2> DEFINE N == Cardinality(Threads)
      <2>b. N \in Nat /\ N < BigNumber /\ BigNumber \in Nat
            BY BigNumberAssumption, FS_CardinalityType
      <2>1. ASSUME NEW p \in Privates PROVE priv[p].waiters \in -BigNumber..N
            <3> DEFINE n == Cardinality(CountedOn(p))
            <3>1. n \in Nat /\ n <= N
                  <4>1. CountedOn(p) \subseteq Threads
                        BY DEF CountedOn
                  <4>2. QED BY <4>1, BigNumberAssumption, FS_Subset, FS_CardinalityType
            <3>2. priv[p].waiters = n \/ priv[p].waiters = n - BigNumber
                  BY <2>a DEF CountSound, CountOf
            <3> HIDE DEF n, N
            <3>3. QED BY <2>b, <3>1, <3>2
      <2>2. ASSUME NEW p \in Privates PROVE priv[p].refCount \in 0..(N + 2)
            <3>1. /\ Cardinality(HeldBy(p)) \in Nat /\ Cardinality(HeldBy(p)) <= N
                  <4>1. HeldBy(p) \subseteq Threads
                        BY DEF HeldBy
                  <4>2. QED BY <4>1, BigNumberAssumption, FS_Subset, FS_CardinalityType
            \* A private is new, or taken down a flag by its owner, or taken out of its word.
            <3>2. ASSUME NEW s \in ExtraBy(p), NEW u \in ExtraBy(p)
                  PROVE  s = u
                  <4>1. /\ s \in Threads /\ d[s] = p /\ pc[s] \in {"install", "dropFlag", "dropLowered"}
                        /\ u \in Threads /\ d[u] = p /\ pc[u] \in {"install", "dropFlag", "dropLowered"}
                        BY DEF ExtraBy
                  <4>2. ASSUME NEW x \in Threads, NEW y \in Threads, d[x] = d[y], pc[x] = "install",
                               pc[y] \in {"install", "dropFlag", "dropLowered"}
                        PROVE  x = y
                        BY <2>a, <4>2 DEF ServesOne, Past, Held, Settling, Leaving
                  <4>3. CASE pc[s] = "install" \/ pc[u] = "install"
                        BY <4>1, <4>2, <4>3
                  <4>4. ASSUME NEW x \in Threads, NEW y \in Threads, d[x] = d[y], pc[x] = "dropFlag",
                               pc[y] \in {"dropFlag", "dropLowered"}
                        PROVE  x = y
                        <5>1. Word(x) = d[y] /\ mutex[x] \in Mutexes
                              BY <2>a, <4>4 DEF WordSound, On, Settling, Fields
                        <5>2. mutex[y] = mutex[x]
                              BY <2>a, <4>4, <5>1 DEF ServesOne, Past, Held, Settling, Leaving, Word
                        <5>3. pc[y] = "dropFlag"
                              BY <2>a, <4>4, <5>1, <5>2 DEF WordSound, Off, Word
                        <5>4. x \in Owners(mutex[x]) /\ y \in Owners(mutex[x])
                              BY <4>4, <5>2, <5>3 DEF Owners, Owning, Settling
                        <5>5. QED BY <2>a, <5>1, <5>4 DEF Baton, BatonOf, Holders
                  <4>5. CASE {pc[s], pc[u]} \subseteq {"dropFlag", "dropLowered"}
                        <5>1. CASE pc[s] = "dropFlag" \/ pc[u] = "dropFlag"
                              BY <4>1, <4>4, <4>5, <5>1
                        <5>2. CASE pc[s] = "dropLowered" /\ pc[u] = "dropLowered"
                              BY <2>a, <4>1, <5>2 DEF LoweredOnce
                        <5>3. QED BY <4>5, <5>1, <5>2
                  <4>6. QED BY <4>1, <4>3, <4>5
            <3>3. Cardinality(ExtraBy(p)) = One(ExtraBy(p) # {})
                  BY <3>2, AtMostOne
            \* A thread with one more reference stands for the owner's.
            <3>4. ExtraBy(p) # {} => ~Owned(p)
                  <4> SUFFICES ASSUME NEW s \in Threads, d[s] = p, NEW m \in Mutexes, OwnedWith(p, m),
                                      pc[s] \in {"install", "dropFlag", "dropLowered"}
                               PROVE  FALSE
                      BY DEF ExtraBy, Owned
                  <4>1. pc[s] # "install"
                        BY <2>a DEF ServesOne, OwnedWith
                  <4>2. mutex[s] = m /\ Word(s) = d[s]
                        BY <2>a, <4>1 DEF ServesOne, OwnedWith, Past, Held, Settling, Leaving, Word
                  <4>3. pc[s] = "dropFlag"
                        BY <2>a, <4>1, <4>2 DEF WordSound, Off
                  <4>4. s \in Owners(m)
                        BY <4>2, <4>3 DEF Owners, Owning, Settling
                  <4>5. QED BY <2>a, <4>3, <4>4 DEF OwnedWith, Baton, BatonOf, Holders, Settling
            <3>5. priv[p].refCount = Cardinality(HeldBy(p)) + Cardinality(ExtraBy(p))
                                     + One(Owned(p)) + One(priv[p].possiblyUnlocked)
                  BY <2>a, ReferencesAre DEF RefCountExact
            <3> DEFINE h == Cardinality(HeldBy(p))
                       e == Cardinality(ExtraBy(p))
                       rest == One(Owned(p)) + One(priv[p].possiblyUnlocked)
            <3>6. e + rest \in 0..2
                  BY <3>3, <3>4 DEF One
            <3>7. h \in Nat /\ h <= N /\ e \in Nat /\ rest \in Nat /\ priv[p].refCount = h + (e + rest)
                  BY <3>1, <3>3, <3>5 DEF One
            <3> HIDE DEF h, e, rest, N
            <3>8. QED BY <2>b, <3>6, <3>7
      <2>3. QED BY <2>a, <2>1, <2>2 DEF TypeOK, Fields, PrivateFields, dummyLocked
<1>2. QED BY <1>1, InvariantHolds, PTL

-----------------------------------------------------------------------------

(* The abstract lock *)

\* Every step of the generic mutex is, for each mutex, a step of the abstract lock or none.
LEMMA StepRefines ==
  ASSUME IInv, [Next]_vars, NEW m \in Mutexes
  PROVE  [Lock(m)!Next]_(Lock(m)!vars)
<1>a. Fields /\ WordSound /\ Baton /\ CountSound /\ Patient
      BY DEF IInv
<1>1. CASE UNCHANGED vars
      BY <1>1 DEF vars, Owners, Wants, Lock!vars
<1> SUFFICES ASSUME NEW t \in Threads, Call(t) \/ Step(t) \/ SpuriousWakeup(t) \/ ClearWaiters(t)
             PROVE  [Lock(m)!Next]_(Lock(m)!vars)
    BY <1>1 DEF Next
<1>c. Others(t)
      BY <1>a, StepOfOne
<1>d. /\ pc \in [Threads -> Places] /\ mutex \in [Threads -> Mutexes]
      /\ timeout \in [Threads -> Timeouts \cup {"zero"}]
      BY <1>a DEF Fields
<1> DEFINE w == Wants(m)[t]
           v == Wants(m)'[t]
<1>2. ASSUME NEW s \in Threads, s # t
      PROVE  (s \in Owners(m)' <=> s \in Owners(m)) /\ Wants(m)'[s] = Wants(m)[s]
      <2>1. s \in Owners(m)' <=> s \in Owners(m)
            BY <1>c, <1>2, OthersHold
      <2>2. Wants(m)'[s] = Wants(m)[s]
            BY <1>c, <1>2 DEF Others, Wants, Locking, Referenced, Counted
      <2>3. QED BY <2>1, <2>2
<1>3. /\ Owners(m) \subseteq Threads /\ Owners(m)' \subseteq Threads
      /\ Wants(m)' = [Wants(m) EXCEPT ![t] = v]
      <2>1. Owners(m) \subseteq Threads /\ Owners(m)' \subseteq Threads
            BY DEF Owners
      <2>2. Wants(m)' = [s \in Threads |-> Wants(m)'[s]] /\ Wants(m) = [s \in Threads |-> Wants(m)[s]]
            BY DEF Wants
      <2>3. QED BY <1>2, <2>1, <2>2
<1> HIDE DEF w, v
\* What the step does to the abstract lock follows from what it does to t.
<1>4. ASSUME t \in Owners(m)' <=> t \in Owners(m), v = w
      PROVE  [Lock(m)!Next]_(Lock(m)!vars)
      <2>1. Owners(m)' = Owners(m)
            BY <1>2, <1>3, <1>4
      <2>2. Wants(m) = [s \in Threads |-> Wants(m)[s]]
            BY DEF Wants
      <2>3. Wants(m)' = Wants(m)
            BY <1>3, <1>4, <2>2 DEF w
      <2>4. QED BY <2>1, <2>3 DEF Lock!vars
<1>5. ASSUME t \notin Owners(m), t \notin Owners(m)', w = "nothing", v \in {"lock", "tryLock"}
      PROVE  [Lock(m)!Next]_(Lock(m)!vars)
      <2>1. Owners(m)' = Owners(m)
            BY <1>2, <1>3, <1>5
      <2>2. QED BY <1>3, <1>5, <2>1 DEF w, Lock!Next, Lock!Request, Lock!Calls
<1>6. ASSUME Owners(m) = {}, t \in Owners(m)', w # "nothing", v = "nothing"
      PROVE  [Lock(m)!Next]_(Lock(m)!vars)
      <2>1. Owners(m)' = {t}
            BY <1>2, <1>3, <1>6
      <2>2. QED BY <1>3, <1>6, <2>1 DEF w, Lock!Next, Lock!Acquire
<1>7. ASSUME t \in Owners(m)' <=> t \in Owners(m), w = "tryLock", v = "nothing"
      PROVE  [Lock(m)!Next]_(Lock(m)!vars)
      <2>1. Owners(m)' = Owners(m)
            BY <1>2, <1>3, <1>7
      <2>2. QED BY <1>3, <1>7, <2>1 DEF w, Lock!Next, Lock!GiveUp
<1>8. ASSUME t \in Owners(m), t \notin Owners(m)', v = w
      PROVE  [Lock(m)!Next]_(Lock(m)!vars)
      <2>1. Owners(m)' = Owners(m) \ {t}
            BY <1>2, <1>3, <1>8
      <2>2. Wants(m) = [s \in Threads |-> Wants(m)[s]]
            BY DEF Wants
      <2>3. Wants(m)' = Wants(m)
            BY <1>3, <1>8, <2>2 DEF w
      <2>4. QED BY <1>8, <2>1, <2>3 DEF Lock!Next, Lock!Release
\* What t asks of m, and whether it owns it
<1>9. /\ w = IF mutex[t] = m /\ pc[t] \in Locking
             THEN IF timeout[t] = "forever" THEN "lock" ELSE "tryLock" ELSE "nothing"
      /\ v = IF mutex'[t] = m /\ pc'[t] \in Locking
             THEN IF timeout'[t] = "forever" THEN "lock" ELSE "tryLock" ELSE "nothing"
      /\ t \in Owners(m) <=> mutex[t] = m /\ pc[t] \in Owning
      /\ t \in Owners(m)' <=> mutex'[t] = m /\ pc'[t] \in Owning
      BY DEF w, v, Wants, Owners
<1>10. Locking \cap Owning = {} /\ "idle" \notin Locking \cup Owning
      BY DEF Locking, Owning, Referenced, Counted, Settling, Grabbed
<1>11. CASE Call(t)
      <2>1. pc[t] = "idle" /\ pc'[t] = "fastTryLock"
            BY <1>d, <1>11 DEF Call, Goto
      <2>2. pc'[t] \in Locking /\ pc'[t] \notin Owning
            BY <2>1 DEF Locking, Owning, Settling, Grabbed
      <2>3. t \notin Owners(m) /\ t \notin Owners(m)' /\ w = "nothing"
            BY <1>9, <1>10, <2>1, <2>2
      <2>4. v \in {"nothing", "lock", "tryLock"}
            BY <1>9
      <2>5. QED BY <1>4, <1>5, <2>3, <2>4
<1>12. ASSUME ~Call(t)
       PROVE  mutex'[t] = mutex[t] /\ timeout'[t] = timeout[t]
      <2>1. UNCHANGED <<mutex, timeout>>
            <3>1. CASE \/ FastTryLock(t) \/ Load(t) \/ Allocate(t) \/ Install(t) \/ Flag(t) \/ Ref(t)
                       \/ Recheck(t) \/ Count(t) \/ Grab(t) \/ ClearWaiters(t) \/ Verify(t)
                       \/ Uncount(t) \/ TakeWakeup(t) \/ MissWakeup(t) \/ CondTimeout(t)
                       \/ SpuriousWakeup(t)
                  BY <3>1 DEF FastTryLock, Load, Allocate, Install, Flag, Ref, Recheck, Count, Grab,
                              ClearWaiters, Verify, Uncount, TakeWakeup, MissWakeup, CondTimeout,
                              SpuriousWakeup
            <3>2. CASE \/ Taken(t) \/ DropFlag(t) \/ Discount(t) \/ GiveUp(t) \/ RaiseFlag(t)
                       \/ Refused(t) \/ Drop(t) \/ FastTryUnlock(t) \/ UnlockInternal(t)
                       \/ ClearWord(t) \/ LowerFlag(t) \/ DropLowered(t) \/ Settle(t) \/ WakeUp(t)
                  BY <3>2 DEF Taken, DropFlag, Discount, GiveUp, RaiseFlag, Refused, Drop,
                              FastTryUnlock, UnlockInternal, ClearWord, LowerFlag, DropLowered,
                              Settle, WakeUp
            <3>3. QED BY <1>12, <3>1, <3>2 DEF Step
      <2>2. QED BY <2>1
<1>13. CASE mutex[t] # m /\ ~Call(t)
      BY <1>4, <1>9, <1>12, <1>13
<1> SUFFICES ASSUME mutex[t] = m, ~Call(t)
             PROVE  [Lock(m)!Next]_(Lock(m)!vars)
    BY <1>11, <1>13
<1>14. ASSUME pc'[t] \in Locking <=> pc[t] \in Locking, pc'[t] \in Owning <=> pc[t] \in Owning
       PROVE  [Lock(m)!Next]_(Lock(m)!vars)
      BY <1>4, <1>9, <1>12, <1>14
<1>15. ASSUME Owners(m) = {}, pc[t] \in Locking, pc'[t] \in Owning
       PROVE  [Lock(m)!Next]_(Lock(m)!vars)
      <2>1. w # "nothing"
            BY <1>9, <1>15
      <2>2. v = "nothing" /\ t \in Owners(m)'
            BY <1>9, <1>10, <1>12, <1>15
      <2>3. QED BY <1>6, <1>15, <2>1, <2>2
<1>16. ASSUME pc[t] \in Locking, pc'[t] \in {"refused", "dropAndFail"}, timeout[t] # "forever"
       PROVE  [Lock(m)!Next]_(Lock(m)!vars)
      <2>1. pc'[t] \notin Locking \cup Owning
            BY <1>16 DEF Locking, Owning, Referenced, Counted, Settling, Grabbed
      <2>2. QED BY <1>7, <1>9, <1>10, <1>12, <1>16, <2>1
<1>17. ASSUME pc[t] \in Owning, pc'[t] \in {"idle", "clearWord", "settleTransfer"}
       PROVE  [Lock(m)!Next]_(Lock(m)!vars)
      <2>1. pc'[t] \notin Locking \cup Owning
            BY <1>17 DEF Locking, Owning, Referenced, Counted, Settling, Grabbed
      <2>2. QED BY <1>8, <1>9, <1>10, <1>12, <1>17, <2>1
<1>p. BatonOf(m) /\ Word(t) = d_ptr[m] /\ Owners(m) \subseteq Holders(m)
      BY <1>a DEF Baton, Word, Holders
<1> USE DEF Goto, Forget
<1>18. CASE FastTryLock(t)
      <2>1. CASE Word(t) = 0
            <3>1. Owners(m) = {}
                  BY <1>p, <2>1 DEF BatonOf
            <3>2. pc[t] \in Locking /\ pc'[t] \in Owning
                  BY <1>d, <1>18, <2>1 DEF FastTryLock, Locking, Owning
            <3>3. QED BY <1>15, <3>1, <3>2
      <2>2. CASE Word(t) # 0
            BY <1>d, <1>14, <1>18, <2>2 DEF FastTryLock, Locking, Owning, Settling, Grabbed
      <2>3. QED BY <2>1, <2>2
<1>19. CASE Load(t)
      <2>1. pc[t] \in Locking /\ pc[t] \notin Owning
            BY <1>19 DEF Load, Locking, Owning, Settling, Grabbed
      <2>2. CASE pc'[t] = "refused"
            <3>1. timeout[t] # "forever"
                  BY <1>d, <1>19, <2>2 DEF Load
            <3>2. QED BY <1>16, <2>1, <2>2, <3>1
      <2>3. CASE pc'[t] \in {"fastTryLock", "allocate", "flag", "ref"}
            BY <1>14, <2>1, <2>3 DEF Locking, Owning, Settling, Grabbed
      <2>4. QED BY <1>d, <1>19, <2>2, <2>3 DEF Load
<1>20. CASE \/ Allocate(t) \/ Install(t) \/ Ref(t) \/ Recheck(t) \/ Count(t) \/ Verify(t)
            \/ Uncount(t)
      <2>1. /\ {pc[t], pc'[t]} \subseteq
                 {"allocate", "install", "ref", "recheck", "count", "grab", "dropAndRetry",
                  "fastTryLock", "verifyCounted", "verifyUncounted", "wait", "uncount"}
            BY <1>d, <1>20 DEF Allocate, Install, Ref, Recheck, Count, Verify, Uncount
      <2>2. QED BY <1>14, <2>1 DEF Locking, Owning, Referenced, Counted, Settling, Grabbed
<1>21. CASE MissWakeup(t) \/ CondTimeout(t) \/ SpuriousWakeup(t) \/ GiveUp(t)
      <2>1. {pc[t], pc'[t]} \subseteq
              {"wait", "woken", "timedOut", "giveUp", "sleeping", "raiseFlag"}
            BY <1>d, <1>21 DEF MissWakeup, CondTimeout, SpuriousWakeup, GiveUp
      <2>2. QED BY <1>14, <2>1 DEF Locking, Owning, Referenced, Counted, Settling, Grabbed
<1>22. CASE Flag(t) \/ RaiseFlag(t)
      <2>1. pc[t] \in {"flag", "raiseFlag"} /\ pc'[t] \in {"ref", "refused", "dropAndFail"}
            BY <1>d, <1>22 DEF Flag, RaiseFlag
      <2>2. timeout[t] # "forever"
            BY <1>a, <2>1 DEF Patient
      <2>3. pc[t] \in Locking /\ pc[t] \notin Owning
            BY <2>1 DEF Locking, Owning, Referenced, Settling, Grabbed
      <2>4. CASE pc'[t] = "ref"
            BY <1>14, <2>3, <2>4 DEF Locking, Owning, Settling, Grabbed
      <2>5. QED BY <1>16, <2>1, <2>2, <2>3, <2>4
<1>23. CASE Grab(t)
      <2>1. CASE Word(t) = d[t]
            <3>1. PICK u \in Threads : mutex[u] = m /\ d[u] = d[t] /\ pc[u] = "clearWord"
                  BY <1>a, <1>23, <2>1 DEF CountSound, Grab
            <3>2. u \in Holders(m) /\ u \notin Owners(m)
                  BY <1>p, <2>1, <3>1 DEF Holders, Owners, Owning, Settling, Grabbed
            <3>3. Owners(m) = {}
                  BY <1>p, <3>2 DEF BatonOf
            <3>4. pc[t] \in Locking /\ pc'[t] \in Owning
                  BY <1>d, <1>23, <2>1 DEF Grab, Locking, Referenced, Owning, Grabbed
            <3>5. QED BY <1>15, <3>3, <3>4
      <2>2. CASE Word(t) # d[t]
            BY <1>d, <1>14, <1>23, <2>2
               DEF Grab, Locking, Referenced, Owning, Settling, Grabbed
      <2>3. QED BY <2>1, <2>2
<1>24. CASE TakeWakeup(t)
      <2>1. Word(t) = d[t] /\ d[t] \in Privates
            BY <1>a, <1>24 DEF TakeWakeup, WordSound, On, Fields, InHand, Held, Referenced, Counted
      <2>2. Owners(m) = {}
            BY <1>p, <1>24, <2>1 DEF TakeWakeup, BatonOf
      <2>3. pc[t] \in Locking /\ pc'[t] \in Owning
            BY <1>d, <1>24 DEF TakeWakeup, Locking, Referenced, Counted, Owning, Settling
      <2>4. QED BY <1>15, <2>2, <2>3
<1>25. CASE ClearWaiters(t) \/ Taken(t) \/ DropFlag(t) \/ Discount(t)
      <2>1. {pc[t], pc'[t]} \subseteq
              {"clearWaiters", "dropAndOwn", "taken", "dropFlag", "discount", "owner"}
            BY <1>d, <1>25 DEF ClearWaiters, Taken, DropFlag, Discount
      <2>2. QED BY <1>14, <2>1 DEF Locking, Owning, Referenced, Counted, Settling, Grabbed
<1>26. CASE Drop(t)
      <2>1. \/ {pc[t], pc'[t]} = {"dropAndRetry", "fastTryLock"}
            \/ {pc[t], pc'[t]} = {"dropAndOwn", "owner"}
            \/ {pc[t], pc'[t]} = {"dropAndFail", "refused"}
            \/ {pc[t], pc'[t]} = {"dropAndLeave", "idle"}
            BY <1>d, <1>26 DEF Drop
      <2>2. QED BY <1>14, <2>1 DEF Locking, Owning, Referenced, Counted, Settling, Grabbed
<1>27. CASE FastTryUnlock(t) \/ UnlockInternal(t)
      <2>1. pc[t] \in {"owner", "unlockInternal"}
            /\ pc'[t] \in {"idle", "unlockInternal", "clearWord", "settleTransfer"}
            BY <1>d, <1>27 DEF FastTryUnlock, UnlockInternal
      <2>2. pc[t] \in Owning /\ pc[t] \notin Locking
            BY <2>1 DEF Locking, Owning, Referenced, Counted
      <2>3. CASE pc'[t] = "unlockInternal"
            BY <1>14, <2>2, <2>3 DEF Locking, Owning, Referenced, Counted
      <2>4. QED BY <1>17, <2>1, <2>2, <2>3
<1>28. CASE Refused(t) \/ ClearWord(t) \/ LowerFlag(t) \/ DropLowered(t) \/ Settle(t) \/ WakeUp(t)
      <2>1. /\ {pc[t], pc'[t]} \subseteq Leaving \cup {"refused", "idle"}
            BY <1>d, <1>28
               DEF Refused, ClearWord, LowerFlag, DropLowered, Settle, WakeUp, Sleepers, Leaving
      <2>2. QED BY <1>14, <2>1
               DEF Leaving, Locking, Owning, Referenced, Counted, Settling, Grabbed
<1>29. QED BY <1>18, <1>19, <1>20, <1>21, <1>22, <1>23, <1>24, <1>25, <1>26, <1>27, <1>28 DEF Step

\* Whatever threads do with it, each mutex is the lock qmutex.h promises: it is asked for,
\* got when nobody has it, refused to a tryLock() only, and given back by its owner.
THEOREM ImplementsTheLock == ASSUME Unhurried PROVE Spec => ImplementsLock
<1>1. Init => \A m \in Mutexes : Lock(m)!Init
      BY DEF Init, Lock!Init, Owners, Owning, Settling, Grabbed, Wants, Locking, Referenced, Counted
<1>2. IInv /\ [Next]_vars => [\A m \in Mutexes : [Lock(m)!Next]_(Lock(m)!vars)]_vars
      BY StepRefines
<1>3. QED BY <1>1, <1>2, InvariantHolds, PTL DEF Spec, ImplementsLock
=============================================================================
