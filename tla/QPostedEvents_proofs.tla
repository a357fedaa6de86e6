------------------------ MODULE QPostedEvents_proofs ------------------------
(***************************************************************************)
(* For any threads, objects and priorities, and calls inside each other to *)
(* any depth: the lists and their indices are sound, each event is         *)
(* delivered once, in order and to the right thread, and none is slept on. *)
(***************************************************************************)
EXTENDS QPostedEvents, FiniteSetTheorems, SequenceTheorems, TLAPS

-----------------------------------------------------------------------------
(* Sequences, and functions of 0..n that go by their last value *)

\* q is s with one element more, at position i.
Inserted(s, q, i) ==
  /\ Len(q) = Len(s) + 1 /\ i \in 1..Len(q)
  /\ \A k \in 1..Len(s) : s[k] = q[IF k < i THEN k ELSE k + 1]

LEMMA InsertAtInserts ==
  ASSUME NEW S, NEW s \in Seq(S), NEW i \in 1..(Len(s) + 1), NEW e \in S
  PROVE  LET q == InsertAt(s, i, e)
         IN  q \in Seq(S) /\ Inserted(s, q, i) /\ q[i] = e
<1> DEFINE a == SubSeq(s, 1, i - 1)
           b == <<e>>
           c == SubSeq(s, i, Len(s))
           q == InsertAt(s, i, e)
<1>1. Len(s) \in Nat
      BY LenProperties
<1>2. /\ a \in Seq(S) /\ Len(a) = i - 1 /\ \A k \in 1..(i - 1) : a[k] = s[k]
      BY <1>1, SubSeqProperties
<1>3. /\ c \in Seq(S) /\ Len(c) = Len(s) - i + 1
      /\ \A k \in 1..(Len(s) - i + 1) : c[k] = s[i + k - 1]
      BY <1>1, SubSeqProperties
<1>4. b \in Seq(S) /\ Len(b) = 1 /\ b[1] = e
      OBVIOUS
<1> HIDE DEF a, b, c
<1>5. /\ (a \o b) \in Seq(S) /\ Len(a \o b) = i
      /\ \A k \in 1..(i - 1) : (a \o b)[k] = s[k]
      /\ (a \o b)[i] = e
      <2>1. a \o b \in Seq(S) /\ Len(a \o b) = Len(a) + Len(b)
            BY <1>2, <1>4, ConcatProperties
      <2>2. \A k \in 1..(Len(a) + Len(b)) : (a \o b)[k] = IF k <= Len(a) THEN a[k] ELSE b[k - Len(a)]
            BY <1>2, <1>4, ConcatProperties
      <2>3. QED BY <1>2, <1>4, <2>1, <2>2
<1> DEFINE d == a \o b
<1> HIDE DEF d
<1>6. d \in Seq(S) /\ Len(d) = i /\ (\A k \in 1..(i - 1) : d[k] = s[k]) /\ d[i] = e
      BY <1>5 DEF d
<1>7. q = d \o c
      BY DEF InsertAt, a, b, c, d
<1>8. /\ q \in Seq(S) /\ Len(q) = Len(s) + 1
      /\ \A k \in 1..i : q[k] = d[k]
      /\ \A k \in 1..(Len(s) - i + 1) : q[i + k] = c[k]
      BY <1>1, <1>3, <1>6, <1>7, ConcatProperties
<1>9. ASSUME NEW k \in 1..Len(s) PROVE s[k] = q[IF k < i THEN k ELSE k + 1]
      <2>1. CASE k < i
            BY <1>6, <1>8, <2>1
      <2>2. CASE ~(k < i)
            <3>1. k - i + 1 \in 1..(Len(s) - i + 1) /\ i + (k - i + 1) = k + 1
                  BY <1>1, <2>2
            <3>2. q[k + 1] = c[k - i + 1]
                  BY <1>8, <3>1
            <3>3. c[k - i + 1] = s[k]
                  BY <1>3, <3>1
            <3>4. QED BY <2>2, <3>2, <3>3
      <2>3. QED BY <2>1, <2>2
<1>10. QED BY <1>1, <1>6, <1>8, <1>9 DEF Inserted

LEMMA AppendInserts ==
  ASSUME NEW S, NEW s \in Seq(S), NEW e \in S
  PROVE  /\ Append(s, e) \in Seq(S) /\ Inserted(s, Append(s, e), Len(s) + 1)
         /\ Append(s, e)[Len(s) + 1] = e
BY AppendProperties, LenProperties DEF Inserted

\* Induction, for a set of natural numbers
Before == {x \in Nat \X Nat : x[1] < x[2]}

LEMMA AllNumbers ==
  ASSUME NEW A, 0 \in A, \A n \in Nat : n \in A => n + 1 \in A
  PROVE  \A n \in Nat : n \in A
<1> SUFFICES ASSUME Nat \ A # {} PROVE FALSE
    OBVIOUS
<1>1. IsWellFoundedOn(Before, Nat)
      BY NatLessThanWellFounded, Zenon DEF OpToRel, Before
<1>2. PICK x \in Nat \ A : \A y \in Nat \ A : <<y, x>> \notin Before
      BY <1>1, WFMin, Zenon
<1>3. x # 0 /\ x - 1 \in Nat
      BY <1>2
<1>4. <<x - 1, x>> \in Before
      BY <1>2, <1>3 DEF Before
<1>5. x - 1 \in A
      BY <1>2, <1>3, <1>4
<1>6. x - 1 + 1 = x
      BY <1>2
<1>7. QED BY <1>2, <1>3, <1>5, <1>6

\* A set of natural numbers has a least one.
LEMMA Least ==
  ASSUME NEW S \in SUBSET Nat, S # {}
  PROVE  Min(S) \in S /\ \A y \in S : Min(S) <= y
<1>1. IsWellFoundedOn(Before, Nat)
      BY NatLessThanWellFounded, Zenon DEF OpToRel, Before
<1>2. PICK x \in S : \A y \in S : <<y, x>> \notin Before
      BY <1>1, WFMin, Zenon
<1>3. ASSUME NEW y \in S PROVE x <= y
      <2>1. x \in Nat /\ y \in Nat /\ <<y, x>> \notin Before
            BY <1>2
      <2>2. ~(y < x)
            BY <2>1 DEF Before
      <2>3. QED BY <2>1, <2>2
<1>4. QED BY <1>2, <1>3 DEF Min

\* A function that is given by its first value and by each from the one before it exists.
Rounds(X, base, N, G) == base \in X /\ N \in Nat /\ G \in [X \X (1..N) -> X]

Runs(f, X, base, N, G) ==
  f \in [0..N -> X] /\ f[0] = base /\ \A n \in 1..N : f[n] = G[<<f[n - 1], n>>]

LEMMA Recursion ==
  ASSUME NEW X, NEW base, NEW N, NEW G, Rounds(X, base, N, G)
  PROVE  \E f : Runs(f, X, base, N, G)
<1> DEFINE Up(f, k) == /\ f \in [0..k -> X] /\ f[0] = base
                       /\ \A n \in 1..k : f[n] = G[<<f[n - 1], n>>]
           A == {k \in Nat : k <= N => \E f : Up(f, k)}
<1>0. base \in X /\ N \in Nat /\ G \in [X \X (1..N) -> X]
      BY DEF Rounds
<1>1. 0 \in A
      <2>1. Up([n \in 0..0 |-> base], 0)
            BY <1>0
      <2>2. QED BY <2>1
<1>2. ASSUME NEW k \in Nat, k \in A PROVE k + 1 \in A
      <2> SUFFICES ASSUME k + 1 <= N PROVE \E f : Up(f, k + 1)
          OBVIOUS
      <2>1. PICK f : Up(f, k)
            BY <1>0, <1>2
      <2> DEFINE g == [n \in 0..(k + 1) |-> IF n <= k THEN f[n] ELSE G[<<f[k], k + 1>>]]
      <2>2. f[k] \in X /\ k + 1 \in 1..N
            BY <1>0, <2>1
      <2>3. G[<<f[k], k + 1>>] \in X
            BY <1>0, <2>2
      <2>4. g \in [0..(k + 1) -> X] /\ g[0] = base
            BY <2>1, <2>3
      <2>5. ASSUME NEW n \in 1..(k + 1) PROVE g[n] = G[<<g[n - 1], n>>]
            <3>1. n - 1 \in 0..k /\ n - 1 <= k
                  OBVIOUS
            <3>2. g[n - 1] = f[n - 1]
                  BY <3>1
            <3>3. CASE n <= k
                  <4>1. n \in 1..k
                        BY <3>3
                  <4>2. g[n] = f[n]
                        BY <3>3
                  <4>3. QED BY <2>1, <3>2, <4>1, <4>2
            <3>4. CASE ~(n <= k)
                  <4>1. n = k + 1 /\ n - 1 = k
                        BY <3>4
                  <4>2. g[n] = G[<<f[k], n>>]
                        BY <4>1
                  <4>3. QED BY <3>2, <4>1, <4>2
            <3>5. QED BY <3>3, <3>4
      <2> HIDE DEF g
      <2>6. QED BY <2>4, <2>5
<1> HIDE DEF A
<1>3. N \in A
      BY <1>0, <1>1, <1>2, AllNumbers
<1>4. QED BY <1>0, <1>3 DEF A, Runs

-----------------------------------------------------------------------------
(* The invariant *)

DataRecords == [list : Seq(Entries), startOffset : Nat, insertionOffset : Nat,
                canWait : BOOLEAN]
CallRecords == [call : {"send", "handler", "loop", "polled"},
                receiver : Objects \cup {NoObject}, type : {"any", "delete"},
                next : Nat, event : Nat, cut : BOOLEAN]
PostRecords == [receiver : Objects, type : {"ordinary", "delete"},
                priority : Priorities, level : Nat, asker : Nat]
PosterRecords == [receiver : Objects \cup {NoObject}, data : Threads \cup {NoThread}]

Types ==
  /\ data \in [Threads -> DataRecords]
  /\ stack \in [Threads -> Seq(CallRecords)]
  /\ home \in [Objects -> Threads \cup {NoThread}]
  /\ postedEvents \in [Objects -> Int]
  /\ poster \in [Posters -> PosterRecords]
  /\ posts \in Seq(PostRecords)
  /\ removed \subseteq DOMAIN posts

-----------------------------------------------------------------------------
(* The lists *)

Filled(list) == {k \in DOMAIN list : list[k].event # NoEvent}
Events(list) == {list[k].event : k \in Filled(list)}

\* An entry has the receiver and the priority of its event.
Agrees(pe, ps) ==
  /\ pe.event \in DOMAIN ps
  /\ ps[pe.event].receiver = pe.receiver /\ ps[pe.event].priority = pe.priority

SameRank(e, f, ps) ==
  /\ ps[e].type = "ordinary" /\ ps[f].type = "ordinary"
  /\ ps[e].receiver = ps[f].receiver /\ ps[e].priority = ps[f].priority

\* Each event is there once, and those of a receiver and a priority in the order posted.
ListGood(list, ps) ==
  /\ \A k \in Filled(list) : Agrees(list[k], ps)
  /\ \A i, j \in Filled(list) : list[i].event = list[j].event => i = j
  /\ \A i, j \in Filled(list) :
       i < j /\ SameRank(list[i].event, list[j].event, ps) => list[i].event < list[j].event

Sorted(list, from) ==
  \A i, j \in DOMAIN list : from < i /\ i < j => list[i].priority >= list[j].priority

DataGood(d, ps) ==
  /\ d \in DataRecords /\ ListGood(d.list, ps) /\ Sorted(d.list, d.insertionOffset)
  /\ d.startOffset <= Len(d.list) /\ d.startOffset <= d.insertionOffset
  /\ \A k \in DOMAIN d.list : k <= d.startOffset => d.list[k].event = NoEvent

Waits(t) == Events(data[t].list)
Waiting  == UNION {Waits(t) : t \in Threads}
Mail(o)  == {e \in Waiting : posts[e].receiver = o}

AtHome  == \A t \in Threads : \A e \in Waits(t) : home[posts[e].receiver] = t
Counted == \A o \in Objects : postedEvents[o] = Cardinality(Mail(o))

\* Who posts to an object keeps it alive.
Addressed ==
  \A p \in Posters : poster[p] # Idle =>
    poster[p].receiver \in Objects /\ home[poster[p].receiver] # NoThread

-----------------------------------------------------------------------------
(* The calls *)

\* A handler is inside the sendPostedEvents() that has called it, which is doing nothing
\* else meanwhile; an event loop is inside a handler, or the first call.
Nested(calls, ps) ==
  \A k \in DOMAIN calls :
    /\ calls[k].call = "handler" <=> k > 1 /\ calls[k - 1].call = "send"
    /\ calls[k].call = "send" => k < Len(calls)
    /\ calls[k].call \in {"loop", "polled"} => k = 1 \/ calls[k - 1].call = "handler"
    /\ calls[k].call = "handler" => calls[k].event \in DOMAIN ps
    /\ calls[k].call # "handler" => calls[k].event = NoEvent

\* An event is handled once.
HandledOnce ==
  \A t, u \in Threads : \A k \in DOMAIN stack[t], n \in DOMAIN stack[u] :
    stack[t][k].event # NoEvent =>
      /\ stack[t][k].event \notin Waiting
      /\ stack[t][k].event = stack[u][n].event => <<t, k>> = <<u, n>>

\* The loop level of the first k calls
Level(calls, k) ==
  Cardinality({j \in DOMAIN calls : j <= k /\ calls[j].call \in {"handler", "loop", "polled"}})

\* deleteLater() has noted the loop level of the handler that called it.
Noted ==
  \A e \in DOMAIN posts :
    LET asker == posts[e].asker
    IN  asker # NoEvent =>
          /\ posts[e].type = "delete"
          /\ asker \in DOMAIN posts \ Waiting /\ posts[e].level >= 1
          /\ \A t \in Threads : \A k \in DOMAIN stack[t] :
               stack[t][k].event = asker => Level(stack[t], k) = posts[e].level

IsSend(call) == call.call = "send"

Offsets(d, calls) ==
  /\ d.startOffset # 0 => \E k \in DOMAIN calls : IsSend(calls[k]) /\ IsGlobal(calls[k])
  /\ (\E k \in DOMAIN calls : IsSend(calls[k])) => d.insertionOffset <= Len(d.list)

\* What a call for one receiver or type has been through it did not want, unless the
\* list was cut.
HasPassed(d, send, ps) ==
  IsSend(send) /\ ~IsGlobal(send) /\ ~send.cut =>
    /\ send.next <= d.insertionOffset
    /\ \A k \in Filled(d.list) : k <= send.next /\ ps[d.list[k].event].type = "ordinary" =>
         send.receiver \notin {NoObject, d.list[k].receiver} \/ send.type = "delete"

\* The call in which the thread runs a handler is still to come to every event that
\* canWait does not tell of.
WillCome(d, send, ps) ==
  d.canWait => \A k \in Filled(d.list) : ps[d.list[k].event].type = "ordinary" =>
                 Index(d, send) < k /\ k <= d.insertionOffset

NoneLeft(d, ps) ==
  d.canWait => \A k \in Filled(d.list) : ps[d.list[k].event].type = "delete"

Innermost(calls) ==
  IF calls = <<>> THEN 0
  ELSE CASE Last(calls).call = "handler" -> Len(calls) - 1
         [] Last(calls).call = "loop"    -> Len(calls) - 2
         [] OTHER -> 0

Remembered(d, calls, ps) ==
  IF Innermost(calls) < 1 THEN NoneLeft(d, ps)
  ELSE WillCome(d, calls[Innermost(calls)], ps)

ThreadGood(d, calls, ps) ==
  /\ DataGood(d, ps) /\ calls \in Seq(CallRecords)
  /\ Nested(calls, ps) /\ Offsets(d, calls)
  /\ \A k \in DOMAIN calls : HasPassed(d, calls[k], ps)
  /\ Remembered(d, calls, ps)

IInv ==
  /\ Types /\ \A t \in Threads : ThreadGood(data[t], stack[t], posts)
  /\ AtHome /\ Counted /\ Addressed /\ HandledOnce /\ Noted

-----------------------------------------------------------------------------
(* What is selected from a sequence *)

UpTo(s, K) ==
  CHOOSE f : f = [n \in 0..Len(s) |->
    IF n = 0 THEN <<>> ELSE IF n \in K THEN Append(f[n - 1], s[n]) ELSE f[n - 1]]

LEMMA SelectedRounds ==
  ASSUME NEW S, NEW s \in Seq(S), NEW K
  PROVE  /\ Selected(s, K) = UpTo(s, K)[Len(s)]
         /\ UpTo(s, K) \in [0..Len(s) -> Seq(S)] /\ UpTo(s, K)[0] = <<>>
         /\ \A n \in 1..Len(s) :
              UpTo(s, K)[n] = IF n \in K THEN Append(UpTo(s, K)[n - 1], s[n])
                                         ELSE UpTo(s, K)[n - 1]
<1> DEFINE N == Len(s)
           Round(f, n) == IF n = 0 THEN <<>>
                          ELSE IF n \in K THEN Append(f[n - 1], s[n]) ELSE f[n - 1]
           G == [x \in Seq(S) \X (1..N) |-> IF x[2] \in K THEN Append(x[1], s[x[2]]) ELSE x[1]]
<1>1. N \in Nat /\ \A n \in 1..N : s[n] \in S
      BY LenProperties
<1>2. Selected(s, K) = UpTo(s, K)[N]
      BY DEF Selected, UpTo
<1>3. UpTo(s, K) = CHOOSE f : f = [n \in 0..N |-> Round(f, n)]
      BY DEF UpTo
<1>4. G \in [Seq(S) \X (1..N) -> Seq(S)]
      <2>1. ASSUME NEW x \in Seq(S) \X (1..N)
            PROVE  (IF x[2] \in K THEN Append(x[1], s[x[2]]) ELSE x[1]) \in Seq(S)
            <3>1. x[1] \in Seq(S) /\ s[x[2]] \in S
                  BY <1>1
            <3>2. QED BY <3>1, AppendProperties
      <2>2. QED BY <2>1
<1>5. PICK f \in [0..N -> Seq(S)] :
        f[0] = <<>> /\ \A n \in 1..N : f[n] = G[<<f[n - 1], n>>]
      <2> DEFINE X == Seq(S)
                 base == <<>>
      <2>1. base \in X /\ G \in [X \X (1..N) -> X] /\ N \in Nat
            <3>1. base \in X
                  OBVIOUS
            <3> HIDE DEF G, N, base
            <3>2. QED BY <1>1, <1>4, <3>1
      <2> HIDE DEF G, N, X, base
      <2>2. \E f : Runs(f, X, base, N, G)
            <3>1. Rounds(X, base, N, G)
                  BY <2>1 DEF Rounds
            <3>2. QED BY <3>1, Recursion
      <2>3. QED BY <2>2 DEF X, base, Runs
<1>6. ASSUME NEW n \in 1..N PROVE f[n] = Round(f, n)
      <2>1. n # 0 /\ n - 1 \in 0..N
            BY <1>1
      <2>2. <<f[n - 1], n>> \in Seq(S) \X (1..N)
            BY <1>5, <2>1
      <2>3. f[n] = G[<<f[n - 1], n>>]
            BY <1>5
      <2>4. QED BY <2>1, <2>2, <2>3
<1>7. f = [n \in 0..N |-> Round(f, n)]
      <2>1. \A n \in 0..N : f[n] = Round(f, n)
            <3>1. \A n \in 0..N : n = 0 \/ n \in 1..N
                  BY <1>1
            <3>2. f[0] = Round(f, 0)
                  BY <1>5
            <3> HIDE DEF Round
            <3>3. QED BY <1>6, <3>1, <3>2
      <2> HIDE DEF Round
      <2>2. f = [n \in 0..N |-> f[n]]
            BY <1>5
      <2>3. QED BY <2>1, <2>2
<1> HIDE DEF Round
<1>8. UpTo(s, K) = [n \in 0..N |-> Round(UpTo(s, K), n)]
      <2>1. \E h : h = [n \in 0..N |-> Round(h, n)]
            BY <1>7
      <2>2. QED BY <1>3, <2>1
<1> DEFINE u == UpTo(s, K)
<1>9. \A n \in 0..N : u[n] = Round(u, n)
      BY <1>8
<1>10. u[0] = <<>> /\ \A n \in 1..N : u[n] = IF n \in K THEN Append(u[n - 1], s[n]) ELSE u[n - 1]
      <2>1. u[0] = Round(u, 0)
            BY <1>1, <1>9
      <2>2. \A n \in 1..N : n \in 0..N /\ n # 0
            BY <1>1
      <2>3. \A n \in 1..N : u[n] = Round(u, n)
            BY <1>9, <2>2
      <2> HIDE DEF u
      <2>4. QED BY <2>1, <2>2, <2>3 DEF Round
<1>11. \A n \in Nat : n \in {k \in Nat : k <= N => u[k] \in Seq(S)}
      <2> HIDE DEF u
      <2>1. u[0] \in Seq(S)
            BY <1>10
      <2>2. ASSUME NEW k \in Nat, k <= N => u[k] \in Seq(S), k + 1 <= N
            PROVE  u[k + 1] \in Seq(S)
            <3>1. k + 1 \in 1..N /\ k + 1 - 1 = k /\ k <= N
                  BY <1>1, <2>2
            <3>2. u[k + 1] = IF k + 1 \in K THEN Append(u[k], s[k + 1]) ELSE u[k]
                  BY <1>10, <3>1
            <3>3. u[k] \in Seq(S) /\ s[k + 1] \in S
                  BY <1>1, <2>2, <3>1
            <3>4. QED BY <3>2, <3>3, AppendProperties
      <2> DEFINE A == {k \in Nat : k <= N => u[k] \in Seq(S)}
      <2>3. 0 \in A /\ \A k \in Nat : k \in A => k + 1 \in A
            BY <2>1, <2>2
      <2> HIDE DEF A
      <2>4. \A n \in Nat : n \in A
            BY <2>3, AllNumbers
      <2>5. QED BY <2>4 DEF A
<1>12. u \in [0..N -> Seq(S)]
      <2>1. \A n \in 0..N : n \in Nat /\ n <= N
            BY <1>1
      <2>2. u = [n \in 0..N |-> u[n]]
            BY <1>8
      <2> HIDE DEF u
      <2>3. QED BY <1>11, <2>1, <2>2
<1>13. QED BY <1>2, <1>10, <1>12

\* q is made of the elements of s at the positions in K; g says which comes from where.
Picks(g, s, q, K) ==
  /\ g \in [DOMAIN q -> K]
  /\ \A i, j \in DOMAIN q : i < j => g[i] < g[j]
  /\ \A k \in K : \E i \in DOMAIN q : g[i] = k
  /\ \A i \in DOMAIN q : q[i] = s[g[i]]

LEMMA SelectedPicks ==
  ASSUME NEW S, NEW s \in Seq(S), NEW K \in SUBSET DOMAIN s
  PROVE  Selected(s, K) \in Seq(S) /\ \E g : Picks(g, s, Selected(s, K), K)
<1> DEFINE N == Len(s)
           u == UpTo(s, K)
           Part(k) == K \cap 1..k
           A == {k \in Nat : k <= N => \E g : Picks(g, s, u[k], Part(k))}
<1>1. N \in Nat /\ DOMAIN s = 1..N /\ \A n \in 1..N : s[n] \in S
      BY LenProperties
<1>2. /\ Selected(s, K) = u[N]
      /\ u \in [0..N -> Seq(S)] /\ u[0] = <<>>
      /\ \A n \in 1..N : u[n] = IF n \in K THEN Append(u[n - 1], s[n]) ELSE u[n - 1]
      BY SelectedRounds
<1> HIDE DEF u, N
<1>3. 0 \in A
      <2>1. Part(0) = {} /\ DOMAIN u[0] = {}
            BY <1>2
      <2>2. Picks(<<>>, s, u[0], Part(0))
            BY <2>1 DEF Picks
      <2>3. QED BY <2>2
<1>4. ASSUME NEW k \in Nat, k \in A PROVE k + 1 \in A
      <2> HIDE DEF Part
      <2> SUFFICES ASSUME k + 1 <= N PROVE \E g : Picks(g, s, u[k + 1], Part(k + 1))
          OBVIOUS
      <2> USE DEF Part
      <2>1. k + 1 \in 1..N /\ k <= N /\ k \in 0..N
            BY <1>1
      <2>2. PICK g : Picks(g, s, u[k], Part(k))
            BY <1>4, <2>1
      <2>3. u[k + 1] = IF k + 1 \in K THEN Append(u[k], s[k + 1]) ELSE u[k]
            <3>1. k + 1 - 1 = k
                  OBVIOUS
            <3>2. QED BY <1>2, <2>1, <3>1
      <2>4. CASE k + 1 \notin K
            <3>1. Part(k + 1) = Part(k)
                  BY <2>4
            <3>2. QED BY <2>2, <2>3, <2>4, <3>1
      <2>5. CASE k + 1 \in K
            <3> DEFINE p == u[k]
                       q == u[k + 1]
                       n == Len(p)
                       h == [i \in 1..(n + 1) |-> IF i <= n THEN g[i] ELSE k + 1]
            <3>1. p \in Seq(S) /\ n \in Nat /\ DOMAIN p = 1..n /\ s[k + 1] \in S
                  BY <1>1, <1>2, <2>1, LenProperties
            <3>2. q = Append(p, s[k + 1])
                  BY <2>3, <2>5
            <3>3. Part(k + 1) = Part(k) \cup {k + 1}
                  BY <2>5
            <3>4. /\ g \in [1..n -> Part(k)] /\ \A i, j \in 1..n : i < j => g[i] < g[j]
                  /\ \A m \in Part(k) : \E i \in 1..n : g[i] = m
                  /\ \A i \in 1..n : p[i] = s[g[i]]
                  BY <2>2, <3>1 DEF Picks
            <3> HIDE DEF p, q
            <3>5. DOMAIN q = 1..(n + 1) /\ q[n + 1] = s[k + 1] /\ \A i \in 1..n : q[i] = p[i]
                  BY <3>1, <3>2, AppendProperties, LenProperties
            <3> HIDE DEF n
            <3>6. \A i \in 1..n : h[i] = g[i] /\ g[i] \in Part(k) /\ g[i] \in Int /\ g[i] < k + 1
                  BY <3>1, <3>4
            <3>7. h[n + 1] = k + 1 /\ \A i \in 1..(n + 1) : i \in 1..n \/ i = n + 1
                  BY <3>1
            <3>8. h \in [1..(n + 1) -> Part(k + 1)]
                  <4>1. \A i \in 1..(n + 1) : h[i] \in Part(k) \cup {k + 1}
                        BY <3>6, <3>7
                  <4>2. h = [i \in 1..(n + 1) |-> h[i]]
                        OBVIOUS
                  <4> HIDE DEF h, Part
                  <4>3. QED BY <3>3, <4>1, <4>2
            <3> HIDE DEF h
            <3>9. ASSUME NEW i \in 1..(n + 1), NEW j \in 1..(n + 1), i < j PROVE h[i] < h[j]
                  <4>1. i \in 1..n
                        BY <3>1, <3>9
                  <4>2. CASE j \in 1..n
                        BY <3>4, <3>6, <3>9, <4>1, <4>2
                  <4>3. CASE j = n + 1
                        BY <3>6, <3>7, <4>1, <4>3
                  <4>4. QED BY <3>7, <4>2, <4>3
            <3>10. ASSUME NEW m \in Part(k + 1) PROVE \E i \in 1..(n + 1) : h[i] = m
                  <4>1. CASE m \in Part(k)
                        <5>1. PICK i \in 1..n : g[i] = m
                              BY <3>4, <4>1
                        <5>2. i \in 1..(n + 1)
                              BY <3>1
                        <5>3. QED BY <3>6, <5>1, <5>2
                  <4>2. CASE m = k + 1
                        <5>1. n + 1 \in 1..(n + 1)
                              BY <3>1
                        <5>2. QED BY <3>7, <4>2, <5>1
                  <4>3. QED BY <3>3, <4>1, <4>2
            <3>11. \A i \in 1..(n + 1) : q[i] = s[h[i]]
                  BY <3>4, <3>5, <3>6, <3>7
            <3>12. Picks(h, s, q, Part(k + 1))
                  <4> HIDE DEF Part
                  <4> QED BY <3>5, <3>8, <3>9, <3>10, <3>11 DEF Picks
            <3>13. QED BY <3>12 DEF q
      <2>6. QED BY <2>4, <2>5
<1>5. N \in A
      <2> HIDE DEF A
      <2> QED BY <1>1, <1>3, <1>4, AllNumbers
<1>6. Part(N) = K
      BY <1>1
<1>7. \E g : Picks(g, s, u[N], K)
      <2> HIDE DEF Part
      <2> QED BY <1>1, <1>5, <1>6
<1>8. u[N] \in Seq(S)
      BY <1>1, <1>2
<1>9. QED BY <1>2, <1>7, <1>8

\* One element more is selected after the others.
SameChoice(s, K, r, J) == \A n \in DOMAIN s : s[n] = r[n] /\ (n \in K <=> n \in J)

LEMMA SelectedOneMore ==
  ASSUME NEW S, NEW s \in Seq(S), NEW r \in Seq(S), Len(r) = Len(s) + 1, NEW K, NEW J,
         SameChoice(s, K, r, J)
  PROVE  Selected(r, J) = IF Len(r) \in J THEN Append(Selected(s, K), r[Len(r)])
                                          ELSE Selected(s, K)
<1> DEFINE N == Len(s)
           u == UpTo(s, K)
           v == UpTo(r, J)
           A == {k \in Nat : k <= N => u[k] = v[k]}
<1>1. N \in Nat /\ DOMAIN s = 1..N /\ Len(r) = N + 1
      BY LenProperties
<1>2. /\ Selected(s, K) = u[N] /\ u[0] = <<>>
      /\ \A n \in 1..N : u[n] = IF n \in K THEN Append(u[n - 1], s[n]) ELSE u[n - 1]
      BY SelectedRounds
<1>3. /\ Selected(r, J) = v[N + 1] /\ v[0] = <<>>
      /\ \A n \in 1..(N + 1) : v[n] = IF n \in J THEN Append(v[n - 1], r[n]) ELSE v[n - 1]
      BY <1>1, SelectedRounds
<1> HIDE DEF u, v, N
<1>4. 0 \in A
      BY <1>2, <1>3
<1>5. ASSUME NEW k \in Nat, k \in A PROVE k + 1 \in A
      <2> SUFFICES ASSUME k + 1 <= N PROVE u[k + 1] = v[k + 1]
          OBVIOUS
      <2>1. k + 1 \in 1..N /\ k + 1 \in 1..(N + 1) /\ k + 1 - 1 = k /\ u[k] = v[k]
            BY <1>1, <1>5
      <2>2. s[k + 1] = r[k + 1] /\ (k + 1 \in K <=> k + 1 \in J)
            BY <1>1, <2>1 DEF SameChoice
      <2>3. u[k + 1] = IF k + 1 \in K THEN Append(u[k], s[k + 1]) ELSE u[k]
            BY <1>2, <2>1
      <2>4. v[k + 1] = IF k + 1 \in J THEN Append(v[k], r[k + 1]) ELSE v[k]
            BY <1>3, <2>1
      <2>5. QED BY <2>1, <2>2, <2>3, <2>4
<1>6. u[N] = v[N]
      <2>1. N \in A
            <3> HIDE DEF A
            <3> QED BY <1>1, <1>4, <1>5, AllNumbers
      <2>2. QED BY <1>1, <2>1
<1>7. N + 1 \in 1..(N + 1) /\ N + 1 - 1 = N
      BY <1>1
<1>8. v[N + 1] = IF N + 1 \in J THEN Append(v[N], r[N + 1]) ELSE v[N]
      <2>1. ASSUME NEW m \in 1..(N + 1), m = N + 1
            PROVE  v[m] = IF m \in J THEN Append(v[N], r[m]) ELSE v[N]
            <3>1. m - 1 = N
                  BY <1>1, <2>1
            <3>2. v[m] = IF m \in J THEN Append(v[m - 1], r[m]) ELSE v[m - 1]
                  BY <1>3, Zenon
            <3>3. QED BY <3>1, <3>2, Zenon
      <2>2. QED BY <1>7, <2>1
<1>9. QED BY <1>1, <1>2, <1>3, <1>6, <1>8

-----------------------------------------------------------------------------
(* What becomes of a list: an entry is added, entries are emptied or taken out *)

\* q is s with pe at position i: behind insertionOffset, and after those of its priority.
Adds(s, q, insertionOffset, pe, i) ==
  /\ q \in Seq(Entries) /\ Inserted(s, q, i) /\ q[i] = pe
  /\ i > insertionOffset \/ i = Len(q)
  /\ Sorted(q, insertionOffset)
  /\ \A k \in DOMAIN q : i < k => q[k].priority < pe.priority

\* Where an entry was before one was inserted at position i
Was(k, i) == IF k < i THEN k ELSE k - 1

LEMMA InsertedFrom ==
  ASSUME NEW S, NEW s \in Seq(S), NEW q \in Seq(S), NEW i, Inserted(s, q, i)
  PROVE  /\ Len(s) \in Nat /\ DOMAIN s = 1..Len(s) /\ DOMAIN q = 1..(Len(s) + 1)
         /\ i \in 1..(Len(s) + 1)
         /\ \A k \in DOMAIN q : k # i => Was(k, i) \in DOMAIN s /\ q[k] = s[Was(k, i)]
         /\ \A j, k \in DOMAIN q : j # i /\ k # i /\ j < k => Was(j, i) < Was(k, i)
         /\ \A k \in DOMAIN s : \E n \in DOMAIN q : n # i /\ Was(n, i) = k
<1>1. /\ Len(s) \in Nat /\ DOMAIN s = 1..Len(s) /\ DOMAIN q = 1..(Len(s) + 1)
      /\ i \in 1..(Len(s) + 1)
      BY LenProperties DEF Inserted
<1>2. ASSUME NEW k \in DOMAIN q, k # i PROVE Was(k, i) \in DOMAIN s /\ q[k] = s[Was(k, i)]
      <2>1. CASE k < i
            <3>1. Was(k, i) = k /\ k \in 1..Len(s)
                  BY <1>1, <2>1 DEF Was
            <3>2. QED BY <1>1, <2>1, <3>1 DEF Inserted
      <2>2. CASE ~(k < i)
            <3>1. Was(k, i) = k - 1 /\ k - 1 \in 1..Len(s) /\ ~(k - 1 < i) /\ k - 1 + 1 = k
                  BY <1>1, <1>2, <2>2 DEF Was
            <3>2. s[k - 1] = q[k]
                  BY <3>1 DEF Inserted
            <3>3. QED BY <1>1, <3>1, <3>2
      <2>3. QED BY <2>1, <2>2
<1>3. ASSUME NEW j \in DOMAIN q, NEW k \in DOMAIN q, j # i, k # i, j < k
      PROVE  Was(j, i) < Was(k, i)
      BY <1>1, <1>3 DEF Was
<1>4. ASSUME NEW k \in DOMAIN s PROVE \E n \in DOMAIN q : n # i /\ Was(n, i) = k
      <2>1. CASE k < i
            <3>1. k \in DOMAIN q /\ k # i /\ Was(k, i) = k
                  BY <1>1, <2>1 DEF Was
            <3>2. QED BY <3>1
      <2>2. CASE ~(k < i)
            <3>1. k + 1 \in DOMAIN q /\ k + 1 # i /\ Was(k + 1, i) = k
                  BY <1>1, <2>2 DEF Was
            <3>2. QED BY <3>1
      <2>3. QED BY <2>1, <2>2
<1>5. QED BY <1>1, <1>2, <1>3, <1>4

LEMMA EntryFields ==
  ASSUME NEW s \in Seq(Entries)
  PROVE  /\ Len(s) \in Nat /\ DOMAIN s = 1..Len(s)
         /\ \A k \in DOMAIN s : /\ s[k] \in Entries /\ s[k].priority \in Priorities
                                /\ s[k].priority \in Int /\ s[k].event \in Nat
<1>1. Len(s) \in Nat /\ DOMAIN s = 1..Len(s) /\ \A k \in DOMAIN s : s[k] \in Entries
      BY LenProperties
<1>2. \A pe \in Entries : pe.priority \in Priorities /\ pe.event \in Nat
      BY DEF Entries
<1>3. QED BY <1>1, <1>2, EventsAssumption

\* addEvent() keeps the part it searches sorted.
LEMMA AddEventAdds ==
  ASSUME NEW s \in Seq(Entries), NEW off \in Nat, Sorted(s, off), NEW pe \in Entries
  PROVE  \E i : Adds(s, addEvent(s, off, pe), off, pe, i)
<1> DEFINE n == Len(s)
           q == addEvent(s, off, pe)
           later == {k \in (off + 1)..n : s[k].priority < pe.priority}
<1>1. /\ n \in Nat /\ DOMAIN s = 1..n
      /\ \A k \in 1..n : s[k].priority \in Int
      BY EntryFields
<1>2. pe.priority \in Int
      BY EventsAssumption DEF Entries
<1>3. CASE s = <<>> \/ Last(s).priority >= pe.priority \/ off >= n
      <2>1. q = Append(s, pe)
            BY <1>3 DEF addEvent
      <2>2. q \in Seq(Entries) /\ Inserted(s, q, n + 1) /\ q[n + 1] = pe
            BY <2>1, AppendInserts
      <2> HIDE DEF q
      <2>3. Len(q) = n + 1 /\ DOMAIN q = 1..(n + 1) /\ \A k \in 1..n : q[k] = s[k]
            <3>1. Len(q) = n + 1 /\ DOMAIN q = 1..(n + 1)
                  BY <2>2, LenProperties DEF Inserted
            <3>2. ASSUME NEW k \in 1..n PROVE q[k] = s[k]
                  <4>1. k < n + 1
                        BY <1>1
                  <4>2. QED BY <2>2, <4>1 DEF Inserted
            <3>3. QED BY <3>1, <3>2
      <2>4. ASSUME NEW a \in DOMAIN q, NEW b \in DOMAIN q, off < a, a < b
            PROVE  q[a].priority >= q[b].priority
            <3>1. a \in 1..n /\ q[a] = s[a]
                  BY <1>1, <2>3, <2>4
            <3>2. CASE b \in 1..n
                  BY <1>1, <2>3, <2>4, <3>1, <3>2 DEF Sorted
            <3>3. CASE b = n + 1
                  <4>1. ~(off >= n) /\ n \in 1..n
                        BY <1>1, <2>4, <3>1
                  <4>2. s # <<>> /\ Last(s) = s[n]
                        BY <3>1, <1>1 DEF Last
                  <4>3. s[n].priority >= pe.priority
                        BY <1>3, <4>1, <4>2
                  <4>4. s[a].priority >= s[n].priority
                        <5>1. CASE a = n
                              BY <1>1, <4>1, <5>1
                        <5>2. CASE a # n
                              <6>1. a < n
                                    BY <1>1, <3>1, <5>2
                              <6>2. QED BY <1>1, <2>4, <3>1, <4>1, <6>1 DEF Sorted
                        <5>3. QED BY <5>1, <5>2
                  <4>5. q[b] = pe
                        BY <2>2, <3>3
                  <4>6. s[a].priority \in Int /\ s[n].priority \in Int
                        BY <1>1, <3>1, <4>1
                  <4>7. pe.priority \in Int
                        BY <1>2
                  <4>8. s[a].priority >= pe.priority
                        BY <4>3, <4>4, <4>6, <4>7
                  <4>9. QED BY <3>1, <4>5, <4>8
            <3>4. QED BY <1>1, <2>3, <3>2, <3>3
      <2>5. ASSUME NEW k \in DOMAIN q, n + 1 < k PROVE FALSE
            BY <1>1, <2>3, <2>5
      <2>6. Adds(s, q, off, pe, n + 1)
            BY <2>2, <2>3, <2>4, <2>5 DEF Adds, Sorted
      <2>7. QED BY <2>6 DEF q
<1>4. CASE ~(s = <<>> \/ Last(s).priority >= pe.priority \/ off >= n)
      <2> DEFINE m == Min(later)
      <2>1. q = InsertAt(s, m, pe)
            BY <1>4 DEF addEvent
      <2>2. n \in 1..n /\ n \in (off + 1)..n /\ s[n].priority < pe.priority
            <3>1. Last(s) = s[n] /\ n # 0
                  BY <1>1, <1>4, EmptySeq DEF Last
            <3>2. ~(Last(s).priority >= pe.priority) /\ ~(off >= n)
                  BY <1>4
            <3>3. n \in 1..n
                  BY <1>1, <3>1
            <3>4. QED BY <1>1, <1>2, <3>1, <3>2, <3>3
      <2>3. later \in SUBSET Nat /\ later # {}
            <3>1. n \in later
                  BY <2>2
            <3>2. later \in SUBSET Nat
                  BY <1>1
            <3>3. QED BY <3>1, <3>2
      <2>4. m \in later /\ \A k \in later : m <= k
            <3> HIDE DEF later
            <3> QED BY <2>3, Least
      <2>5. /\ m \in (off + 1)..n /\ m \in 1..n /\ m \in 1..(n + 1) /\ s[m].priority < pe.priority
            /\ \A k \in (off + 1)..n : k < m => s[k].priority >= pe.priority
            <3>1. m \in (off + 1)..n /\ s[m].priority < pe.priority
                  BY <2>4
            <3>2. ASSUME NEW k \in (off + 1)..n, k < m PROVE s[k].priority >= pe.priority
                  <4>1. k \notin later
                        <5> HIDE DEF later, m
                        <5>1. m \in Int
                              BY <3>1
                        <5>2. QED BY <2>4, <3>2, <5>1
                  <4>2. k \in 1..n
                        BY <1>1
                  <4>3. ~(s[k].priority < pe.priority)
                        BY <4>1
                  <4>4. QED BY <1>1, <1>2, <4>2, <4>3
            <3> HIDE DEF m
            <3>3. QED BY <1>1, <3>1, <3>2
      <2> HIDE DEF m, later
      <2>6. q \in Seq(Entries) /\ Inserted(s, q, m) /\ q[m] = pe
            <3>1. m \in 1..(Len(s) + 1)
                  BY <2>5
            <3> DEFINE r == InsertAt(s, m, pe)
            <3>2. r \in Seq(Entries) /\ Inserted(s, r, m) /\ r[m] = pe
                  BY <3>1, InsertAtInserts
            <3> HIDE DEF q, r
            <3>3. q = r
                  BY <2>1 DEF r
            <3>4. QED BY <3>2, <3>3
      <2> HIDE DEF q
      <2>7. /\ DOMAIN q = 1..(n + 1)
            /\ \A k \in DOMAIN q : k # m => Was(k, m) \in 1..n /\ q[k] = s[Was(k, m)]
            BY <1>1, <2>6, InsertedFrom
      <2>8. ASSUME NEW k \in DOMAIN q, m < k PROVE q[k].priority < pe.priority
            <3>1. Was(k, m) = k - 1 /\ k - 1 \in 1..n /\ m <= k - 1 /\ off < m /\ k \in Int
                  BY <1>1, <2>5, <2>7, <2>8 DEF Was
            <3>2. q[k] = s[k - 1]
                  BY <2>5, <2>7, <2>8, <3>1
            <3>3. s[m].priority >= s[k - 1].priority
                  <4>1. CASE m = k - 1
                        BY <1>1, <2>5, <4>1
                  <4>2. CASE m # k - 1
                        <5>1. m < k - 1
                              BY <2>5, <3>1, <4>2
                        <5>2. QED BY <1>1, <2>5, <3>1, <5>1 DEF Sorted
                  <4>3. QED BY <4>1, <4>2
            <3>4. s[m].priority \in Int /\ s[k - 1].priority \in Int
                  BY <1>1, <2>5, <3>1
            <3>5. QED BY <1>2, <2>5, <3>2, <3>3, <3>4
      <2>9. ASSUME NEW a \in DOMAIN q, NEW b \in DOMAIN q, off < a, a < b
            PROVE  q[a].priority >= q[b].priority
            <3>1. a \in Int /\ b \in Int /\ m \in Int /\ a \in 1..(n + 1) /\ b \in 1..(n + 1)
                  BY <1>1, <2>5, <2>7
            <3>2. CASE a < m /\ b < m
                  <4>1. Was(a, m) = a /\ Was(b, m) = b
                        BY <3>2 DEF Was
                  <4>2. q[a] = s[a] /\ q[b] = s[b] /\ a \in 1..n /\ b \in 1..n
                        BY <2>7, <3>1, <3>2, <4>1
                  <4>3. QED BY <1>1, <2>9, <4>2 DEF Sorted
            <3>3. CASE a < m /\ b = m
                  <4>1. Was(a, m) = a
                        BY <3>3 DEF Was
                  <4>2. q[a] = s[a] /\ a \in (off + 1)..n
                        BY <1>1, <2>7, <2>9, <3>1, <3>3, <4>1
                  <4>3. QED BY <2>5, <2>6, <3>3, <4>2
            <3>4. CASE a < m /\ m < b
                  <4>1. Was(a, m) = a /\ Was(b, m) = b - 1 /\ a < b - 1
                        BY <3>1, <3>4 DEF Was
                  <4>2. q[a] = s[a] /\ q[b] = s[b - 1] /\ a \in 1..n /\ b - 1 \in 1..n
                        BY <2>7, <3>1, <3>4, <4>1
                  <4>3. QED BY <1>1, <2>9, <4>1, <4>2 DEF Sorted
            <3>5. CASE a = m
                  <4>1. q[b].priority < pe.priority
                        BY <2>8, <2>9, <3>5
                  <4>2. q[b].priority \in Int
                        BY <2>6, EntryFields
                  <4>3. QED BY <1>2, <2>6, <3>5, <4>1, <4>2
            <3>6. CASE m < a
                  <4>1. Was(a, m) = a - 1 /\ Was(b, m) = b - 1 /\ a - 1 < b - 1 /\ off < a - 1
                        BY <2>5, <2>9, <3>1, <3>6 DEF Was
                  <4>2. q[a] = s[a - 1] /\ q[b] = s[b - 1] /\ a - 1 \in 1..n /\ b - 1 \in 1..n
                        BY <2>7, <2>9, <3>1, <3>6, <4>1
                  <4>3. QED BY <1>1, <4>1, <4>2 DEF Sorted
            <3>7. QED BY <2>9, <3>1, <3>2, <3>3, <3>4, <3>5, <3>6
      <2>10. m > off
             BY <2>5
      <2>11. Adds(s, q, off, pe, m)
             BY <2>6, <2>8, <2>9, <2>10 DEF Adds, Sorted
      <2>12. QED BY <2>11 DEF q
<1>5. QED BY <1>3, <1>4

\* What is added behind what it must not overtake
LEMMA AddsGood ==
  ASSUME NEW s \in Seq(Entries), NEW q, NEW off \in Nat, NEW pe \in Entries, NEW i, NEW ps,
         Adds(s, q, off, pe, i), ListGood(s, ps), pe.event # NoEvent, pe.event \notin Events(s),
         Agrees(pe, ps), \A e \in Events(s) : SameRank(e, pe.event, ps) => e < pe.event
  PROVE  ListGood(q, ps) /\ Events(q) = Events(s) \cup {pe.event}
<1>1. /\ q \in Seq(Entries) /\ Inserted(s, q, i) /\ q[i] = pe
      /\ \A k \in DOMAIN q : i < k => q[k].priority < pe.priority
      BY DEF Adds
<1>2. /\ Len(s) \in Nat /\ DOMAIN s = 1..Len(s) /\ DOMAIN q = 1..(Len(s) + 1)
      /\ i \in 1..(Len(s) + 1)
      /\ \A k \in DOMAIN q : k # i => Was(k, i) \in DOMAIN s /\ q[k] = s[Was(k, i)]
      /\ \A j, k \in DOMAIN q : j # i /\ k # i /\ j < k => Was(j, i) < Was(k, i)
      /\ \A k \in DOMAIN s : \E n \in DOMAIN q : n # i /\ Was(n, i) = k
      BY <1>1, InsertedFrom
<1>3. ASSUME NEW k \in Filled(q), k # i
      PROVE  k \in DOMAIN q /\ Was(k, i) \in Filled(s) /\ q[k] = s[Was(k, i)] /\ q[k].event \in Events(s)
      BY <1>2, <1>3 DEF Filled, Events
<1>4. i \in Filled(q) /\ i \in DOMAIN q
      BY <1>1, <1>2 DEF Filled
<1>5. \A k \in Filled(q) : Agrees(q[k], ps)
      BY <1>1, <1>3 DEF ListGood
<1>6. ASSUME NEW j \in Filled(q), NEW k \in Filled(q), q[j].event = q[k].event PROVE j = k
      <2>1. CASE j = i \/ k = i
            BY <1>1, <1>3, <1>6, <2>1
      <2>2. CASE j # i /\ k # i
            <3>1. Was(j, i) = Was(k, i)
                  BY <1>3, <1>6, <2>2 DEF ListGood
            <3>2. j \in 1..(Len(s) + 1) /\ k \in 1..(Len(s) + 1)
                  BY <1>2, <1>3, <2>2
            <3>3. QED BY <1>2, <2>2, <3>1, <3>2 DEF Was
      <2>3. QED BY <2>1, <2>2
<1>7. ASSUME NEW j \in Filled(q), NEW k \in Filled(q), j < k,
             SameRank(q[j].event, q[k].event, ps)
      PROVE  q[j].event < q[k].event
      <2>1. CASE j = i
            <3>1. k # i /\ k \in DOMAIN q /\ q[k].priority < pe.priority
                  BY <1>1, <1>2, <1>3, <1>7, <2>1 DEF Filled
            <3>2. q[k].priority = ps[q[k].event].priority /\ pe.priority = ps[pe.event].priority
                  BY <1>5 DEF Agrees
            <3>3. q[k].priority = pe.priority /\ pe.priority \in Int
                  BY <1>1, <1>7, <2>1, <3>2, EventsAssumption DEF SameRank, Entries
            <3>4. QED BY <3>1, <3>3
      <2>2. CASE k = i
            <3>1. j # i
                  BY <1>2, <1>7, <2>2
            <3>2. QED BY <1>1, <1>3, <1>7, <2>2, <3>1
      <2>3. CASE j # i /\ k # i
            <3>1. Was(j, i) < Was(k, i)
                  BY <1>2, <1>3, <1>7, <2>3
            <3>2. QED BY <1>3, <1>7, <2>3, <3>1 DEF ListGood
      <2>4. QED BY <2>1, <2>2, <2>3
<1>8. Events(q) \subseteq Events(s) \cup {pe.event}
      <2>1. ASSUME NEW k \in Filled(q) PROVE q[k].event \in Events(s) \cup {pe.event}
            BY <1>1, <1>3
      <2>2. QED BY <2>1 DEF Events
<1>9. ASSUME NEW k \in Filled(s) PROVE s[k].event \in Events(q)
      <2>1. PICK n \in DOMAIN q : n # i /\ Was(n, i) = k
            BY <1>2 DEF Filled
      <2>2. q[n] = s[k]
            BY <1>2, <2>1
      <2>3. QED BY <2>2 DEF Filled, Events
<1>10. Events(s) \cup {pe.event} \subseteq Events(q)
       BY <1>1, <1>4, <1>9 DEF Events
<1>11. QED BY <1>5, <1>6, <1>7, <1>8, <1>10 DEF ListGood

\* q is made of entries of s, in their order, some of which have been emptied.
Thins(g, s, q) ==
  /\ q \in Seq(Entries) /\ g \in [DOMAIN q -> DOMAIN s]
  /\ \A i, j \in DOMAIN q : i < j => g[i] < g[j]
  /\ \A k \in DOMAIN q : q[k].priority = s[g[k]].priority
                         /\ (q[k].event = NoEvent \/ q[k] = s[g[k]])

LEMMA ThinsGood ==
  ASSUME NEW s \in Seq(Entries), NEW q, NEW g, NEW ps, Thins(g, s, q), ListGood(s, ps)
  PROVE  ListGood(q, ps) /\ Events(q) \subseteq Events(s)
<1>1. /\ DOMAIN q = 1..Len(q) /\ Len(q) \in Nat /\ DOMAIN s = 1..Len(s) /\ Len(s) \in Nat
      BY LenProperties DEF Thins
<1>2. ASSUME NEW k \in Filled(q) PROVE k \in DOMAIN q /\ g[k] \in Filled(s) /\ q[k] = s[g[k]]
      BY DEF Filled, Thins
<1>3. ASSUME NEW i \in Filled(q), NEW j \in Filled(q), q[i].event = q[j].event PROVE i = j
      <2>1. g[i] = g[j]
            BY <1>2, <1>3 DEF ListGood
      <2>2. i \in DOMAIN q /\ j \in DOMAIN q /\ g[i] \in Int
            BY <1>1, <1>2 DEF Filled
      <2>3. ~(i < j) /\ ~(j < i)
            BY <2>1, <2>2 DEF Thins
      <2>4. QED BY <1>1, <2>2, <2>3
<1>4. ASSUME NEW i \in Filled(q), NEW j \in Filled(q), i < j,
             SameRank(q[i].event, q[j].event, ps)
      PROVE  q[i].event < q[j].event
      <2>1. g[i] < g[j]
            BY <1>2, <1>4 DEF Thins
      <2>2. QED BY <1>2, <1>4, <2>1 DEF ListGood
<1>5. \A k \in Filled(q) : Agrees(q[k], ps)
      BY <1>2 DEF ListGood
<1>6. Events(q) \subseteq Events(s)
      BY <1>2 DEF Events
<1>7. QED BY <1>3, <1>4, <1>5, <1>6 DEF ListGood

LEMMA ThinsSorted ==
  ASSUME NEW s \in Seq(Entries), NEW q, NEW g, Thins(g, s, q), NEW from, NEW off,
         Sorted(s, from), \A k \in DOMAIN q : off < k => from < g[k]
  PROVE  Sorted(q, off)
<1>1. ASSUME NEW i \in DOMAIN q, NEW j \in DOMAIN q, off < i, i < j
      PROVE  q[i].priority >= q[j].priority
      <2>1. from < g[i] /\ g[i] < g[j] /\ g[i] \in DOMAIN s /\ g[j] \in DOMAIN s
            BY <1>1 DEF Thins
      <2>2. s[g[i]].priority >= s[g[j]].priority
            BY <2>1 DEF Sorted
      <2>3. QED BY <2>2 DEF Thins
<1>2. QED BY <1>1 DEF Sorted

\* Some entries are emptied.
Empties(s, q) ==
  /\ q \in Seq(Entries) /\ Len(q) = Len(s)
  /\ \A k \in DOMAIN s : q[k] = s[k] \/ q[k] = Emptied(s[k])

LEMMA EmptiesGood ==
  ASSUME NEW s \in Seq(Entries), NEW q, NEW ps, Empties(s, q), ListGood(s, ps)
  PROVE  /\ DOMAIN q = DOMAIN s /\ ListGood(q, ps)
         /\ \A off : Sorted(s, off) => Sorted(q, off)
         /\ \A k \in Filled(q) : k \in Filled(s) /\ q[k] = s[k]
         /\ Events(q) = Events(s) \ {s[k].event : k \in DOMAIN s \ Filled(q)}
<1> DEFINE g == [k \in DOMAIN q |-> k]
<1>1. /\ DOMAIN q = 1..Len(q) /\ Len(q) \in Nat /\ DOMAIN s = 1..Len(s) /\ Len(s) \in Nat
      /\ DOMAIN q = DOMAIN s
      BY LenProperties DEF Empties
<1>2. \A k \in DOMAIN s : /\ q[k].priority = s[k].priority
                          /\ q[k].event = NoEvent \/ q[k] = s[k]
      <2>1. \A k \in DOMAIN s : s[k] \in Entries
            BY EntryFields
      <2>2. \A pe \in Entries : Emptied(pe).priority = pe.priority /\ Emptied(pe).event = NoEvent
            BY DEF Emptied, Entries
      <2>3. QED BY <2>1, <2>2 DEF Empties
<1>3. Thins(g, s, q)
      <2>1. \A k \in DOMAIN q : g[k] = k
            OBVIOUS
      <2>2. g \in [DOMAIN q -> DOMAIN s]
            BY <1>1
      <2>3. q \in Seq(Entries)
            BY DEF Empties
      <2> HIDE DEF g
      <2>4. QED BY <1>1, <1>2, <2>1, <2>2, <2>3 DEF Thins
<1>4. ListGood(q, ps) /\ Events(q) \subseteq Events(s)
      BY <1>3, ThinsGood
<1>5. ASSUME NEW off, Sorted(s, off) PROVE Sorted(q, off)
      BY <1>1, <1>2, <1>5 DEF Sorted
<1>6. ASSUME NEW k \in Filled(q) PROVE k \in Filled(s) /\ q[k] = s[k]
      BY <1>1, <1>2 DEF Filled
<1>7. ASSUME NEW k \in Filled(q), NEW n \in DOMAIN s \ Filled(q) PROVE q[k].event # s[n].event
      <2>1. CASE n \in Filled(s)
            BY <1>6, <2>1 DEF ListGood
      <2>2. CASE n \notin Filled(s)
            BY <2>2 DEF Filled
      <2>3. QED BY <2>1, <2>2
<1>8. ASSUME NEW k \in Filled(s), k \in Filled(q) PROVE s[k].event \in Events(q)
      BY <1>6, <1>8 DEF Events
<1>9. Events(q) = Events(s) \ {s[k].event : k \in DOMAIN s \ Filled(q)}
      <2>1. ASSUME NEW e \in Events(q) PROVE e \in Events(s) \ {s[k].event : k \in DOMAIN s \ Filled(q)}
            BY <1>4, <1>7, <2>1 DEF Events
      <2>2. ASSUME NEW e \in Events(s) \ {s[k].event : k \in DOMAIN s \ Filled(q)} PROVE e \in Events(q)
            <3>1. PICK k \in Filled(s) : e = s[k].event
                  BY DEF Events
            <3>2. k \in DOMAIN s /\ k \in Filled(q)
                  BY <2>2, <3>1 DEF Filled
            <3>3. QED BY <1>8, <3>1, <3>2
      <2>3. QED BY <2>1, <2>2
<1>10. QED BY <1>1, <1>4, <1>5, <1>6, <1>9

\* One entry is emptied.
LEMMA EmptiedGood ==
  ASSUME NEW s \in Seq(Entries), NEW ps, ListGood(s, ps), NEW i \in DOMAIN s
  PROVE  LET q == [s EXCEPT ![i] = Emptied(@)]
         IN  /\ Empties(s, q) /\ q[i] = Emptied(s[i]) /\ q[i].event = NoEvent
             /\ \A k \in DOMAIN s \ {i} : q[k] = s[k]
             /\ Events(q) = Events(s) \ {s[i].event}
<1> DEFINE q == [s EXCEPT ![i] = Emptied(@)]
<1>1. DOMAIN s = 1..Len(s) /\ Len(s) \in Nat /\ \A k \in DOMAIN s : s[k] \in Entries
      BY EntryFields
<1>2. Emptied(s[i]) \in Entries /\ Emptied(s[i]).event = NoEvent
      BY <1>1 DEF Emptied, Entries, NoEvent
<1>3. q[i] = Emptied(s[i]) /\ \A k \in DOMAIN s \ {i} : q[k] = s[k]
      BY <1>1
<1>4. q \in Seq(Entries) /\ Len(q) = Len(s)
      <2>1. q \in [1..Len(s) -> Entries]
            BY <1>1, <1>2
      <2> HIDE DEF q
      <2>2. QED BY <1>1, <2>1, LenProperties, SeqDef
<1> HIDE DEF q
<1>5. Empties(s, q)
      BY <1>3, <1>4 DEF Empties
<1>6. /\ DOMAIN q = DOMAIN s
      /\ Events(q) = Events(s) \ {s[k].event : k \in DOMAIN s \ Filled(q)}
      BY <1>5, EmptiesGood
<1>7. i \notin Filled(q) /\ \A k \in DOMAIN s : k \in Filled(q) \/ k = i \/ k \notin Filled(s)
      BY <1>2, <1>3, <1>6 DEF Filled
<1>8. Events(q) = Events(s) \ {s[i].event}
      <2>1. ASSUME NEW e \in Events(s)
            PROVE  e \in {s[k].event : k \in DOMAIN s \ Filled(q)} <=> e = s[i].event
            <3>1. e # NoEvent
                  BY DEF Events, Filled
            <3>2. ASSUME NEW k \in DOMAIN s \ Filled(q), e = s[k].event PROVE k = i
                  BY <1>7, <3>1, <3>2 DEF Filled
            <3>3. QED BY <1>7, <3>2
      <2>2. QED BY <1>6, <2>1
<1>9. QED BY <1>2, <1>3, <1>5, <1>8 DEF q

-----------------------------------------------------------------------------
(* What becomes of a QThreadData between the rounds of its thread *)

LEMMA DataFields ==
  ASSUME NEW d \in DataRecords
  PROVE  /\ d.list \in Seq(Entries) /\ d.startOffset \in Nat /\ d.insertionOffset \in Nat
         /\ d.canWait \in BOOLEAN
         /\ Len(d.list) \in Nat /\ DOMAIN d.list = 1..Len(d.list)
<1>1. d.list \in Seq(Entries) /\ d.startOffset \in Nat /\ d.insertionOffset \in Nat
      /\ d.canWait \in BOOLEAN
      BY DEF DataRecords
<1>2. QED BY <1>1, LenProperties

LEMMA CallFields ==
  ASSUME NEW calls \in Seq(CallRecords)
  PROVE  /\ Len(calls) \in Nat /\ DOMAIN calls = 1..Len(calls)
         /\ \A k \in DOMAIN calls : /\ calls[k] \in CallRecords /\ calls[k].next \in Nat
                                    /\ calls[k].event \in Nat
<1>1. Len(calls) \in Nat /\ DOMAIN calls = 1..Len(calls)
      /\ \A k \in DOMAIN calls : calls[k] \in CallRecords
      BY LenProperties
<1>2. \A c \in CallRecords : c.next \in Nat /\ c.event \in Nat
      BY DEF CallRecords
<1>3. QED BY <1>1, <1>2

\* More was posted, and nothing else has happened here.
Extends(ps, more) == DOMAIN ps \subseteq DOMAIN more /\ \A e \in DOMAIN ps : more[e] = ps[e]

LEMMA ExtendsThread ==
  ASSUME NEW d, NEW calls, NEW ps, NEW more, ThreadGood(d, calls, ps), Extends(ps, more)
  PROVE  ThreadGood(d, calls, more)
<1>1. \A k \in Filled(d.list) : /\ d.list[k].event \in DOMAIN ps
                                /\ more[d.list[k].event] = ps[d.list[k].event]
      BY DEF ThreadGood, DataGood, ListGood, Agrees, Extends
<1>2. ListGood(d.list, more)
      <2>1. ListGood(d.list, ps)
            BY DEF ThreadGood, DataGood
      <2>2. \A k \in Filled(d.list) : Agrees(d.list[k], more)
            BY <1>1, <2>1 DEF ListGood, Agrees, Extends
      <2>3. \A i, j \in Filled(d.list) :
              SameRank(d.list[i].event, d.list[j].event, more)
                => SameRank(d.list[i].event, d.list[j].event, ps)
            BY <1>1 DEF SameRank
      <2>4. QED BY <2>1, <2>2, <2>3 DEF ListGood
<1>3. DataGood(d, more)
      BY <1>2 DEF ThreadGood, DataGood
<1>4. Nested(calls, more)
      BY DEF ThreadGood, Nested, Extends
<1>5. \A k \in DOMAIN calls : HasPassed(d, calls[k], more)
      <2>1. ASSUME NEW k \in DOMAIN calls PROVE HasPassed(d, calls[k], more)
            <3>1. HasPassed(d, calls[k], ps)
                  BY DEF ThreadGood
            <3>2. QED BY <1>1, <3>1 DEF HasPassed
      <2>2. QED BY <2>1
<1>6. Remembered(d, calls, more)
      BY <1>1 DEF ThreadGood, Remembered, NoneLeft, WillCome
<1>7. QED BY <1>3, <1>4, <1>5, <1>6 DEF ThreadGood

\* e has another list than d, and canWait may have fallen.
OtherList(d, e) ==
  /\ e \in DataRecords /\ e.startOffset = d.startOffset
  /\ e.insertionOffset = d.insertionOffset /\ (e.canWait => d.canWait)

LEMMA AddsKeeps ==
  ASSUME NEW s \in Seq(Entries), NEW q, NEW off \in Nat, NEW pe, NEW i,
         Adds(s, q, off, pe, i)
  PROVE  /\ q \in Seq(Entries) /\ Len(s) \in Nat /\ Len(q) = Len(s) + 1
         /\ DOMAIN s = 1..Len(s) /\ DOMAIN q = 1..(Len(s) + 1) /\ i \in 1..(Len(s) + 1)
         /\ \A k \in DOMAIN s : k <= off => k < i /\ q[k] = s[k]
<1>1. q \in Seq(Entries) /\ Inserted(s, q, i) /\ (i > off \/ i = Len(q))
      BY DEF Adds
<1>2. /\ Len(s) \in Nat /\ DOMAIN s = 1..Len(s) /\ DOMAIN q = 1..(Len(s) + 1)
      /\ i \in 1..(Len(s) + 1) /\ Len(q) = Len(s) + 1
      BY <1>1, InsertedFrom DEF Inserted
<1>3. ASSUME NEW k \in DOMAIN s, k <= off PROVE k < i /\ q[k] = s[k]
      <2>1. k < i
            BY <1>1, <1>2, <1>3
      <2>2. QED BY <1>1, <1>2, <2>1 DEF Inserted
<1>4. QED BY <1>1, <1>2, <1>3

LEMMA AddsThread ==
  ASSUME NEW d, NEW calls, NEW ps, ThreadGood(d, calls, ps), NEW e, OtherList(d, e), ~e.canWait,
         NEW pe \in Entries, NEW i, Adds(d.list, e.list, d.insertionOffset, pe, i),
         pe.event # NoEvent, pe.event \notin Events(d.list), Agrees(pe, ps),
         \A f \in Events(d.list) : SameRank(f, pe.event, ps) => f < pe.event
  PROVE  ThreadGood(e, calls, ps) /\ Events(e.list) = Events(d.list) \cup {pe.event}
<1> DEFINE s == d.list
           q == e.list
           off == d.insertionOffset
<1>1. /\ DataGood(d, ps) /\ Nested(calls, ps) /\ Offsets(d, calls)
      /\ \A k \in DOMAIN calls : HasPassed(d, calls[k], ps)
      BY DEF ThreadGood
<1>2. /\ d \in DataRecords /\ ListGood(s, ps) /\ d.startOffset <= Len(s) /\ d.startOffset <= off
      /\ \A k \in DOMAIN s : k <= d.startOffset => s[k].event = NoEvent
      BY <1>1 DEF DataGood
<1>3. /\ s \in Seq(Entries) /\ Len(s) \in Nat /\ DOMAIN s = 1..Len(s)
      /\ off \in Nat /\ d.startOffset \in Nat
      BY <1>2, DataFields
<1>4. /\ e \in DataRecords /\ e.startOffset = d.startOffset /\ e.insertionOffset = off
      BY DEF OtherList
<1> HIDE DEF s, q, off
<1>5. Adds(s, q, off, pe, i) /\ pe.event \notin Events(s)
      /\ \A f \in Events(s) : SameRank(f, pe.event, ps) => f < pe.event
      BY DEF s, q, off
<1>6. /\ Len(q) = Len(s) + 1 /\ DOMAIN q = 1..(Len(s) + 1) 
      /\ \A k \in DOMAIN s : k <= off => q[k] = s[k]
      BY <1>3, <1>5, AddsKeeps
<1>7. ListGood(q, ps) /\ Events(q) = Events(s) \cup {pe.event}
      BY <1>2, <1>3, <1>5, AddsGood
<1>8. DataGood(e, ps)
      <2>1. Sorted(q, off)
            BY <1>5 DEF Adds
      <2>2. ASSUME NEW k \in DOMAIN q, k <= d.startOffset PROVE q[k].event = NoEvent
            <3>1. k \in DOMAIN s /\ k <= off
                  BY <1>2, <1>3, <1>6, <2>2
            <3>2. QED BY <1>2, <1>6, <2>2, <3>1
      <2>3. d.startOffset <= Len(q)
            BY <1>2, <1>3, <1>6
      <2>4. QED BY <1>2, <1>4, <1>7, <2>1, <2>2, <2>3 DEF DataGood, q
<1>9. Offsets(e, calls)
      <2>1. ASSUME \E k \in DOMAIN calls : IsSend(calls[k]) PROVE off <= Len(q)
            <3>1. off <= Len(s)
                  BY <1>1, <2>1 DEF Offsets, off, s
            <3>2. QED BY <1>3, <1>6, <3>1
      <2>2. QED BY <1>1, <1>4, <2>1 DEF Offsets, q
<1>10. ASSUME NEW k \in DOMAIN calls, IsSend(calls[k]), ~IsGlobal(calls[k]), ~calls[k].cut
       PROVE  HasPassed(e, calls[k], ps)
      <2> DEFINE c == calls[k]
      <2>1. /\ c.next <= off
            /\ \A n \in Filled(s) : n <= c.next /\ ps[s[n].event].type = "ordinary" =>
                 c.receiver \notin {NoObject, s[n].receiver} \/ c.type = "delete"
            BY <1>1, <1>10 DEF HasPassed, s, off
      <2>2. off <= Len(s) /\ c.next \in Nat
            BY <1>1, <1>10, CallFields DEF Offsets, off, s, ThreadGood
      <2> HIDE DEF c
      <2>3. ASSUME NEW n \in Filled(q), n <= c.next PROVE n \in Filled(s) /\ q[n] = s[n]
            <3>0. n \in DOMAIN q /\ q[n].event # NoEvent
                  BY DEF Filled
            <3>1. n \in DOMAIN s /\ n <= off
                  <4> DEFINE m == c.next
                  <4>1. n \in 1..(Len(s) + 1) /\ n <= m /\ m <= off
                        <5>1. n \in 1..(Len(s) + 1)
                              BY <1>6, <3>0
                        <5>2. QED BY <2>1, <2>3, <5>1
                  <4> HIDE DEF m
                  <4>2. n <= off /\ n <= Len(s)
                        <5>1. m \in Nat
                              BY <2>2 DEF m
                        <5>2. QED BY <1>3, <2>2, <4>1, <5>1
                  <4>3. QED BY <1>3, <4>1, <4>2
            <3>2. QED BY <1>6, <3>0, <3>1 DEF Filled
      <2>4. \A n \in Filled(q) : n <= c.next /\ ps[q[n].event].type = "ordinary" =>
              c.receiver \notin {NoObject, q[n].receiver} \/ c.type = "delete"
            BY <2>1, <2>3
      <2>5. QED BY <1>4, <2>1, <2>4 DEF HasPassed, q, c
<1>11. \A k \in DOMAIN calls : HasPassed(e, calls[k], ps)
      <2>1. ASSUME NEW k \in DOMAIN calls,
                   ~(IsSend(calls[k]) /\ ~IsGlobal(calls[k]) /\ ~calls[k].cut)
            PROVE  HasPassed(e, calls[k], ps)
            BY <2>1 DEF HasPassed
      <2>2. QED BY <1>10, <2>1
<1>12. Remembered(e, calls, ps)
      BY DEF Remembered, NoneLeft, WillCome
<1>13. QED BY <1>1, <1>7, <1>8, <1>9, <1>11, <1>12 DEF ThreadGood, s, q

LEMMA EmptiesThread ==
  ASSUME NEW d, NEW calls, NEW ps, ThreadGood(d, calls, ps), NEW e, OtherList(d, e),
         Empties(d.list, e.list)
  PROVE  ThreadGood(e, calls, ps)
<1> DEFINE s == d.list
           q == e.list
<1>1. /\ DataGood(d, ps) /\ Nested(calls, ps) /\ Offsets(d, calls)
      /\ \A k \in DOMAIN calls : HasPassed(d, calls[k], ps)
      /\ Remembered(d, calls, ps)
      BY DEF ThreadGood
<1>2. /\ d \in DataRecords /\ ListGood(s, ps) /\ Sorted(s, d.insertionOffset)
      /\ d.startOffset <= Len(s) /\ d.startOffset <= d.insertionOffset
      /\ \A k \in DOMAIN s : k <= d.startOffset => s[k].event = NoEvent
      BY <1>1 DEF DataGood
<1>3. s \in Seq(Entries) /\ Len(q) = Len(s)
      BY <1>2, DataFields DEF Empties
<1>4. /\ e \in DataRecords /\ e.startOffset = d.startOffset
      /\ e.insertionOffset = d.insertionOffset /\ (e.canWait => d.canWait)
      BY DEF OtherList
<1> HIDE DEF s, q
<1>5. Empties(s, q)
      BY DEF s, q
<1>6. /\ DOMAIN q = DOMAIN s /\ ListGood(q, ps) /\ Sorted(q, d.insertionOffset)
      /\ \A k \in Filled(q) : k \in Filled(s) /\ q[k] = s[k]
      BY <1>2, <1>3, <1>5, EmptiesGood
<1>7. DataGood(e, ps)
      <2>1. \A k \in DOMAIN q : k <= d.startOffset => q[k].event = NoEvent
            BY <1>2, <1>6 DEF Filled
      <2>2. QED BY <1>2, <1>3, <1>4, <1>6, <2>1 DEF DataGood, q
<1>8. Offsets(e, calls)
      BY <1>1, <1>3, <1>4 DEF Offsets, s, q
<1>9. ASSUME NEW k \in DOMAIN calls PROVE HasPassed(e, calls[k], ps)
      <2>1. HasPassed(d, calls[k], ps)
            BY <1>1
      <2>2. QED BY <1>4, <1>6, <2>1 DEF HasPassed, s, q
<1>10. Remembered(e, calls, ps)
      <2>1. NoneLeft(d, ps) => NoneLeft(e, ps)
            BY <1>4, <1>6 DEF NoneLeft, s, q
      <2>2. ASSUME NEW c, WillCome(d, c, ps) PROVE WillCome(e, c, ps)
            <3>1. Index(e, c) = Index(d, c)
                  BY <1>4 DEF Index
            <3>2. QED BY <1>4, <1>6, <2>2, <3>1 DEF WillCome, s, q
      <2>3. QED BY <1>1, <2>1, <2>2 DEF Remembered
<1>11. QED BY <1>1, <1>7, <1>8, <1>9, <1>10 DEF ThreadGood

-----------------------------------------------------------------------------
(* The rounds of sendPostedEvents(), which began with d0 and s0 *)

Walks(d0, s0, d, c) ==
  /\ DataGood(d, posts) /\ d.insertionOffset = d0.insertionOffset
  /\ Len(d0.list) <= Len(d.list)
  /\ \A k \in DOMAIN d0.list : k <= d0.insertionOffset =>
       d.list[k] = d0.list[k] \/ d.list[k].event = NoEvent
  /\ ~IsGlobal(s0) => d.startOffset = d0.startOffset
  /\ c \in CallRecords /\ IsSend(c) /\ c.receiver = s0.receiver /\ c.type = s0.type
  /\ c.cut = s0.cut /\ c.event = s0.event
  /\ HasPassed(d, c, posts) /\ WillCome(d, c, posts)

\* What a round makes of the list before the index is counted up
RoundList(d, c, p) ==
  LET i == Index(d, c) + 1
  IN  /\ OtherList(d, p) /\ DataGood(p, posts) /\ Len(d.list) <= Len(p.list)
      /\ \A k \in DOMAIN d.list : k <= d.insertionOffset =>
           p.list[k] = d.list[k] \/ p.list[k].event = NoEvent
      /\ IsGlobal(c) => p.list[i].event = NoEvent
      /\ p.list[i].event # NoEvent /\ posts[p.list[i].event].type = "ordinary" =>
           /\ ~p.canWait
           /\ c.receiver \notin {NoObject, p.list[i].receiver} \/ c.type = "delete"
      /\ p.canWait => \A k \in Filled(p.list) : posts[p.list[k].event].type = "ordinary" =>
                        k \in Filled(d.list) /\ p.list[k] = d.list[k]

LEMMA GoesTo ==
  ASSUME NEW d \in DataRecords, NEW c \in CallRecords, Goes(d, c)
  PROVE  /\ Index(d, c) \in Nat /\ Index(d, c) + 1 \in DOMAIN d.list
         /\ Index(d, c) + 1 <= d.insertionOffset
<1>1. /\ d.startOffset \in Nat /\ d.insertionOffset \in Nat
      /\ Len(d.list) \in Nat /\ DOMAIN d.list = 1..Len(d.list)
      BY DataFields
<1>2. Index(d, c) \in Nat
      BY <1>1 DEF CallRecords, Index
<1>3. Index(d, c) < Len(d.list) /\ Index(d, c) < d.insertionOffset
      BY DEF Goes
<1>4. QED BY <1>1, <1>2, <1>3

LEMMA CountedWalks ==
  ASSUME NEW d0 \in DataRecords, NEW s0, NEW d, NEW c, Walks(d0, s0, d, c), Goes(d, c),
         d0.insertionOffset <= Len(d0.list), NEW p, RoundList(d, c, p)
  PROVE  /\ Walks(d0, s0, CountedData(p, c), CountedCall(c))
         /\ Index(CountedData(p, c), CountedCall(c)) = Index(d, c) + 1
<1> DEFINE i == Index(d, c) + 1
           off == d.insertionOffset
           d2 == CountedData(p, c)
           c2 == CountedCall(c)
           q == p.list
<1>1. /\ DataGood(d, posts) /\ d \in DataRecords /\ off = d0.insertionOffset
      /\ c \in CallRecords /\ IsSend(c) /\ (IsGlobal(s0) <=> IsGlobal(c))
      /\ HasPassed(d, c, posts) /\ WillCome(d, c, posts)
      BY DEF Walks, DataGood, IsGlobal
<1>2. Index(d, c) \in Nat /\ i \in DOMAIN d.list /\ i <= off
      BY <1>1, GoesTo
<1>3. /\ d.list \in Seq(Entries) /\ off \in Nat /\ d.startOffset \in Nat
      /\ Len(d.list) \in Nat /\ DOMAIN d.list = 1..Len(d.list)
      BY <1>1, DataFields
<1>4. /\ p \in DataRecords /\ p.startOffset = d.startOffset /\ p.insertionOffset = off
      /\ (p.canWait => d.canWait)
      /\ DataGood(p, posts) /\ Len(d.list) <= Len(q)
      /\ \A k \in DOMAIN d.list : k <= off => q[k] = d.list[k] \/ q[k].event = NoEvent
      /\ IsGlobal(c) => q[i].event = NoEvent
      /\ q[i].event # NoEvent /\ posts[q[i].event].type = "ordinary" =>
           /\ ~p.canWait
           /\ c.receiver \notin {NoObject, q[i].receiver} \/ c.type = "delete"
      /\ p.canWait => \A k \in Filled(q) : posts[q[k].event].type = "ordinary" =>
                        k \in Filled(d.list) /\ q[k] = d.list[k]
      BY DEF RoundList, OtherList
<1>5. q \in Seq(Entries) /\ Len(q) \in Nat /\ DOMAIN q = 1..Len(q)
      BY <1>4, DataFields
<1>6. /\ d2 \in DataRecords /\ d2.list = q /\ d2.insertionOffset = off
      /\ d2.canWait = p.canWait
      /\ d2.startOffset = IF IsGlobal(c) THEN d.startOffset + 1 ELSE d.startOffset
      <2>1. CASE IsGlobal(c)
            <3>1. d2 = [p EXCEPT !.startOffset = @ + 1]
                  BY <2>1 DEF CountedData
            <3> HIDE DEF d2
            <3>2. p.startOffset + 1 \in Nat
                  BY <1>3, <1>4
            <3>3. QED BY <1>4, <2>1, <3>1, <3>2 DEF DataRecords
      <2>2. CASE ~IsGlobal(c)
            BY <1>4, <2>2 DEF CountedData
      <2>3. QED BY <2>1, <2>2
<1>7. /\ c2 \in CallRecords /\ IsSend(c2) /\ c2.receiver = c.receiver /\ c2.type = c.type
      /\ c2.cut = c.cut /\ c2.event = c.event
      /\ c2.next = IF IsGlobal(c) THEN c.next ELSE c.next + 1
      <2>1. CASE IsGlobal(c)
            BY <1>1, <2>1 DEF CountedCall
      <2>2. CASE ~IsGlobal(c)
            <3>1. c2 = [c EXCEPT !.next = @ + 1]
                  BY <2>2 DEF CountedCall
            <3> HIDE DEF c2
            <3>2. c.next \in Nat /\ c.next + 1 \in Nat
                  BY <1>1 DEF CallRecords
            <3>3. QED BY <1>1, <2>2, <3>1, <3>2 DEF CallRecords, IsSend
      <2>3. QED BY <2>1, <2>2
<1>8. IsGlobal(c2) <=> IsGlobal(c)
      BY <1>7 DEF IsGlobal
<1> HIDE DEF d2, c2
<1>9. Index(d2, c2) = i
      BY <1>2, <1>6, <1>7, <1>8 DEF Index
<1> HIDE DEF i, off, q
<1>10. DataGood(d2, posts)
      <2>1. /\ ListGood(q, posts) /\ Sorted(q, off)
            /\ d.startOffset <= Len(q) /\ d.startOffset <= off
            /\ \A k \in DOMAIN q : k <= d.startOffset => q[k].event = NoEvent
            BY <1>4 DEF DataGood, q, off
      <2>2. CASE IsGlobal(c)
            <3>1. i = d.startOffset + 1
                  BY <2>2 DEF Index, i
            <3>2. d.startOffset + 1 <= Len(q) /\ d.startOffset + 1 <= off
                  BY <1>2, <1>3, <1>4, <1>5, <3>1
            <3>3. ASSUME NEW k \in DOMAIN q, k <= d.startOffset + 1 PROVE q[k].event = NoEvent
                  <4>1. k <= d.startOffset \/ k = i
                        BY <1>3, <1>5, <3>1, <3>3
                  <4>2. QED BY <1>4, <2>1, <2>2, <4>1
            <3>4. QED BY <1>6, <2>1, <2>2, <3>2, <3>3 DEF DataGood
      <2>3. CASE ~IsGlobal(c)
            BY <1>6, <2>1, <2>3 DEF DataGood
      <2>4. QED BY <2>2, <2>3
<1>11. /\ Len(d0.list) <= Len(q)
       /\ \A k \in DOMAIN d0.list : k <= d0.insertionOffset =>
            q[k] = d0.list[k] \/ q[k].event = NoEvent
      <2>1. Len(d0.list) <= Len(d.list) /\ Len(d0.list) \in Nat /\ DOMAIN d0.list = 1..Len(d0.list)
            BY DataFields DEF Walks
      <2>2. Len(d0.list) <= Len(q)
            BY <1>3, <1>4, <1>5, <2>1
      <2>3. ASSUME NEW k \in DOMAIN d0.list, k <= d0.insertionOffset
            PROVE  q[k] = d0.list[k] \/ q[k].event = NoEvent
            <3>1. d.list[k] = d0.list[k] \/ d.list[k].event = NoEvent
                  BY <2>3 DEF Walks
            <3>2. k \in DOMAIN d.list /\ k <= off
                  BY <1>1, <1>3, <2>1, <2>3
            <3>3. q[k] = d.list[k] \/ q[k].event = NoEvent
                  BY <1>4, <3>2
            <3>4. QED BY <3>1, <3>3
      <2>4. QED BY <2>2, <2>3
<1>12. HasPassed(d2, c2, posts)
      <2> SUFFICES ASSUME ~IsGlobal(c), ~c.cut
                   PROVE  /\ c2.next <= off
                          /\ \A k \in Filled(q) : k <= c2.next /\ posts[q[k].event].type = "ordinary" =>
                               c2.receiver \notin {NoObject, q[k].receiver} \/ c2.type = "delete"
          BY <1>6, <1>7, <1>8 DEF HasPassed
      <2>1. c2.next = i /\ i = c.next + 1 /\ c.next \in Nat
            BY <1>1, <1>7 DEF Index, i, CallRecords
      <2>2. \A k \in Filled(d.list) : k <= c.next /\ posts[d.list[k].event].type = "ordinary" =>
              c.receiver \notin {NoObject, d.list[k].receiver} \/ c.type = "delete"
            BY <1>1 DEF HasPassed
      <2>3. ASSUME NEW k \in Filled(q), k <= i, posts[q[k].event].type = "ordinary"
            PROVE  c.receiver \notin {NoObject, q[k].receiver} \/ c.type = "delete"
            <3>1. CASE k = i
                  BY <1>4, <2>3, <3>1 DEF Filled
            <3>2. CASE k # i
                  <4>1. k \in 1..Len(q)
                        BY <1>5 DEF Filled
                  <4>2. k <= c.next /\ k \in DOMAIN d.list /\ k <= off
                        <5>1. k <= c.next /\ k <= i
                              BY <2>1, <2>3, <3>2, <4>1
                        <5>2. QED BY <1>2, <1>3, <4>1, <5>1
                  <4>3. q[k] = d.list[k]
                        BY <1>4, <4>2 DEF Filled
                  <4>4. k \in Filled(d.list)
                        BY <4>2, <4>3 DEF Filled
                  <4>5. QED BY <2>2, <2>3, <4>2, <4>3, <4>4
            <3>3. QED BY <3>1, <3>2
      <2>4. QED BY <1>2, <1>7, <2>1, <2>3
<1>13. WillCome(d2, c2, posts)
      <2> SUFFICES ASSUME p.canWait, NEW k \in Filled(q), posts[q[k].event].type = "ordinary"
                   PROVE  i < k /\ k <= off
          BY <1>6, <1>9 DEF WillCome
      <2>1. k # i
            BY <1>4 DEF Filled
      <2>2. d.canWait /\ k \in Filled(d.list) /\ q[k] = d.list[k]
            BY <1>4
      <2>3. k \in Nat
            BY <1>3, <2>2 DEF Filled
      <2>4. Index(d, c) < k /\ k <= off
            BY <1>1, <2>2 DEF WillCome, off
      <2>5. QED BY <1>2, <2>1, <2>3, <2>4 DEF i
<1>14. /\ ~IsGlobal(s0) => d2.startOffset = d0.startOffset
       /\ c2.receiver = s0.receiver /\ c2.type = s0.type
       /\ c2.cut = s0.cut /\ c2.event = s0.event
       BY <1>1, <1>6, <1>7 DEF Walks
<1>15. Walks(d0, s0, d2, c2)
       BY <1>1, <1>6, <1>7, <1>10, <1>11, <1>12, <1>13, <1>14 DEF Walks
<1>16. QED BY <1>9, <1>15 DEF d2, c2, i

EmptiedAt(d, i) == [d EXCEPT !.list[i] = Emptied(@)]

\* The entry the round is about is emptied.
LEMMA EmptiedRound ==
  ASSUME NEW d0, NEW s0, NEW d, NEW c, Walks(d0, s0, d, c), Goes(d, c)
  PROVE  LET p == EmptiedAt(d, Index(d, c) + 1)
         IN  /\ Index(d, c) + 1 \in DOMAIN d.list /\ RoundList(d, c, p)
             /\ Events(p.list) = Events(d.list) \ {Current(d, c).event}
<1> DEFINE i == Index(d, c) + 1
           s == d.list
           q == [s EXCEPT ![i] = Emptied(@)]
           p == EmptiedAt(d, i)
<1>1. /\ DataGood(d, posts) /\ d \in DataRecords /\ c \in CallRecords
      BY DEF Walks, DataGood
<1>2. i \in DOMAIN s
      BY <1>1, GoesTo
<1>3. /\ ListGood(s, posts) /\ Sorted(s, d.insertionOffset)
      /\ d.startOffset <= Len(s) /\ d.startOffset <= d.insertionOffset
      /\ \A k \in DOMAIN s : k <= d.startOffset => s[k].event = NoEvent
      BY <1>1 DEF DataGood
<1>4. s \in Seq(Entries)
      BY <1>1, DataFields
<1>5. /\ p.list = q /\ p.startOffset = d.startOffset
      /\ p.insertionOffset = d.insertionOffset /\ p.canWait = d.canWait
      BY <1>1 DEF DataRecords, EmptiedAt
<1>6. q \in Seq(Entries) => p \in DataRecords
      <2> HIDE DEF q
      <2>1. p = [d EXCEPT !.list = q]
            BY <1>1 DEF DataRecords, q, EmptiedAt
      <2>2. QED BY <1>1, <2>1 DEF DataRecords
<1> HIDE DEF p, i, s
<1>7. /\ Empties(s, q) /\ q[i].event = NoEvent
      /\ \A k \in DOMAIN s \ {i} : q[k] = s[k]
      /\ Events(q) = Events(s) \ {s[i].event}
      BY <1>2, <1>3, <1>4, EmptiedGood
<1> HIDE DEF q
<1>8. /\ DOMAIN q = DOMAIN s /\ ListGood(q, posts) /\ Sorted(q, d.insertionOffset)
      /\ \A k \in Filled(q) : k \in Filled(s) /\ q[k] = s[k]
      BY <1>3, <1>4, <1>7, EmptiesGood
<1>9. q \in Seq(Entries) /\ Len(q) = Len(s) /\ Len(s) \in Nat
      BY <1>4, <1>7, LenProperties DEF Empties
<1>10. \A k \in DOMAIN s : q[k] = s[k] \/ q[k].event = NoEvent
      BY <1>2, <1>7
<1>11. DataGood(p, posts)
      <2>1. \A k \in DOMAIN q : k <= d.startOffset => q[k].event = NoEvent
            BY <1>3, <1>8, <1>10
      <2>2. QED BY <1>3, <1>5, <1>6, <1>8, <1>9, <2>1 DEF DataGood
<1>12. OtherList(d, p)
      BY <1>5, <1>6, <1>9 DEF OtherList
<1>13. RoundList(d, c, p)
      BY <1>5, <1>7, <1>8, <1>9, <1>10, <1>11, <1>12 DEF RoundList, i, s
<1>14. QED BY <1>2, <1>5, <1>7, <1>13 DEF p, i, s, Current

\* The round leaves the list as it is, and canWait may fall.
LEMMA SameRound ==
  ASSUME NEW d0, NEW s0, NEW d, NEW c, Walks(d0, s0, d, c), Goes(d, c),
         NEW p, OtherList(d, p), p.list = d.list,
         LET pe == Current(d, c)
         IN  pe.event # NoEvent =>
               /\ ~IsGlobal(c)
               /\ posts[pe.event].type = "ordinary" =>
                    /\ ~p.canWait
                    /\ c.receiver \notin {NoObject, pe.receiver} \/ c.type = "delete"
  PROVE  RoundList(d, c, p)
<1>1. DataGood(d, posts) /\ d \in DataRecords
      BY DEF Walks, DataGood
<1>2. DataGood(p, posts)
      BY <1>1 DEF DataGood, OtherList
<1>3. Len(d.list) <= Len(p.list)
      BY <1>1, DataFields
<1>4. QED BY <1>2, <1>3 DEF RoundList, Current, Filled

\* A deletion that has to wait is posted again.
Again(d, c) == [d EXCEPT !.list = addEvent([d.list EXCEPT ![Index(d, c) + 1] = Emptied(Current(d, c))],
                                           d.insertionOffset, Current(d, c))]

LEMMA PostedAgain ==
  ASSUME NEW d0, NEW s0, NEW d, NEW c, Walks(d0, s0, d, c), Goes(d, c),
         d0 \in DataRecords, d0.insertionOffset <= Len(d0.list),
         LET pe == Current(d, c)
         IN  pe.event # NoEvent /\ posts[pe.event].type = "delete"
  PROVE  RoundList(d, c, Again(d, c)) /\ Events(Again(d, c).list) = Events(d.list)
<1> DEFINE i == Index(d, c) + 1
           off == d.insertionOffset
           pe == Current(d, c)
           s == d.list
           r == [s EXCEPT ![i] = Emptied(pe)]
           q == addEvent(r, off, pe)
           p == [d EXCEPT !.list = q]
<1>1. /\ DataGood(d, posts) /\ d \in DataRecords /\ c \in CallRecords
      /\ WillCome(d, c, posts)
      BY DEF Walks, DataGood
<1> HIDE DEF pe, r, q, p
<1>2. off <= Len(s) /\ off \in Nat /\ s \in Seq(Entries)
      /\ Len(s) \in Nat /\ DOMAIN s = 1..Len(s)
      <2>1. /\ off \in Nat /\ s \in Seq(Entries)
            /\ Len(s) \in Nat /\ DOMAIN s = 1..Len(s)
            BY <1>1, DataFields
      <2>2. off = d0.insertionOffset /\ Len(d0.list) <= Len(s)
            BY DEF Walks
      <2>3. Len(d0.list) \in Nat
            BY DataFields
      <2>4. QED BY <2>1, <2>2, <2>3
<1>3. i \in DOMAIN s /\ i <= off /\ pe = s[i]
      BY <1>1, GoesTo DEF Current, pe
<1>4. ListGood(s, posts) /\ pe \in Entries /\ Agrees(pe, posts) /\ pe.event \in Events(s)
      <2>1. ListGood(s, posts)
            BY <1>1 DEF DataGood
      <2>2. pe \in Entries
            BY <1>2, <1>3, EntryFields
      <2>3. i \in Filled(s)
            BY <1>3 DEF Filled, pe
      <2>4. Agrees(s[i], posts) /\ s[i].event \in Events(s)
            BY <2>1, <2>3 DEF ListGood, Events
      <2>5. QED BY <1>3, <2>1, <2>2, <2>4
<1>5. /\ p.list = q /\ p.startOffset = d.startOffset
      /\ p.insertionOffset = off /\ p.canWait = d.canWait
      BY <1>1 DEF DataRecords, p
<1>6. q \in Seq(Entries) => p \in DataRecords
      BY <1>1 DEF DataRecords, p
<1>7. /\ Sorted(s, off) /\ d.startOffset <= Len(s) /\ d.startOffset <= off
      /\ d.startOffset \in Nat /\ \A k \in DOMAIN s : k <= d.startOffset => s[k].event = NoEvent
      BY <1>1, DataFields DEF DataGood
<1> HIDE DEF i, s, off, pe
<1>8. /\ Empties(s, r) /\ r[i].event = NoEvent
      /\ Events(r) = Events(s) \ {pe.event}
      <2>1. r = [s EXCEPT ![i] = Emptied(@)]
            BY <1>2, <1>3 DEF r
      <2>2. QED BY <1>2, <1>3, <1>4, <2>1, EmptiedGood
<1>9. r \in Seq(Entries) /\ Len(r) = Len(s)
      BY <1>8 DEF Empties
<1>10. /\ DOMAIN r = DOMAIN s /\ ListGood(r, posts) /\ Sorted(r, off)
       /\ \A k \in Filled(r) : k \in Filled(s) /\ r[k] = s[k]
       BY <1>2, <1>4, <1>7, <1>8, EmptiesGood
<1>11. \A k \in DOMAIN s : r[k] = s[k] \/ r[k].event = NoEvent
       BY <1>10 DEF Filled
<1>12. PICK j : Adds(r, q, off, pe, j)
       BY <1>2, <1>4, <1>9, <1>10, AddEventAdds DEF q
<1>13. /\ q \in Seq(Entries) /\ Len(q) = Len(s) + 1 /\ DOMAIN q = 1..(Len(s) + 1)
       /\ j \in 1..(Len(s) + 1) /\ \A k \in DOMAIN s : k <= off => k < j /\ q[k] = r[k]
       BY <1>2, <1>9, <1>10, <1>12, AddsKeeps
<1>14. /\ Inserted(r, q, j) /\ q[j] = pe /\ Sorted(q, off)
       BY <1>12 DEF Adds
<1>15. posts[pe.event].type = "delete" /\ pe.event # NoEvent
       BY DEF pe
<1>16. ListGood(q, posts) /\ Events(q) = Events(s)
       <2>1. pe.event \notin Events(r)
             BY <1>8
       <2>2. \A f \in Events(r) : ~SameRank(f, pe.event, posts)
             BY <1>15 DEF SameRank
       <2>3. ListGood(q, posts) /\ Events(q) = Events(r) \cup {pe.event}
             BY <1>2, <1>4, <1>9, <1>10, <1>12, <1>15, <2>1, <2>2, AddsGood
       <2>4. QED BY <1>4, <1>8, <2>3
<1>17. DataGood(p, posts)
       <2>1. ASSUME NEW k \in DOMAIN q, k <= d.startOffset PROVE q[k].event = NoEvent
             <3>1. k \in DOMAIN s /\ k <= off
                   BY <1>2, <1>7, <1>13, <2>1
             <3>2. QED BY <1>7, <1>11, <1>13, <2>1, <3>1
       <2>2. d.startOffset <= Len(q)
             BY <1>2, <1>7, <1>13
       <2>3. QED BY <1>5, <1>6, <1>7, <1>13, <1>14, <1>16, <2>1, <2>2 DEF DataGood
<1>18. OtherList(d, p)
       BY <1>5, <1>6, <1>13 DEF OtherList, off
<1>19. \A k \in DOMAIN s : k <= off => q[k] = s[k] \/ q[k].event = NoEvent
       BY <1>11, <1>13
<1>20. q[i].event = NoEvent
       BY <1>3, <1>8, <1>13
<1>21. ASSUME d.canWait, NEW k \in Filled(q), posts[q[k].event].type = "ordinary"
       PROVE  k \in Filled(s) /\ q[k] = s[k]
       <2>1. k # j /\ k \in DOMAIN q /\ q[k].event # NoEvent
             BY <1>14, <1>15, <1>21 DEF Filled
       <2> DEFINE n == Was(k, j)
       <2>2. n \in DOMAIN r /\ q[k] = r[n]
             BY <1>9, <1>13, <1>14, <2>1, InsertedFrom
       <2>3. n \in Filled(s) /\ r[n] = s[n]
             BY <1>10, <2>1, <2>2 DEF Filled
       <2>4. n <= off
             BY <1>1, <1>21, <2>2, <2>3 DEF WillCome, s, off
       <2>5. n < j
             BY <1>10, <1>13, <2>2, <2>4
       <2>6. k < j
             <3>1. k \in 1..(Len(s) + 1)
                   BY <1>13, <2>1
             <3>2. n = IF k < j THEN k ELSE k - 1
                   BY DEF Was
             <3> HIDE DEF n
             <3>3. QED BY <1>2, <1>13, <2>1, <2>5, <3>1, <3>2
       <2>7. n = k
             BY <2>6 DEF Was
       <2>8. QED BY <2>2, <2>3, <2>7
<1>22. Len(s) <= Len(q)
       BY <1>2, <1>13
<1>23. RoundList(d, c, p)
       <2>1. q[i].event # NoEvent /\ posts[q[i].event].type = "ordinary" => FALSE
             BY <1>20
       <2>2. QED BY <1>5, <1>17, <1>18, <1>19, <1>20, <1>21, <1>22, <2>1 DEF RoundList, i, s, off
<1>24. QED BY <1>5, <1>16, <1>23 DEF p, q, r, i, s, off, pe, Again

LEMMA PassedOverRound ==
  ASSUME posts \in Seq(PostRecords), NEW calls, NEW d0 \in DataRecords, NEW s0, NEW d, NEW c,
         Walks(d0, s0, d, c), Goes(d, c), ~Deliverable(calls, d, c),
         d0.insertionOffset <= Len(d0.list)
  PROVE  /\ RoundList(d, c, PassedOver(d, c))
         /\ Events(PassedOver(d, c).list) = Events(d.list)
<1> DEFINE pe == Current(d, c)
<1>1. d \in DataRecords /\ c \in CallRecords /\ DataGood(d, posts)
      BY DEF Walks, DataGood
<1>2. OtherList(d, d)
      BY <1>1 DEF OtherList
<1>3. CASE pe.event = NoEvent
      <2>1. PassedOver(d, c) = d
            BY <1>3 DEF PassedOver
      <2>2. RoundList(d, c, d)
            BY <1>2, <1>3, SameRound
      <2>3. QED BY <2>1, <2>2
<1>4. CASE pe.event # NoEvent /\ ~Asked(d, c)
      <2> DEFINE p == [d EXCEPT !.canWait = FALSE]
      <2>1. PassedOver(d, c) = p
            BY <1>4 DEF PassedOver
      <2>2. p \in DataRecords /\ OtherList(d, p) /\ p.list = d.list /\ ~p.canWait
            BY <1>1 DEF DataRecords, OtherList
      <2>3. ~IsGlobal(c)
            BY <1>4 DEF IsGlobal, Asked
      <2>4. posts[pe.event].type = "ordinary" =>
              c.receiver \notin {NoObject, pe.receiver} \/ c.type = "delete"
            BY <1>1, <1>4 DEF Asked, CallRecords
      <2> HIDE DEF p
      <2>5. RoundList(d, c, p)
            BY <2>2, <2>3, <2>4, SameRound
      <2>6. QED BY <2>1, <2>2, <2>5
<1>5. CASE pe.event # NoEvent /\ Asked(d, c)
      <2>1. posts[pe.event].type = "delete"
            <3>1. posts[pe.event].type # "delete" => Deliverable(calls, d, c)
                  BY <1>5 DEF Deliverable
            <3>2. QED BY <3>1
      <2>2. CASE ~IsGlobal(c)
            <3>1. PassedOver(d, c) = d
                  BY <1>5, <2>2 DEF PassedOver
            <3>2. RoundList(d, c, d)
                  BY <1>2, <2>1, <2>2, SameRound
            <3>3. QED BY <3>1, <3>2
      <2>3. CASE IsGlobal(c)
            <3> DEFINE p == Again(d, c)
            <3>1. PassedOver(d, c) = p
                  BY <1>5, <2>3 DEF PassedOver, Again
            <3>2. RoundList(d, c, p) /\ Events(p.list) = Events(d.list)
                  <4>1. pe.event # NoEvent /\ posts[pe.event].type = "delete"
                        BY <1>5, <2>1
                  <4>2. QED BY <4>1, PostedAgain
            <3> HIDE DEF p
            <3>3. QED BY <3>1, <3>2
      <2>4. QED BY <2>2, <2>3
<1>6. QED BY <1>3, <1>4, <1>5

Round(calls, w) ==
  IF ~Goes(w[1], w[2]) \/ Deliverable(calls, w[1], w[2]) THEN w
  ELSE <<CountedData(PassedOver(w[1], w[2]), w[2]), CountedCall(w[2])>>

Walk(calls, d, send) ==
  CHOOSE walk : walk = [n \in 0..Len(d.list) |->
    IF n = 0 THEN <<d, send>> ELSE Round(calls, walk[n - 1])]

\* The states the rounds can reach
Walkable(d0, s0) ==
  {w \in DataRecords \X CallRecords :
     Walks(d0, s0, w[1], w[2]) /\ Events(w[1].list) = Events(d0.list)}

LEMMA RoundWalks ==
  ASSUME posts \in Seq(PostRecords), NEW calls, NEW d0 \in DataRecords, NEW s0,
         d0.insertionOffset <= Len(d0.list), NEW w \in Walkable(d0, s0)
  PROVE  /\ Round(calls, w) \in Walkable(d0, s0)
         /\ Goes(w[1], w[2]) /\ ~Deliverable(calls, w[1], w[2]) =>
              LET v == Round(calls, w) IN Index(v[1], v[2]) = Index(w[1], w[2]) + 1
<1>1. CASE ~Goes(w[1], w[2]) \/ Deliverable(calls, w[1], w[2])
      BY <1>1 DEF Round
<1>2. CASE Goes(w[1], w[2]) /\ ~Deliverable(calls, w[1], w[2])
      <2> DEFINE d == w[1]
                 c == w[2]
                 p == PassedOver(d, c)
                 d2 == CountedData(p, c)
                 c2 == CountedCall(c)
                 v == Round(calls, w)
      <2>1. v = <<d2, c2>> /\ v[1] = d2 /\ v[2] = c2
            BY <1>2 DEF Round
      <2>2. Walks(d0, s0, d, c) /\ Events(d.list) = Events(d0.list)
            BY DEF Walkable
      <2>3. RoundList(d, c, p) /\ Events(p.list) = Events(d.list)
            BY <1>2, <2>2, PassedOverRound
      <2> HIDE DEF p, d, c, v
      <2>4. Goes(d, c)
            BY <1>2 DEF d, c
      <2>5. Walks(d0, s0, d2, c2) /\ Index(d2, c2) = Index(d, c) + 1
            BY <2>2, <2>3, <2>4, CountedWalks
      <2>6. d2.list = p.list
            <3>1. p \in DataRecords
                  BY <2>3 DEF RoundList, OtherList
            <3>2. QED BY <3>1 DEF CountedData, DataRecords
      <2>7. d2 \in DataRecords /\ c2 \in CallRecords
            BY <2>5 DEF Walks, DataGood
      <2> HIDE DEF d2, c2
      <2>8. v \in Walkable(d0, s0)
            BY <2>1, <2>2, <2>3, <2>5, <2>6, <2>7 DEF Walkable
      <2>9. QED BY <2>1, <2>5, <2>8 DEF v, d, c
<1>3. QED BY <1>1, <1>2

\* It goes from round to round.
GoesRound(f, calls, d0, s0) ==
  /\ f \in [0..Len(d0.list) -> Walkable(d0, s0)] /\ f[0] = <<d0, s0>>
  /\ \A n \in 1..Len(d0.list) : f[n] = Round(calls, f[n - 1])

LEMMA WalkRounds ==
  ASSUME posts \in Seq(PostRecords), NEW calls, NEW d0 \in DataRecords, NEW s0,
         d0.insertionOffset <= Len(d0.list), <<d0, s0>> \in Walkable(d0, s0)
  PROVE  LET f == Walk(calls, d0, s0)
         IN  Walked(calls, d0, s0) = f[Len(d0.list)] /\ GoesRound(f, calls, d0, s0)
<1> DEFINE N == Len(d0.list)
           X == Walkable(d0, s0)
           base == <<d0, s0>>
           R(w) == Round(calls, w)
           G == [x \in X \X (1..N) |-> R(x[1])]
           F == Walk(calls, d0, s0)
<1>1. N \in Nat
      BY DataFields
<1>2. Walked(calls, d0, s0) = F[N]
      BY DEF Walked, Walk, Round
<1>3. F = CHOOSE f : f = [n \in 0..N |-> IF n = 0 THEN base ELSE R(f[n - 1])]
      BY DEF Walk
<1>4. \A w \in X : R(w) \in X
      BY RoundWalks
<1>5. base \in X
      OBVIOUS
<1> HIDE DEF R, X, base, N, F
<1>6. G \in [X \X (1..N) -> X]
      BY <1>4
<1>7. PICK f : Runs(f, X, base, N, G)
      <2> HIDE DEF G
      <2>1. Rounds(X, base, N, G)
            BY <1>1, <1>5, <1>6 DEF Rounds
      <2>2. QED BY <2>1, Recursion
<1>8. f \in [0..N -> X] /\ f[0] = base
      BY <1>7 DEF Runs
<1>9. ASSUME NEW n \in 1..N PROVE f[n] = R(f[n - 1]) /\ n # 0
      <2>1. n # 0 /\ n - 1 \in 0..N
            BY <1>1
      <2>2. <<f[n - 1], n>> \in X \X (1..N)
            BY <1>8, <2>1
      <2>3. f[n] = G[<<f[n - 1], n>>]
            BY <1>7 DEF Runs
      <2>4. QED BY <2>1, <2>2, <2>3
<1> DEFINE Step(h, n) == IF n = 0 THEN base ELSE R(h[n - 1])
<1>10. \A n \in 0..N : f[n] = Step(f, n)
       <2>1. \A n \in 0..N : n = 0 \/ n \in 1..N
             BY <1>1
       <2>2. QED BY <1>8, <1>9, <2>1
<1> HIDE DEF Step
<1>11. f = [n \in 0..N |-> Step(f, n)]
       <2>1. f = [n \in 0..N |-> f[n]]
             BY <1>8
       <2>2. QED BY <1>10, <2>1
<1>12. F = CHOOSE h : h = [n \in 0..N |-> Step(h, n)]
       BY <1>3 DEF Step
<1>13. F = [n \in 0..N |-> Step(F, n)]
       BY <1>11, <1>12
<1>14. \A n \in 0..N : F[n] = Step(F, n)
       BY <1>13
<1>15. F[0] = base /\ \A n \in 1..N : F[n] = R(F[n - 1])
       <2>1. 0 \in 0..N /\ \A n \in 1..N : n \in 0..N /\ n # 0
             BY <1>1
       <2>2. QED BY <1>14, <2>1 DEF Step
<1>16. \A n \in Nat : n \in {k \in Nat : k <= N => F[k] \in X}
       <2> DEFINE A == {k \in Nat : k <= N => F[k] \in X}
       <2>1. 0 \in A
             BY <1>5, <1>15
       <2>2. ASSUME NEW k \in Nat, k \in A PROVE k + 1 \in A
             <3>1. k + 1 <= N => k + 1 \in 1..N /\ k + 1 - 1 = k /\ k <= N
                   BY <1>1
             <3>2. QED BY <1>4, <1>15, <2>2, <3>1
       <2> HIDE DEF A
       <2>3. \A n \in Nat : n \in A
             BY <2>1, <2>2, AllNumbers
       <2>4. QED BY <2>3 DEF A
<1>17. F \in [0..N -> X]
       <2>1. \A n \in 0..N : n \in Nat /\ n <= N
             BY <1>1
       <2>2. F = [n \in 0..N |-> F[n]]
             BY <1>13
       <2>3. QED BY <1>16, <2>1, <2>2
<1>18. QED BY <1>2, <1>15, <1>17 DEF F, N, X, base, R, GoesRound

\* The rounds come to an event that is to be delivered, or to the end.
LEMMA WalkedWalks ==
  ASSUME posts \in Seq(PostRecords), NEW calls, NEW d0 \in DataRecords, NEW s0,
         d0.insertionOffset <= Len(d0.list), Walks(d0, s0, d0, s0)
  PROVE  LET w == Walked(calls, d0, s0)
         IN  /\ Walks(d0, s0, w[1], w[2]) /\ Events(w[1].list) = Events(d0.list)
             /\ Goes(w[1], w[2]) => Deliverable(calls, w[1], w[2])
<1> DEFINE N == Len(d0.list)
           X == Walkable(d0, s0)
           f == Walk(calls, d0, s0)
           Stopped(w) == ~Goes(w[1], w[2]) \/ Deliverable(calls, w[1], w[2])
           At(w) == Index(w[1], w[2])
           A == {k \in Nat : k <= N => Stopped(f[k]) \/ At(f[k]) >= k}
<1>1. N \in Nat /\ d0.insertionOffset \in Nat
      BY DataFields
<1>2. <<d0, s0>> \in X
      <2>1. s0 \in CallRecords
            BY DEF Walks
      <2>2. QED BY <2>1 DEF Walkable
<1>3. /\ Walked(calls, d0, s0) = f[N] /\ f \in [0..N -> X] /\ f[0] = <<d0, s0>>
      /\ \A n \in 1..N : f[n] = Round(calls, f[n - 1])
      <2>1. <<d0, s0>> \in Walkable(d0, s0)
            BY <1>2
      <2>2. Walked(calls, d0, s0) = f[N] /\ GoesRound(f, calls, d0, s0)
            BY <2>1, WalkRounds
      <2>3. QED BY <2>2 DEF GoesRound
<1>4. \A w \in X : /\ Stopped(w) => Round(calls, w) = w
                   /\ ~Stopped(w) => At(Round(calls, w)) = At(w) + 1
                   /\ At(w) \in Nat
      <2>1. ASSUME NEW w \in X PROVE ~Stopped(w) => At(Round(calls, w)) = At(w) + 1
            BY RoundWalks
      <2>2. ASSUME NEW w \in X PROVE At(w) \in Nat
            <3>1. w[1] \in DataRecords /\ w[2] \in CallRecords
                  BY DEF Walkable
            <3>2. QED BY <3>1, DataFields DEF Index, CallRecords
      <2>3. \A w \in X : Stopped(w) => Round(calls, w) = w
            BY DEF Round
      <2>4. QED BY <2>1, <2>2, <2>3
<1>5. \A w \in X : Walks(d0, s0, w[1], w[2]) /\ Events(w[1].list) = Events(d0.list)
      BY DEF Walkable
<1>6. \A w \in X : At(w) >= N => Stopped(w)
      <2>1. ASSUME NEW w \in X, At(w) >= N PROVE ~Goes(w[1], w[2])
            <3>1. w[1].insertionOffset = d0.insertionOffset
                  BY <1>5 DEF Walks
            <3>2. Goes(w[1], w[2]) => At(w) < d0.insertionOffset
                  BY <3>1 DEF Goes
            <3>3. At(w) \in Nat
                  BY <1>4
            <3> HIDE DEF At, N
            <3>4. ~(At(w) < d0.insertionOffset)
                  BY <1>1, <2>1, <3>3 DEF N
            <3>5. QED BY <3>2, <3>4
      <2>2. QED BY <2>1
<1> HIDE DEF f, X, N, Stopped, At
<1>7. 0 \in A
      BY <1>1, <1>3, <1>4
<1>8. ASSUME NEW k \in Nat, k \in A PROVE k + 1 \in A
      <2> SUFFICES ASSUME k + 1 <= N PROVE Stopped(f[k + 1]) \/ At(f[k + 1]) >= k + 1
          OBVIOUS
      <2>1. k + 1 \in 1..N /\ k + 1 - 1 = k /\ k <= N /\ k \in 0..N
            BY <1>1
      <2>2. f[k + 1] = Round(calls, f[k]) /\ f[k] \in X
            BY <1>3, <2>1
      <2>3. Stopped(f[k]) \/ At(f[k]) >= k
            BY <1>8, <2>1
      <2>4. CASE Stopped(f[k])
            BY <1>4, <2>2, <2>4
      <2>5. CASE ~Stopped(f[k]) /\ At(f[k]) >= k
            <3>1. At(f[k + 1]) = At(f[k]) + 1 /\ At(f[k]) \in Nat
                  BY <1>4, <2>2, <2>5
            <3>2. QED BY <2>5, <3>1
      <2>6. QED BY <2>3, <2>4, <2>5
<1> HIDE DEF A
<1>9. N \in A
      BY <1>1, <1>7, <1>8, AllNumbers
<1>10. f[N] \in X
       BY <1>1, <1>3
<1>11. Stopped(f[N])
       BY <1>1, <1>6, <1>9, <1>10 DEF A
<1>12. QED BY <1>3, <1>5, <1>10, <1>11 DEF Stopped

-----------------------------------------------------------------------------
(* A call goes on *)

\* The call send, below which are these calls, can begin its rounds or go on with them.
Ready(d, calls, send) ==
  /\ DataGood(d, posts) /\ calls \in Seq(CallRecords) /\ Nested(calls, posts)
  /\ \A k \in DOMAIN calls : HasPassed(d, calls[k], posts)
  /\ send \in CallRecords /\ IsSend(send) /\ send.event = NoEvent
  /\ HasPassed(d, send, posts) /\ WillCome(d, send, posts)
  /\ d.startOffset # 0 =>
       \/ IsGlobal(send)
       \/ \E k \in DOMAIN calls : IsSend(calls[k]) /\ IsGlobal(calls[k])
  /\ d.insertionOffset <= Len(d.list)

LEMMA ReadyWalks ==
  ASSUME NEW d, NEW calls, NEW send, Ready(d, calls, send)
  PROVE  Walks(d, send, d, send) /\ d \in DataRecords
<1>1. d \in DataRecords
      BY DEF Ready, DataGood
<1>2. Len(d.list) <= Len(d.list)
      BY <1>1, DataFields
<1>3. QED BY <1>1, <1>2 DEF Ready, Walks

LEMMA WalksKeeps ==
  ASSUME NEW d0, NEW s0, NEW d, NEW c, Walks(d0, s0, d, c), d0 \in DataRecords,
         NEW call \in CallRecords, HasPassed(d0, call, posts),
         d0.insertionOffset <= Len(d0.list)
  PROVE  HasPassed(d, call, posts)
<1> SUFFICES ASSUME IsSend(call), ~IsGlobal(call), ~call.cut
             PROVE  HasPassed(d, call, posts)
    BY DEF HasPassed
<1> DEFINE off == d0.insertionOffset
           s == d0.list
           q == d.list
<1>1. /\ call.next <= off
      /\ \A k \in Filled(s) : k <= call.next /\ posts[s[k].event].type = "ordinary" =>
           call.receiver \notin {NoObject, s[k].receiver} \/ call.type = "delete"
      BY DEF HasPassed
<1>2. call.next \in Nat /\ off \in Nat /\ Len(s) \in Nat /\ DOMAIN s = 1..Len(s)
      BY DataFields DEF CallRecords
<1>3. /\ d.insertionOffset = off /\ \A k \in DOMAIN s : k <= off => q[k] = s[k] \/ q[k].event = NoEvent
      /\ DOMAIN q = 1..Len(q) /\ Len(q) \in Nat
      <2>1. d \in DataRecords
            BY DEF Walks, DataGood
      <2>2. QED BY <2>1, DataFields DEF Walks
<1> HIDE DEF off, s, q
<1>4. off <= Len(s)
      BY DEF off, s
<1>5. ASSUME NEW k \in Filled(q), k <= call.next PROVE k \in Filled(s) /\ q[k] = s[k]
      <2>1. k \in 1..Len(q) /\ q[k].event # NoEvent
            BY <1>3 DEF Filled
      <2>2. k \in DOMAIN s /\ k <= off
            <3> DEFINE m == call.next
            <3>1. m \in Nat /\ m <= off /\ k <= m
                  BY <1>1, <1>2, <1>5
            <3> HIDE DEF m
            <3>2. QED BY <1>2, <1>3, <1>4, <2>1, <3>1
      <2>3. QED BY <1>3, <2>1, <2>2 DEF Filled
<1>6. QED BY <1>1, <1>3, <1>5 DEF HasPassed, q

LEMMA CalledMore ==
  ASSUME NEW calls \in Seq(CallRecords), NEW c \in CallRecords, NEW h \in CallRecords
  PROVE  LET more == calls \o <<c, h>>
             n == Len(calls)
         IN  /\ n \in Nat /\ more \in Seq(CallRecords) /\ Len(more) = n + 2
             /\ DOMAIN more = 1..(n + 2) /\ DOMAIN calls = 1..n
             /\ \A k \in 1..n : more[k] = calls[k]
             /\ more[n + 1] = c /\ more[n + 2] = h
             /\ Last(more) = h /\ more # <<>>
<1> DEFINE two == <<c, h>>
           more == calls \o two
           n == Len(calls)
<1>1. two \in Seq(CallRecords) /\ Len(two) = 2 /\ two[1] = c /\ two[2] = h
      OBVIOUS
<1> HIDE DEF two
<1>2. n \in Nat /\ DOMAIN calls = 1..n
      BY LenProperties
<1>3. /\ more \in Seq(CallRecords) /\ Len(more) = n + 2
      /\ \A k \in 1..(n + 2) : more[k] = IF k <= n THEN calls[k] ELSE two[k - n]
      <2>1. more \in Seq(CallRecords) /\ Len(more) = Len(calls) + Len(two)
            BY <1>1, ConcatProperties
      <2>2. \A k \in 1..(Len(calls) + Len(two)) :
              more[k] = IF k <= Len(calls) THEN calls[k] ELSE two[k - Len(calls)]
            BY <1>1, ConcatProperties
      <2>3. QED BY <1>1, <2>1, <2>2
<1> HIDE DEF more
<1>4. DOMAIN more = 1..(n + 2)
      BY <1>3, LenProperties
<1> HIDE DEF n
<1>5. \A k \in 1..n : more[k] = calls[k]
      BY <1>2, <1>3
<1>6. more[n + 1] = c /\ more[n + 2] = h
      <2>1. ~(n + 1 <= n) /\ n + 1 - n = 1 /\ ~(n + 2 <= n) /\ n + 2 - n = 2
            BY <1>2
      <2>2. n + 1 \in 1..(n + 2) /\ n + 2 \in 1..(n + 2)
            BY <1>2
      <2>3. ASSUME NEW k \in 1..(n + 2), NEW j, ~(k <= n), k - n = j PROVE more[k] = two[j]
            BY <1>3, <2>3
      <2>4. ASSUME NEW k, k = n + 1 PROVE more[k] = c
            <3>1. k \in 1..(n + 2) /\ ~(k <= n) /\ k - n = 1
                  BY <1>2, <2>4
            <3>2. QED BY <1>1, <2>3, <3>1
      <2>5. ASSUME NEW k, k = n + 2 PROVE more[k] = h
            <3>1. k \in 1..(n + 2) /\ ~(k <= n) /\ k - n = 2
                  BY <1>2, <2>5
            <3>2. QED BY <1>1, <2>3, <3>1
      <2>6. QED BY <2>4, <2>5
<1>7. Last(more) = h /\ more # <<>>
      <2>1. Last(more) = more[n + 2]
            BY <1>3 DEF Last
      <2>2. more # <<>>
            BY <1>2, <1>3
      <2>3. QED BY <1>6, <2>1, <2>2
<1>8. QED BY <1>2, <1>3, <1>4, <1>5, <1>6, <1>7 DEF more, two, n

\* The handler of e is called by c.
Called(calls, c, e) == calls \o <<CountedCall(c), HandlerCall(e)>>

\* The next handler begins.
LEMMA DeliveringThread ==
  ASSUME posts \in Seq(PostRecords), NEW d0, NEW calls, NEW s0, Ready(d0, calls, s0),
         NEW d, NEW c, Walks(d0, s0, d, c), Events(d.list) = Events(d0.list), Goes(d, c),
         Current(d, c).event # NoEvent
  PROVE  LET e == Current(d, c).event
             d2 == Delivering(d, c)
         IN  /\ e \in Events(d0.list) /\ e \in DOMAIN posts
             /\ Events(d2.list) = Events(d0.list) \ {e}
             /\ ThreadGood(d2, Called(calls, c, e), posts)
<1> DEFINE e == Current(d, c).event
           i == Index(d, c) + 1
           p == EmptiedAt(d, i)
           d2 == Delivering(d, c)
           c2 == CountedCall(c)
           h == HandlerCall(e)
           more == calls \o <<c2, h>>
           n == Len(calls)
<1>1. /\ d0 \in DataRecords /\ calls \in Seq(CallRecords) /\ Nested(calls, posts)
      /\ s0.event = NoEvent /\ d0.insertionOffset <= Len(d0.list)
      /\ d0.startOffset # 0 =>
           \/ IsGlobal(s0)
           \/ \E k \in DOMAIN calls : IsSend(calls[k]) /\ IsGlobal(calls[k])
      BY DEF Ready, DataGood
<1>2. d2 = CountedData(p, c)
      BY DEF Delivering, EmptiedAt
<1>3. /\ i \in DOMAIN d.list /\ RoundList(d, c, p)
      /\ Events(p.list) = Events(d.list) \ {e}
      BY EmptiedRound
<1>4. e \in Events(d.list) /\ e \in DOMAIN posts /\ e \in Nat
      <2>1. i \in Filled(d.list) /\ e = d.list[i].event
            BY <1>3 DEF Filled, Current
      <2>2. ListGood(d.list, posts)
            BY DEF Walks, DataGood
      <2>3. e \in Events(d.list) /\ e \in DOMAIN posts
            BY <2>1, <2>2 DEF ListGood, Agrees, Events
      <2>4. DOMAIN posts = 1..Len(posts) /\ Len(posts) \in Nat
            BY LenProperties
      <2>5. QED BY <2>3, <2>4
<1> HIDE DEF p
<1>5. Walks(d0, s0, d2, c2)
      BY <1>1, <1>2, <1>3, CountedWalks
<1>6. d2.list = p.list
      <2>1. p \in DataRecords
            BY <1>3 DEF RoundList, OtherList
      <2>2. QED BY <1>2, <2>1 DEF CountedData, DataRecords
<1> HIDE DEF d2, c2, e, i
<1>7. /\ h \in CallRecords /\ h.call = "handler" /\ h.event = e
      <2> DEFINE r == Call("handler")
      <2>1. r \in CallRecords /\ r.call = "handler"
            BY DEF Call, CallRecords, NoEvent
      <2> HIDE DEF r
      <2>2. h = [r EXCEPT !.event = e]
            BY DEF HandlerCall, r
      <2> HIDE DEF h
      <2>3. QED BY <1>4, <2>1, <2>2 DEF CallRecords
<1> HIDE DEF h
<1>8. /\ DataGood(d2, posts) /\ d2.insertionOffset = d0.insertionOffset
      /\ Len(d0.list) <= Len(d2.list) /\ (~IsGlobal(s0) => d2.startOffset = d0.startOffset)
      /\ c2 \in CallRecords /\ IsSend(c2) /\ c2.event = NoEvent
      /\ (IsGlobal(c2) <=> IsGlobal(s0))
      /\ HasPassed(d2, c2, posts) /\ WillCome(d2, c2, posts)
      BY <1>1, <1>5 DEF Walks, IsGlobal
<1>9. /\ n \in Nat /\ more \in Seq(CallRecords) /\ Len(more) = n + 2
      /\ DOMAIN more = 1..(n + 2) /\ DOMAIN calls = 1..n
      /\ \A k \in 1..n : more[k] = calls[k]
      /\ more[n + 1] = c2 /\ more[n + 2] = h
      /\ Last(more) = h /\ more # <<>>
      BY <1>1, <1>7, <1>8, CalledMore
<1> HIDE DEF more, n
<1>10. ASSUME NEW k \in DOMAIN more PROVE k \in 1..n \/ k = n + 1 \/ k = n + 2
       BY <1>9
<1>11. Nested(more, posts)
       <2>1. \A k \in 1..n :
               /\ calls[k].call = "handler" <=> k > 1 /\ calls[k - 1].call = "send"
               /\ calls[k].call = "send" => k < n
               /\ calls[k].call \in {"loop", "polled"} => k = 1 \/ calls[k - 1].call = "handler"
               /\ calls[k].call = "handler" => calls[k].event \in DOMAIN posts
               /\ calls[k].call # "handler" => calls[k].event = NoEvent
             BY <1>1, <1>9 DEF Nested, n
       <2>2. ASSUME NEW k \in 1..n PROVE more[k] = calls[k] /\ (k > 1 => more[k - 1] = calls[k - 1])
                                         /\ k < n + 2
             <3>1. k > 1 => k - 1 \in 1..n
                   BY <1>9
             <3>2. QED BY <1>9, <3>1
       <2>3. ~(n + 1 > 1 /\ more[n + 1 - 1].call = "send")
             <3>1. CASE n = 0
                   BY <3>1
             <3>2. CASE n # 0
                   <4>1. n \in 1..n /\ n + 1 - 1 = n /\ ~(n < n)
                         BY <1>9, <3>2
                   <4>2. QED BY <1>9, <2>1, <4>1
             <3>3. QED BY <3>1, <3>2
       <2>4. c2.call = "send" /\ n + 1 < n + 2 /\ n + 2 > 1 /\ n + 2 - 1 = n + 1
             BY <1>8, <1>9 DEF IsSend
       <2>5. ASSUME NEW k \in DOMAIN more
             PROVE /\ more[k].call = "handler" <=> k > 1 /\ more[k - 1].call = "send"
                   /\ more[k].call = "send" => k < n + 2
                   /\ more[k].call \in {"loop", "polled"} => k = 1 \/ more[k - 1].call = "handler"
                   /\ more[k].call = "handler" => more[k].event \in DOMAIN posts
                   /\ more[k].call # "handler" => more[k].event = NoEvent
             <3>1. CASE k \in 1..n
                   BY <2>1, <2>2, <3>1
             <3>2. CASE k = n + 1
                   BY <1>8, <1>9, <2>3, <2>4, <3>2
             <3>3. CASE k = n + 2
                   BY <1>4, <1>7, <1>9, <2>4, <3>3
             <3>4. QED BY <1>10, <3>1, <3>2, <3>3
       <2>6. QED BY <1>9, <2>5 DEF Nested
<1>12. Offsets(d2, more)
       <2>1. d2.insertionOffset <= Len(d2.list)
             <3>1. /\ d2.insertionOffset \in Nat /\ Len(d0.list) \in Nat /\ Len(d2.list) \in Nat
                   BY <1>1, <1>8, DataFields DEF DataGood
             <3>2. QED BY <1>1, <1>8, <3>1
       <2>2. n + 1 \in DOMAIN more /\ \A k \in DOMAIN calls : k \in DOMAIN more
             BY <1>9
       <2>3. IsGlobal(s0) => \E k \in DOMAIN more : IsSend(more[k]) /\ IsGlobal(more[k])
             BY <1>8, <1>9, <2>2
       <2>4. ~IsGlobal(s0) /\ d2.startOffset # 0 =>
               \E k \in DOMAIN more : IsSend(more[k]) /\ IsGlobal(more[k])
             BY <1>1, <1>8, <1>9, <2>2
       <2>5. QED BY <2>1, <2>3, <2>4 DEF Offsets
<1>13. ASSUME NEW k \in DOMAIN more PROVE HasPassed(d2, more[k], posts)
       <2>1. CASE k \in 1..n
             <3>1. more[k] = calls[k] /\ k \in DOMAIN calls
                   BY <1>9, <2>1
             <3>2. calls[k] \in CallRecords /\ HasPassed(d0, calls[k], posts)
                   BY <1>1, <3>1, CallFields DEF Ready
             <3>3. QED BY <1>1, <1>5, <3>1, <3>2, WalksKeeps
       <2>2. CASE k = n + 1
             BY <1>8, <1>9, <2>2
       <2>3. CASE k = n + 2
             BY <1>7, <1>9, <2>3 DEF HasPassed, IsSend
       <2>4. QED BY <1>10, <2>1, <2>2, <2>3
<1>14. Remembered(d2, more, posts)
       <2>1. Innermost(more) = n + 1
             <3>1. Innermost(more) = n + 2 - 1
                   BY <1>7, <1>9 DEF Innermost
             <3>2. QED BY <1>9, <3>1
       <2>2. ~(n + 1 < 1)
             BY <1>9
       <2>3. QED BY <1>8, <1>9, <2>1, <2>2 DEF Remembered
<1>15. ThreadGood(d2, more, posts)
       BY <1>8, <1>9, <1>11, <1>12, <1>13, <1>14 DEF ThreadGood
<1>16. QED BY <1>3, <1>4, <1>6, <1>15 DEF d2, c2, e, h, more, Called

LEMMA AfterCallFields ==
  ASSUME NEW calls \in Seq(CallRecords), NEW send
  PROVE  LET after == AfterCall(calls, send)
         IN  /\ after \in Seq(CallRecords) /\ Len(after) = Len(calls)
             /\ DOMAIN after = DOMAIN calls
             /\ \A k \in DOMAIN calls :
                  /\ after[k].call = calls[k].call /\ after[k].event = calls[k].event
                  /\ after[k].receiver = calls[k].receiver /\ after[k].type = calls[k].type
                  /\ after[k].next = calls[k].next
                  /\ after[k].cut = (calls[k].cut \/ (IsGlobal(send) /\ IsSend(calls[k])))
<1> DEFINE after == AfterCall(calls, send)
           cut(c) == c.cut \/ (IsGlobal(send) /\ c.call = "send")
<1>1. /\ Len(calls) \in Nat /\ DOMAIN calls = 1..Len(calls)
      /\ \A k \in DOMAIN calls : calls[k] \in CallRecords
      BY CallFields
<1>2. \A c \in CallRecords : cut(c) \in BOOLEAN
      BY DEF CallRecords
<1>3. \A k \in DOMAIN calls : after[k] = [calls[k] EXCEPT !.cut = cut(calls[k])]
      BY DEF AfterCall
<1>4. DOMAIN after = DOMAIN calls
      BY DEF AfterCall
<1> HIDE DEF after, cut
<1>5. ASSUME NEW c \in CallRecords
      PROVE  LET a == [c EXCEPT !.cut = cut(c)]
             IN  /\ a \in CallRecords /\ a.call = c.call /\ a.event = c.event
                 /\ a.receiver = c.receiver /\ a.type = c.type /\ a.next = c.next
                 /\ a.cut = cut(c)
      BY <1>2 DEF CallRecords
<1>6. \A k \in DOMAIN calls : after[k] \in CallRecords
      BY <1>1, <1>3, <1>5
<1>7. after \in Seq(CallRecords) /\ Len(after) = Len(calls)
      <2>1. after = [k \in 1..Len(calls) |-> after[k]]
            BY <1>1 DEF after, AfterCall
      <2>2. after \in [1..Len(calls) -> CallRecords]
            BY <1>1, <1>6, <2>1
      <2>3. QED BY <1>1, <2>2, LenProperties, SeqDef
<1>8. \A k \in DOMAIN calls :
        /\ after[k].call = calls[k].call /\ after[k].event = calls[k].event
        /\ after[k].receiver = calls[k].receiver /\ after[k].type = calls[k].type
        /\ after[k].next = calls[k].next /\ after[k].cut = cut(calls[k])
      BY <1>1, <1>3, <1>5
<1>9. QED BY <1>4, <1>7, <1>8 DEF after, cut, IsSend

\* What a global call has been through is removed: all of it is empty.
LEMMA CutGood ==
  ASSUME NEW d, DataGood(d, posts)
  PROVE  LET q == SubSeq(d.list, d.startOffset + 1, Len(d.list))
         IN  /\ q \in Seq(Entries) /\ Len(q) = Len(d.list) - d.startOffset
             /\ ListGood(q, posts) /\ Sorted(q, d.insertionOffset - d.startOffset)
             /\ Events(q) = Events(d.list)
<1> DEFINE s == d.list
           b == d.startOffset
           q == SubSeq(s, b + 1, Len(s))
           g == [k \in DOMAIN q |-> k + b]
<1>1. /\ d \in DataRecords /\ ListGood(s, posts) /\ Sorted(s, d.insertionOffset)
      /\ b <= Len(s) /\ b <= d.insertionOffset
      /\ \A k \in DOMAIN s : k <= b => s[k].event = NoEvent
      BY DEF DataGood
<1>2. /\ s \in Seq(Entries) /\ b \in Nat /\ d.insertionOffset \in Nat
      /\ Len(s) \in Nat /\ DOMAIN s = 1..Len(s)
      BY <1>1, DataFields
<1> HIDE DEF s, b, q
<1>3. /\ q \in Seq(Entries) /\ Len(q) = Len(s) - b
      /\ \A k \in 1..(Len(s) - b) : q[k] = s[k + b]
      <2>1. b + 1 \in 1..(Len(s) + 1) /\ Len(s) \in b..Len(s)
            BY <1>1, <1>2
      <2>2. /\ q \in Seq(Entries) /\ Len(q) = Len(s) - (b + 1) + 1
            /\ \A k \in 1..(Len(s) - (b + 1) + 1) : q[k] = s[b + 1 + k - 1]
            <3>1. b + 1 \in Int /\ Len(s) \in Int /\ \A k \in (b + 1)..Len(s) : s[k] \in Entries
                  BY <1>2, EntryFields
            <3>2. /\ q \in Seq(Entries)
                  /\ Len(q) = IF b + 1 <= Len(s) THEN Len(s) - (b + 1) + 1 ELSE 0
                  /\ \A k \in 1..(Len(s) - (b + 1) + 1) : q[k] = s[b + 1 + k - 1]
                  BY <3>1, SubSeqProperties DEF q
            <3>3. ~(b + 1 <= Len(s)) => Len(s) - (b + 1) + 1 = 0
                  <4> DEFINE n == Len(s)
                  <4>1. n \in Nat /\ b \in Nat /\ b <= n
                        BY <1>1, <1>2
                  <4> HIDE DEF n
                  <4>2. ASSUME ~(b + 1 <= n) PROVE b = n
                        BY <4>1, <4>2
                  <4>3. b = n => n - (b + 1) + 1 = 0
                        BY <4>1
                  <4>4. QED BY <4>2, <4>3 DEF n
            <3>4. QED BY <3>2, <3>3
      <2>3. Len(s) - (b + 1) + 1 = Len(s) - b
            BY <1>2
      <2>4. \A k \in 1..(Len(s) - b) : b + 1 + k - 1 = k + b
            BY <1>2
      <2>5. QED BY <2>2, <2>3, <2>4
<1>4. DOMAIN q = 1..(Len(s) - b)
      BY <1>3, LenProperties
<1>5. Thins(g, s, q)
      <2>1. \A k \in DOMAIN q : k + b \in DOMAIN s /\ q[k] = s[k + b]
            BY <1>2, <1>3, <1>4
      <2>2. g \in [DOMAIN q -> DOMAIN s] /\ \A k \in DOMAIN q : g[k] = k + b
            BY <2>1
      <2> HIDE DEF g
      <2>3. \A i, j \in DOMAIN q : i < j => g[i] < g[j]
            BY <1>2, <1>4, <2>2
      <2>4. QED BY <1>3, <2>1, <2>2, <2>3 DEF Thins
<1>6. ListGood(q, posts) /\ Events(q) \subseteq Events(s)
      BY <1>1, <1>2, <1>5, ThinsGood
<1>7. Sorted(q, d.insertionOffset - b)
      <2> DEFINE off == d.insertionOffset
      <2>1. \A k \in DOMAIN q : g[k] = k + b /\ k \in Int
            BY <1>2, <1>4
      <2> HIDE DEF off, g
      <2>2. \A k \in DOMAIN q : off - b < k => off < g[k]
            BY <1>2, <2>1 DEF off
      <2>3. QED BY <1>1, <1>2, <1>5, <2>2, ThinsSorted DEF off
<1>8. Events(s) \subseteq Events(q)
      <2>1. ASSUME NEW k \in Filled(s) PROVE s[k].event \in Events(q)
            <3>1. k \in 1..Len(s) /\ ~(k <= b)
                  BY <1>1, <1>2 DEF Filled
            <3> DEFINE n == k - b
            <3>2. n \in DOMAIN q /\ n + b = k
                  BY <1>2, <1>4, <3>1
            <3> HIDE DEF n
            <3>3. q[n] = s[k]
                  BY <1>3, <1>4, <3>2
            <3>4. n \in Filled(q)
                  BY <3>2, <3>3 DEF Filled
            <3>5. QED BY <3>3, <3>4 DEF Events
      <2>2. QED BY <2>1 DEF Events
<1>9. QED BY <1>3, <1>6, <1>7, <1>8 DEF q, s, b

\* The call ends.
LEMMA EndingThread ==
  ASSUME posts \in Seq(PostRecords), NEW d0, NEW calls, NEW s0, Ready(d0, calls, s0),
         NEW d, NEW c, Walks(d0, s0, d, c), Events(d.list) = Events(d0.list), ~Goes(d, c)
  PROVE  LET d2 == CleanedUp(d, c)
         IN  /\ Events(d2.list) = Events(d0.list)
             /\ ThreadGood(d2, AfterCall(calls, s0), posts)
<1> DEFINE d2 == CleanedUp(d, c)
           after == AfterCall(calls, s0)
<1>1. /\ d0 \in DataRecords /\ calls \in Seq(CallRecords) /\ Nested(calls, posts)
      /\ d0.insertionOffset <= Len(d0.list)
      /\ \A k \in DOMAIN calls : HasPassed(d0, calls[k], posts)
      /\ d0.startOffset # 0 =>
           \/ IsGlobal(s0)
           \/ \E k \in DOMAIN calls : IsSend(calls[k]) /\ IsGlobal(calls[k])
      BY DEF Ready, DataGood
<1>2. /\ DataGood(d, posts) /\ d.insertionOffset = d0.insertionOffset
      /\ Len(d0.list) <= Len(d.list) /\ (~IsGlobal(s0) => d.startOffset = d0.startOffset)
      /\ c \in CallRecords /\ (IsGlobal(c) <=> IsGlobal(s0)) /\ WillCome(d, c, posts)
      BY DEF Walks, IsGlobal
<1>3. /\ d \in DataRecords /\ d.list \in Seq(Entries) /\ d.startOffset \in Nat
      /\ d.insertionOffset \in Nat /\ Len(d.list) \in Nat /\ DOMAIN d.list = 1..Len(d.list)
      BY <1>2, DataFields DEF DataGood
<1>4. /\ after \in Seq(CallRecords) /\ Len(after) = Len(calls) /\ DOMAIN after = DOMAIN calls
      /\ \A k \in DOMAIN calls :
           /\ after[k].call = calls[k].call /\ after[k].event = calls[k].event
           /\ after[k].receiver = calls[k].receiver /\ after[k].type = calls[k].type
           /\ after[k].next = calls[k].next
           /\ after[k].cut = (calls[k].cut \/ (IsGlobal(s0) /\ IsSend(calls[k])))
      <2>1. calls \in Seq(CallRecords)
            BY <1>1
      <2>2. QED BY <2>1, AfterCallFields
<1> HIDE DEF after
<1>5. Len(calls) \in Nat /\ DOMAIN calls = 1..Len(calls)
      BY <1>1, LenProperties
<1>6. Nested(after, posts)
      <2>1. ASSUME NEW k \in DOMAIN after
            PROVE /\ after[k].call = "handler" <=> k > 1 /\ after[k - 1].call = "send"
                  /\ after[k].call = "send" => k < Len(after)
                  /\ after[k].call \in {"loop", "polled"} => k = 1 \/ after[k - 1].call = "handler"
                  /\ after[k].call = "handler" => after[k].event \in DOMAIN posts
                  /\ after[k].call # "handler" => after[k].event = NoEvent
            <3>1. k > 1 => k - 1 \in DOMAIN calls
                  BY <1>4, <1>5
            <3>2. k > 1 => after[k - 1].call = calls[k - 1].call
                  BY <1>4, <3>1
            <3>3. k = 1 \/ k > 1
                  BY <1>4, <1>5
            <3>4. after[k].call = calls[k].call /\ after[k].event = calls[k].event
                  BY <1>4
            <3>5. /\ calls[k].call = "handler" <=> k > 1 /\ calls[k - 1].call = "send"
                  /\ calls[k].call = "send" => k < Len(calls)
                  /\ calls[k].call \in {"loop", "polled"} => k = 1 \/ calls[k - 1].call = "handler"
                  /\ calls[k].call = "handler" => calls[k].event \in DOMAIN posts
                  /\ calls[k].call # "handler" => calls[k].event = NoEvent
                  BY <1>1, <1>4 DEF Nested
            <3>6. QED BY <1>4, <3>2, <3>3, <3>4, <3>5
      <2>2. QED BY <2>1 DEF Nested
<1>7. NoneLeft(d, posts)
      <2> SUFFICES ASSUME d.canWait, NEW k \in Filled(d.list), posts[d.list[k].event].type # "delete",
                          posts[d.list[k].event].type \in {"ordinary", "delete"}
                   PROVE  FALSE
          <3>1. ASSUME NEW k \in Filled(d.list) PROVE posts[d.list[k].event].type \in {"ordinary", "delete"}
                <4>1. d.list[k].event \in DOMAIN posts
                      BY <1>2 DEF DataGood, ListGood, Agrees
                <4>2. posts[d.list[k].event] \in PostRecords
                      BY <4>1, LenProperties
                <4>3. QED BY <4>2 DEF PostRecords
          <3>2. QED BY <3>1 DEF NoneLeft
      <2>1. Index(d, c) < k /\ k <= d.insertionOffset
            BY <1>2 DEF WillCome
      <2>2. k \in 1..Len(d.list) /\ Index(d, c) \in Nat
            BY <1>2, <1>3 DEF Filled, Index, CallRecords
      <2>3. Goes(d, c)
            BY <1>3, <2>1, <2>2 DEF Goes
      <2>4. QED BY <2>3
<1>8. ASSUME NEW e, NoneLeft(e, posts) PROVE Remembered(e, after, posts)
      BY <1>8 DEF Remembered, NoneLeft, WillCome
<1>9. ASSUME ~IsGlobal(c) PROVE Events(d2.list) = Events(d0.list) /\ ThreadGood(d2, after, posts)
      <2>1. d2 = d
            BY <1>9 DEF CleanedUp
      <2>2. Offsets(d, after)
            <3>1. ASSUME d.startOffset # 0
                  PROVE  \E k \in DOMAIN after : IsSend(after[k]) /\ IsGlobal(after[k])
                  BY <1>1, <1>2, <1>4, <1>9, <3>1 DEF IsSend, IsGlobal
            <3>2. d.insertionOffset <= Len(d.list)
                  <4>1. Len(d0.list) \in Nat
                        BY <1>1, DataFields
                  <4>2. QED BY <1>1, <1>2, <1>3, <4>1
            <3>3. QED BY <3>1, <3>2 DEF Offsets
      <2>3. ASSUME NEW k \in DOMAIN after PROVE HasPassed(d, after[k], posts)
            <3>1. calls[k] \in CallRecords /\ HasPassed(d0, calls[k], posts)
                  BY <1>1, <1>4, CallFields
            <3>2. HasPassed(d, calls[k], posts)
                  BY <1>1, <3>1, WalksKeeps
            <3>3. QED BY <1>4, <3>2 DEF HasPassed, IsSend, IsGlobal
      <2>4. Remembered(d, after, posts)
            BY <1>7, <1>8
      <2>5. QED BY <1>2, <1>4, <1>6, <2>1, <2>2, <2>3, <2>4 DEF ThreadGood
<1>10. ASSUME IsGlobal(c) PROVE Events(d2.list) = Events(d0.list) /\ ThreadGood(d2, after, posts)
       <2> DEFINE q == SubSeq(d.list, d.startOffset + 1, Len(d.list))
       <2>1. /\ q \in Seq(Entries) /\ Len(q) = Len(d.list) - d.startOffset
             /\ ListGood(q, posts) /\ Sorted(q, d.insertionOffset - d.startOffset)
             /\ Events(q) = Events(d.list)
             BY <1>2, CutGood
       <2>2. d.startOffset <= Len(d.list) /\ d.startOffset <= d.insertionOffset
             BY <1>2 DEF DataGood
       <2> DEFINE off == d.insertionOffset - d.startOffset
       <2>3. off \in Nat
             BY <1>3, <2>2
       <2>4. d2 = [d EXCEPT !.list = q, !.insertionOffset = off, !.startOffset = 0]
             BY <1>10 DEF CleanedUp
       <2> HIDE DEF q, off, d2
       <2>5. /\ d2 \in DataRecords /\ d2.list = q /\ d2.insertionOffset = off
             /\ d2.startOffset = 0 /\ d2.canWait = d.canWait
             BY <1>3, <2>1, <2>3, <2>4 DEF DataRecords
       <2>6. q \in Seq(Entries) /\ ListGood(q, posts) /\ Sorted(q, off) /\ Events(q) = Events(d.list)
             BY <2>1 DEF off
       <2>7. DOMAIN q = 1..Len(q) /\ Len(q) \in Nat
             BY <2>6, LenProperties
       <2>8. DataGood(d2, posts)
             <3>1. ASSUME NEW k \in DOMAIN q, k <= 0 PROVE FALSE
                   BY <2>7, <3>1
             <3>2. 0 <= Len(q) /\ 0 <= off
                   BY <2>3, <2>7
             <3>3. QED BY <2>5, <2>6, <3>1, <3>2 DEF DataGood
       <2>9. Offsets(d2, after)
             <3>1. d.insertionOffset <= Len(d.list)
                   <4>1. Len(d0.list) \in Nat
                         BY <1>1, DataFields
                   <4>2. QED BY <1>1, <1>2, <1>3, <4>1
             <3>2. off <= Len(q)
                   BY <1>3, <2>1, <3>1 DEF off
             <3>3. QED BY <2>5, <3>2 DEF Offsets
       <2>10. \A k \in DOMAIN after : HasPassed(d2, after[k], posts)
              <3>1. IsGlobal(s0)
                    BY <1>2, <1>10
              <3>2. \A k \in DOMAIN after : IsSend(after[k]) => after[k].cut
                    BY <1>4, <3>1 DEF IsSend
              <3>3. QED BY <3>2 DEF HasPassed
       <2>11. NoneLeft(d2, posts)
              <3>1. ASSUME d.canWait, NEW k \in Filled(q) PROVE posts[q[k].event].type = "delete"
                    <4>1. q[k].event \in Events(d.list)
                          BY <2>6 DEF Events
                    <4>2. PICK n \in Filled(d.list) : q[k].event = d.list[n].event
                          BY <4>1 DEF Events
                    <4>3. QED BY <1>7, <3>1, <4>2 DEF NoneLeft
              <3>2. QED BY <2>5, <3>1 DEF NoneLeft
       <2>12. Remembered(d2, after, posts)
              BY <1>8, <2>11
       <2>13. ThreadGood(d2, after, posts)
              BY <1>4, <1>6, <2>8, <2>9, <2>10, <2>12 DEF ThreadGood
       <2>14. Events(d2.list) = Events(d0.list)
              BY <2>5, <2>6
       <2>15. QED BY <2>13, <2>14
<1>11. QED BY <1>9, <1>10 DEF after

-----------------------------------------------------------------------------
(* What the steps have in common *)

LEMMA WaitingKnown ==
  ASSUME IInv
  PROVE  /\ Waiting \subseteq DOMAIN posts /\ IsFiniteSet(Waiting)
         /\ Len(posts) \in Nat /\ DOMAIN posts = 1..Len(posts)
         /\ \A e \in DOMAIN posts : posts[e] \in PostRecords /\ posts[e].receiver \in Objects
                                    /\ posts[e].type \in {"ordinary", "delete"}
         /\ \A t, u \in Threads : \A e \in Waits(t) : e \in Waits(u) => t = u
<1>1. posts \in Seq(PostRecords)
      BY DEF IInv, Types
<1>2. /\ Len(posts) \in Nat /\ DOMAIN posts = 1..Len(posts)
      /\ \A e \in DOMAIN posts : posts[e] \in PostRecords
      BY <1>1, LenProperties
<1>3. \A p \in PostRecords : p.receiver \in Objects /\ p.type \in {"ordinary", "delete"}
      BY DEF PostRecords
<1>4. ASSUME NEW t \in Threads PROVE Waits(t) \subseteq DOMAIN posts
      <2>1. ListGood(data[t].list, posts)
            BY DEF IInv, ThreadGood, DataGood
      <2>2. QED BY <2>1 DEF ListGood, Agrees, Waits, Events
<1>5. Waiting \subseteq DOMAIN posts
      BY <1>4 DEF Waiting
<1>6. IsFiniteSet(Waiting)
      <2>1. IsFiniteSet(1..Len(posts))
            BY <1>2, FS_Interval
      <2>2. QED BY <1>2, <1>5, <2>1, FS_Subset
<1>7. \A t, u \in Threads : \A e \in Waits(t) : e \in Waits(u) => t = u
      BY DEF IInv, AtHome
<1>8. QED BY <1>2, <1>3, <1>5, <1>6, <1>7

\* Thread t has gone on with its calls, and with its QThreadData.
LEMMA ThreadsStep ==
  ASSUME IInv, NEW t \in Threads, NEW d, NEW calls,
         data' = [data EXCEPT ![t] = d], stack' = [stack EXCEPT ![t] = calls],
         posts' = posts, ThreadGood(d, calls, posts)
  PROVE  /\ \A u \in Threads : ThreadGood(data'[u], stack'[u], posts')
         /\ data' \in [Threads -> DataRecords] /\ stack' \in [Threads -> Seq(CallRecords)]
         /\ data'[t] = d /\ stack'[t] = calls
         /\ \A u \in Threads : u # t => data'[u] = data[u] /\ stack'[u] = stack[u]
<1>1. /\ data \in [Threads -> DataRecords] /\ stack \in [Threads -> Seq(CallRecords)]
      /\ \A u \in Threads : ThreadGood(data[u], stack[u], posts)
      BY DEF IInv, Types
<1>2. d \in DataRecords /\ calls \in Seq(CallRecords)
      BY DEF ThreadGood, DataGood
<1>3. /\ data'[t] = d /\ stack'[t] = calls
      /\ \A u \in Threads : u # t => data'[u] = data[u] /\ stack'[u] = stack[u]
      BY <1>1
<1>4. \A u \in Threads : ThreadGood(data'[u], stack'[u], posts')
      BY <1>1, <1>3
<1>5. data' \in [Threads -> DataRecords] /\ stack' \in [Threads -> Seq(CallRecords)]
      BY <1>1, <1>2
<1>6. QED BY <1>3, <1>4, <1>5

\* Events are taken out of the list of one thread.
LEMMA WaitingStep ==
  ASSUME IInv, NEW t \in Threads, NEW d, data' = [data EXCEPT ![t] = d],
         NEW gone, gone \subseteq Waits(t), Events(d.list) = Waits(t) \ gone
  PROVE  /\ Waiting' = Waiting \ gone /\ Waits(t)' = Waits(t) \ gone
         /\ \A u \in Threads : u # t => Waits(u)' = Waits(u)
<1>1. data \in [Threads -> DataRecords]
      BY DEF IInv, Types
<1>2. Waits(t)' = Waits(t) \ gone
      BY <1>1 DEF Waits
<1>3. \A u \in Threads : u # t => Waits(u)' = Waits(u)
      BY <1>1 DEF Waits
<1>4. \A u \in Threads : u # t => gone \cap Waits(u) = {}
      BY WaitingKnown
<1>5. \A e : e \in Waiting' <=> \E u \in Threads : e \in Waits(u)'
      BY DEF Waiting
<1>6. \A e : e \in Waiting <=> \E u \in Threads : e \in Waits(u)
      BY DEF Waiting
<1>7. \A e : e \in Waiting' <=> e \in Waiting \ gone
      BY <1>2, <1>3, <1>4, <1>5, <1>6
<1>8. QED BY <1>2, <1>3, <1>7

\* They were for one receiver.
LEMMA CountedStep ==
  ASSUME IInv, NEW o \in Objects, NEW gone, gone \subseteq Mail(o), Waiting' = Waiting \ gone,
         posts' = posts, postedEvents' = [postedEvents EXCEPT ![o] = @ - Cardinality(gone)]
  PROVE  /\ Counted' /\ postedEvents' \in [Objects -> Int]
         /\ IsFiniteSet(gone) /\ Cardinality(gone) \in Nat
<1>1. postedEvents \in [Objects -> Int] /\ \A x \in Objects : postedEvents[x] = Cardinality(Mail(x))
      BY DEF IInv, Types, Counted
<1>2. \A x \in Objects : IsFiniteSet(Mail(x)) /\ Cardinality(Mail(x)) \in Nat
      <2>1. ASSUME NEW x \in Objects PROVE IsFiniteSet(Mail(x)) /\ Cardinality(Mail(x)) \in Nat
            <3>1. IsFiniteSet(Mail(x))
                  BY WaitingKnown, FS_Subset DEF Mail
            <3>2. QED BY <3>1, FS_CardinalityType
      <2>2. QED BY <2>1
<1>3. IsFiniteSet(gone) /\ Cardinality(gone) \in Nat
      BY <1>2, FS_Subset, FS_CardinalityType
<1>4. Mail(o)' = Mail(o) \ gone
      BY DEF Mail
<1>5. \A x \in Objects : x # o => Mail(x)' = Mail(x)
      BY DEF Mail
<1>6. Cardinality(Mail(o) \ gone) = Cardinality(Mail(o)) - Cardinality(gone)
      <2>1. Mail(o) \cap gone = gone
            OBVIOUS
      <2>2. Cardinality(Mail(o) \ gone) = Cardinality(Mail(o)) - Cardinality(Mail(o) \cap gone)
            BY <1>2, <1>3, FS_Difference
      <2>3. QED BY <2>1, <2>2
<1>7. postedEvents'[o] = Cardinality(Mail(o)) - Cardinality(gone)
      BY <1>1
<1>8. \A x \in Objects : postedEvents'[x] = Cardinality(Mail(x)')
      BY <1>1, <1>4, <1>5, <1>6, <1>7
<1>9. postedEvents' \in [Objects -> Int]
      BY <1>1, <1>2, <1>3
<1>10. QED BY <1>3, <1>8, <1>9 DEF Counted

Levels == {"handler", "loop", "polled"}

LEMMA LevelSame ==
  ASSUME NEW calls, NEW more, NEW k \in Nat,
         \A j : j \in DOMAIN calls /\ j <= k <=> j \in DOMAIN more /\ j <= k,
         \A j \in DOMAIN calls : j <= k => (calls[j].call \in Levels <=> more[j].call \in Levels)
  PROVE  Level(calls, k) = Level(more, k)
<1>1. {j \in DOMAIN calls : j <= k /\ calls[j].call \in Levels}
        = {j \in DOMAIN more : j <= k /\ more[j].call \in Levels}
      OBVIOUS
<1>2. QED BY <1>1 DEF Level, Levels

\* The handlers a thread is in are those from before, and maybe that of e, which waited.
LEMMA HandledStep ==
  ASSUME IInv, NEW t \in Threads, NEW calls \in Seq(CallRecords),
         stack' = [stack EXCEPT ![t] = calls], posts' = posts,
         NEW e, Waiting' \subseteq Waiting \ {e},
         \A k \in DOMAIN calls : calls[k].event # NoEvent =>
           \/ /\ k \in DOMAIN stack[t] /\ calls[k].event = stack[t][k].event
              /\ Level(calls, k) = Level(stack[t], k)
           \/ k = Len(calls) /\ calls[k].event = e /\ e \in Waiting
  PROVE  HandledOnce' /\ Noted'
<1>1. stack \in [Threads -> Seq(CallRecords)]
      BY DEF IInv, Types
<1>2. stack'[t] = calls /\ \A u \in Threads : u # t => stack'[u] = stack[u]
      BY <1>1
<1>3. \A u, v \in Threads : \A k \in DOMAIN stack[u], n \in DOMAIN stack[v] :
        stack[u][k].event # NoEvent =>
          /\ stack[u][k].event \notin Waiting
          /\ stack[u][k].event = stack[v][n].event => u = v /\ k = n
      BY DEF IInv, HandledOnce
<1> DEFINE Old(u, k) == /\ k \in DOMAIN stack[u] /\ stack'[u][k].event = stack[u][k].event
                        /\ Level(stack'[u], k) = Level(stack[u], k)
           New(u, k) == u = t /\ k = Len(calls) /\ stack'[u][k].event = e /\ e \in Waiting
<1>4. \A u \in Threads : \A k \in DOMAIN stack'[u] :
        stack'[u][k].event # NoEvent => Old(u, k) \/ New(u, k)
      BY <1>2
<1> HIDE DEF Old, New
<1>5. ASSUME NEW u \in Threads, NEW k \in DOMAIN stack'[u], stack'[u][k].event # NoEvent
      PROVE  stack'[u][k].event \notin Waiting'
      BY <1>3, <1>4, <1>5 DEF Old, New
<1>6. ASSUME NEW u \in Threads, NEW k \in DOMAIN stack'[u], stack'[u][k].event # NoEvent,
             NEW v \in Threads, NEW n \in DOMAIN stack'[v],
             stack'[u][k].event = stack'[v][n].event
      PROVE  u = v /\ k = n
      <2>1. Old(u, k) \/ New(u, k)
            BY <1>4, <1>6
      <2>2. Old(v, n) \/ New(v, n)
            BY <1>4, <1>6
      <2>3. CASE Old(u, k) /\ Old(v, n)
            BY <1>3, <1>6, <2>3 DEF Old
      <2>4. CASE New(u, k) /\ New(v, n)
            BY <2>4 DEF New
      <2>5. CASE Old(u, k) /\ New(v, n)
            BY <1>3, <1>6, <2>5 DEF Old, New
      <2>6. CASE New(u, k) /\ Old(v, n)
            BY <1>3, <1>6, <2>6 DEF Old, New
      <2>7. QED BY <2>1, <2>2, <2>3, <2>4, <2>5, <2>6
<1>7. HandledOnce'
      BY <1>5, <1>6 DEF HandledOnce
<1>8. Noted'
      <2>1. ASSUME NEW f \in DOMAIN posts, posts[f].asker # NoEvent
            PROVE  /\ posts[f].type = "delete"
                   /\ posts[f].asker \in DOMAIN posts \ Waiting' /\ posts[f].level >= 1
                   /\ \A u \in Threads : \A k \in DOMAIN stack'[u] :
                        stack'[u][k].event = posts[f].asker => Level(stack'[u], k) = posts[f].level
            <3>1. /\ posts[f].type = "delete"
                  /\ posts[f].asker \in DOMAIN posts \ Waiting /\ posts[f].level >= 1
                  /\ \A u \in Threads : \A k \in DOMAIN stack[u] :
                       stack[u][k].event = posts[f].asker => Level(stack[u], k) = posts[f].level
                  BY <2>1 DEF IInv, Noted
            <3>2. ASSUME NEW u \in Threads, NEW k \in DOMAIN stack'[u],
                         stack'[u][k].event = posts[f].asker
                  PROVE  Level(stack'[u], k) = posts[f].level
                  <4>1. Old(u, k)
                        BY <1>4, <2>1, <3>1, <3>2 DEF New
                  <4>2. QED BY <3>1, <3>2, <4>1 DEF Old
            <3>3. QED BY <3>1, <3>2
      <2>2. QED BY <2>1 DEF Noted
<1>9. QED BY <1>7, <1>8

-----------------------------------------------------------------------------
(* sendPostedEvents() *)

\* From QThreadData d, the rounds of send come to d2 and c, where it delivers an event,
Delivery(t, d, calls, send, d2, c) ==
  /\ Walks(d, send, d2, c) /\ Events(d2.list) = Events(d.list)
  /\ Goes(d2, c) /\ Deliverable(calls, d2, c)
  /\ data' = [data EXCEPT ![t] = Delivering(d2, c)]
  /\ stack' = [stack EXCEPT ![t] = Called(calls, c, Current(d2, c).event)]
  /\ postedEvents' = [postedEvents EXCEPT ![posts[Current(d2, c).event].receiver] = @ - 1]

\* or ends.
Ending(t, d, calls, send, d2, c) ==
  /\ Walks(d, send, d2, c) /\ Events(d2.list) = Events(d.list) /\ ~Goes(d2, c)
  /\ data' = [data EXCEPT ![t] = CleanedUp(d2, c)]
  /\ stack' = [stack EXCEPT ![t] = AfterCall(calls, send)]
  /\ postedEvents' = postedEvents

LEMMA GoOnCases ==
  ASSUME posts \in Seq(PostRecords), NEW t, NEW d, NEW calls, NEW send,
         Ready(d, calls, send), GoOn(t, d, calls, send)
  PROVE  \E d2, c : Delivery(t, d, calls, send, d2, c) \/ Ending(t, d, calls, send, d2, c)
<1> DEFINE w == Walked(calls, d, send)
<1>1. Walks(d, send, d, send) /\ d \in DataRecords /\ d.insertionOffset <= Len(d.list)
      BY ReadyWalks DEF Ready
<1>2. /\ Walks(d, send, w[1], w[2]) /\ Events(w[1].list) = Events(d.list)
      /\ Goes(w[1], w[2]) => Deliverable(calls, w[1], w[2])
      BY <1>1, WalkedWalks
<1>3. CASE Goes(w[1], w[2])
      <2>1. Delivery(t, d, calls, send, w[1], w[2])
            BY <1>2, <1>3 DEF GoOn, Delivery, Called
      <2>2. QED BY <2>1
<1>4. CASE ~Goes(w[1], w[2])
      <2>1. Ending(t, d, calls, send, w[1], w[2])
            BY <1>2, <1>4 DEF GoOn, Ending
      <2>2. QED BY <2>1
<1>5. QED BY <1>3, <1>4

\* The calls below are the first ones of the thread.
Below(calls, old) ==
  \A k \in DOMAIN calls : /\ k \in DOMAIN old /\ calls[k].event = old[k].event
                          /\ calls[k].call \in Levels <=> old[k].call \in Levels

LEMMA BelowLevel ==
  ASSUME NEW calls \in Seq(CallRecords), NEW old \in Seq(CallRecords), Below(calls, old),
         NEW k \in DOMAIN calls
  PROVE  Level(calls, k) = Level(old, k)
<1>1. /\ DOMAIN calls = 1..Len(calls) /\ DOMAIN old = 1..Len(old)
      /\ Len(calls) \in Nat /\ Len(old) \in Nat /\ k \in Nat
      BY LenProperties
<1>2. \A j : j \in DOMAIN calls /\ j <= k <=> j \in DOMAIN old /\ j <= k
      <2>1. \A j \in DOMAIN calls : j \in DOMAIN old
            BY DEF Below
      <2>2. \A j \in DOMAIN old : j <= k => j \in DOMAIN calls
            BY <1>1
      <2>3. QED BY <2>1, <2>2
<1>3. \A j \in DOMAIN calls : j <= k => (calls[j].call \in Levels <=> old[j].call \in Levels)
      BY DEF Below
<1>4. QED BY <1>1, <1>2, <1>3, LevelSame

\* The invariant, but for postedEvents, for what thread t has done.
LEMMA SendingStep ==
  ASSUME IInv, NEW t \in Threads, NEW d, NEW calls, NEW e, NEW gone,
         data' = [data EXCEPT ![t] = d], stack' = [stack EXCEPT ![t] = calls],
         ThreadGood(d, calls, posts), gone \subseteq Waits(t), Events(d.list) = Waits(t) \ gone,
         e \notin Waits(t) \ gone, \A u \in Threads : u # t => e \notin Waits(u),
         \A k \in DOMAIN calls : calls[k].event # NoEvent =>
           \/ /\ k \in DOMAIN stack[t] /\ calls[k].event = stack[t][k].event
              /\ Level(calls, k) = Level(stack[t], k)
           \/ k = Len(calls) /\ calls[k].event = e /\ e \in Waiting,
         Counted', postedEvents' \in [Objects -> Int],
         UNCHANGED <<home, poster, posts, removed>>
  PROVE  IInv'
<1>1. Waiting' = Waiting \ gone /\ Waits(t)' = Waits(t) \ gone
      /\ \A u \in Threads : u # t => Waits(u)' = Waits(u)
      BY WaitingStep
<1>2. /\ \A u \in Threads : ThreadGood(data'[u], stack'[u], posts')
      /\ data' \in [Threads -> DataRecords] /\ stack' \in [Threads -> Seq(CallRecords)]
      BY ThreadsStep
<1>3. Types'
      BY <1>2 DEF IInv, Types
<1>4. AtHome'
      <2>1. \A u \in Threads : \A f \in Waits(u) : home[posts[f].receiver] = u
            BY DEF IInv, AtHome
      <2>2. \A u \in Threads : Waits(u)' \subseteq Waits(u)
            BY <1>1
      <2>3. QED BY <2>1, <2>2 DEF AtHome
<1>5. Addressed'
      BY DEF IInv, Addressed
<1>6. HandledOnce' /\ Noted'
      <2>1. Waiting' \subseteq Waiting \ {e}
            <3>1. e \notin Waiting'
                  BY <1>1 DEF Waiting
            <3>2. QED BY <1>1, <3>1
      <2>2. calls \in Seq(CallRecords)
            BY DEF ThreadGood
      <2>3. QED BY <2>1, <2>2, HandledStep
<1>7. QED BY <1>2, <1>3, <1>4, <1>5, <1>6 DEF IInv

LEMMA DeliveryStep ==
  ASSUME IInv, NEW t \in Threads, NEW d, NEW calls, NEW send, Ready(d, calls, send),
         NEW d2, NEW c, Delivery(t, d, calls, send, d2, c),
         Events(d.list) = Waits(t), Below(calls, stack[t]),
         UNCHANGED <<home, poster, posts, removed>>
  PROVE  IInv' /\ Waiting' = Waiting \ {Current(d2, c).event}
<1> DEFINE e == Current(d2, c).event
           o == posts[e].receiver
           d3 == Delivering(d2, c)
           h == HandlerCall(e)
           c2 == CountedCall(c)
           more == Called(calls, c, e)
<1>1. posts \in Seq(PostRecords) /\ stack[t] \in Seq(CallRecords)
      BY DEF IInv, Types
<1>2. /\ Walks(d, send, d2, c) /\ Events(d2.list) = Events(d.list)
      /\ Goes(d2, c) /\ e # NoEvent
      /\ data' = [data EXCEPT ![t] = d3] /\ stack' = [stack EXCEPT ![t] = more]
      /\ postedEvents' = [postedEvents EXCEPT ![o] = @ - 1]
      BY DEF Delivery, Deliverable
<1>3. /\ e \in Waits(t) /\ e \in DOMAIN posts /\ Events(d3.list) = Waits(t) \ {e}
      /\ ThreadGood(d3, more, posts)
      BY <1>1, <1>2, DeliveringThread
<1>4. o \in Objects /\ e \in Waiting
      BY <1>3, WaitingKnown DEF Waiting
<1>5. Waiting' = Waiting \ {e}
      <2> DEFINE gone == {e}
      <2>1. gone \subseteq Waits(t) /\ Events(d3.list) = Waits(t) \ gone
            BY <1>3
      <2> HIDE DEF gone, d3
      <2>2. Waiting' = Waiting \ gone
            BY <1>2, <2>1, WaitingStep
      <2>3. QED BY <2>2 DEF gone
<1>6. Counted' /\ postedEvents' \in [Objects -> Int]
      <2>1. {e} \subseteq Mail(o)
            BY <1>4 DEF Mail
      <2>2. Cardinality({e}) = 1
            BY FS_Singleton
      <2>3. postedEvents' = [postedEvents EXCEPT ![o] = @ - Cardinality({e})]
            BY <1>2, <2>2
      <2> HIDE DEF o, e
      <2>4. QED BY <1>4, <1>5, <2>1, <2>3, CountedStep
<1>7. \A u \in Threads : u # t => e \notin Waits(u)
      BY <1>3, WaitingKnown
<1>8. ASSUME NEW k \in DOMAIN more, more[k].event # NoEvent
      PROVE  \/ /\ k \in DOMAIN stack[t] /\ more[k].event = stack[t][k].event
                /\ Level(more, k) = Level(stack[t], k)
             \/ k = Len(more) /\ more[k].event = e /\ e \in Waiting
      <2> DEFINE n == Len(calls)
      <2>1. calls \in Seq(CallRecords)
            BY DEF Ready
      <2>2. more \in Seq(CallRecords)
            BY <1>3 DEF ThreadGood
      <2>3. /\ c2 \in CallRecords /\ c2.event = NoEvent
            <3>1. c.event = NoEvent /\ c \in CallRecords
                  BY <1>2 DEF Walks, Ready
            <3>2. QED BY <3>1 DEF CountedCall, CallRecords
      <2>4. h \in CallRecords /\ h.event = e
            <3> DEFINE r == Call("handler")
            <3>1. r \in CallRecords
                  BY DEF Call, CallRecords, NoEvent
            <3> HIDE DEF r
            <3>2. h = [r EXCEPT !.event = e]
                  BY DEF HandlerCall, r
            <3>3. e \in Nat
                  BY <1>3, WaitingKnown
            <3> HIDE DEF h, e
            <3>4. QED BY <3>1, <3>2, <3>3 DEF CallRecords
      <2>0. more = calls \o <<c2, h>>
            BY DEF Called
      <2> HIDE DEF c2, h, e, more
      <2>5. /\ n \in Nat /\ Len(more) = n + 2 /\ DOMAIN more = 1..(n + 2) /\ DOMAIN calls = 1..n
            /\ \A j \in 1..n : more[j] = calls[j]
            /\ more[n + 1] = c2 /\ more[n + 2] = h
            BY <2>0, <2>1, <2>3, <2>4, CalledMore
      <2> HIDE DEF n
      <2>6. k \in 1..n \/ k = n + 1 \/ k = n + 2
            BY <2>5
      <2>7. CASE k \in 1..n
            <3>1. k \in DOMAIN calls /\ more[k] = calls[k]
                  BY <2>5, <2>7
            <3>2. k \in DOMAIN stack[t] /\ calls[k].event = stack[t][k].event
                  BY <3>1 DEF Below
            <3>3. Level(calls, k) = Level(stack[t], k)
                  BY <1>1, <2>1, <3>1, BelowLevel
            <3>4. Level(calls, k) = Level(more, k)
                  <4>1. \A j : j \in DOMAIN calls /\ j <= k <=> j \in DOMAIN more /\ j <= k
                        <5>1. \A j \in 1..(n + 2) : j <= k => j \in 1..n
                              BY <2>5, <2>7
                        <5>2. \A j \in 1..n : j \in 1..(n + 2)
                              BY <2>5
                        <5>3. QED BY <2>5, <5>1, <5>2
                  <4>2. \A j \in DOMAIN calls : j <= k => (calls[j].call \in Levels <=> more[j].call \in Levels)
                        BY <2>5
                  <4>3. k \in Nat
                        BY <2>5, <2>7
                  <4>4. QED BY <4>1, <4>2, <4>3, LevelSame
            <3>5. QED BY <3>1, <3>2, <3>3, <3>4
      <2>8. CASE k = n + 1
            BY <1>8, <2>3, <2>5, <2>8
      <2>9. CASE k = n + 2
            BY <1>4, <2>4, <2>5, <2>9
      <2>10. QED BY <2>6, <2>7, <2>8, <2>9
<1> DEFINE gone == {e}
<1> HIDE DEF e, d3, more
<1>9. gone \subseteq Waits(t) /\ Events(d3.list) = Waits(t) \ gone /\ e \notin Waits(t) \ gone
      BY <1>3
<1> HIDE DEF gone
<1>10. IInv'
       BY <1>2, <1>3, <1>6, <1>7, <1>8, <1>9, SendingStep
<1>11. QED BY <1>5, <1>10 DEF e

LEMMA EndingStep ==
  ASSUME IInv, NEW t \in Threads, NEW d, NEW calls, NEW send, Ready(d, calls, send),
         NEW d2, NEW c, Ending(t, d, calls, send, d2, c),
         Events(d.list) = Waits(t), Below(calls, stack[t]),
         UNCHANGED <<home, poster, posts, removed>>
  PROVE  IInv' /\ Waiting' = Waiting
<1> DEFINE d3 == CleanedUp(d2, c)
           after == AfterCall(calls, send)
<1>1. /\ posts \in Seq(PostRecords) /\ stack[t] \in Seq(CallRecords)
      /\ calls \in Seq(CallRecords)
      BY DEF IInv, Types, Ready
<1>2. /\ Walks(d, send, d2, c) /\ Events(d2.list) = Events(d.list) /\ ~Goes(d2, c)
      /\ data' = [data EXCEPT ![t] = d3] /\ stack' = [stack EXCEPT ![t] = after]
      /\ postedEvents' = postedEvents
      BY DEF Ending
<1>3. Events(d3.list) = Waits(t) /\ ThreadGood(d3, after, posts)
      BY <1>1, <1>2, EndingThread
<1>4. /\ after \in Seq(CallRecords) /\ DOMAIN after = DOMAIN calls
      /\ \A k \in DOMAIN calls : after[k].call = calls[k].call /\ after[k].event = calls[k].event
      BY <1>1, AfterCallFields
<1> HIDE DEF after, d3
<1>5. Below(after, stack[t])
      BY <1>4 DEF Below
<1>6. \A k \in DOMAIN after :
        /\ k \in DOMAIN stack[t] /\ after[k].event = stack[t][k].event
        /\ Level(after, k) = Level(stack[t], k)
      <2>1. ASSUME NEW k \in DOMAIN after
            PROVE  /\ k \in DOMAIN stack[t] /\ after[k].event = stack[t][k].event
                   /\ Level(after, k) = Level(stack[t], k)
            BY <1>1, <1>4, <1>5, BelowLevel DEF Below
      <2>2. QED BY <2>1
<1> DEFINE gone == {}
<1>0. gone \subseteq Waits(t) /\ Events(d3.list) = Waits(t) \ gone
      BY <1>3
<1> HIDE DEF gone
<1>7. Waiting' = Waiting
      <2>1. Waiting' = Waiting \ gone
            BY <1>0, <1>2, WaitingStep
      <2>2. QED BY <2>1 DEF gone
<1>8. Counted' /\ postedEvents' \in [Objects -> Int]
      BY <1>2, <1>7 DEF IInv, Counted, Types, Mail
<1>9. NoEvent \notin Waiting
      BY WaitingKnown DEF NoEvent
<1>10. NoEvent \notin Waits(t) \ gone /\ \A u \in Threads : u # t => NoEvent \notin Waits(u)
       BY <1>9 DEF Waiting
<1>11. IInv'
       BY <1>0, <1>2, <1>3, <1>6, <1>8, <1>10, SendingStep
<1>12. QED BY <1>7, <1>11

LEMMA GoOnStep ==
  ASSUME IInv, NEW t \in Threads, NEW d, NEW calls, NEW send, Ready(d, calls, send),
         GoOn(t, d, calls, send), Events(d.list) = Waits(t), Below(calls, stack[t]),
         UNCHANGED <<home, poster, posts, removed>>
  PROVE  IInv'
<1>1. posts \in Seq(PostRecords)
      BY DEF IInv, Types
<1>2. PICK d2, c : Delivery(t, d, calls, send, d2, c) \/ Ending(t, d, calls, send, d2, c)
      BY <1>1, GoOnCases
<1>3. QED BY <1>2, DeliveryStep, EndingStep

\* A call of sendPostedEvents() is followed by the handler it has called.
LEMMA HandlerFollows ==
  ASSUME NEW calls \in Seq(CallRecords), NEW ps, Nested(calls, ps),
         NEW k \in DOMAIN calls, calls[k].call = "send"
  PROVE  k + 1 \in DOMAIN calls /\ calls[k + 1].call = "handler"
<1>1. DOMAIN calls = 1..Len(calls) /\ Len(calls) \in Nat
      BY LenProperties
<1>2. k < Len(calls)
      BY DEF Nested
<1>3. k + 1 \in DOMAIN calls /\ k + 1 > 1 /\ k + 1 - 1 = k
      BY <1>1, <1>2
<1> DEFINE n == k + 1
<1>4. n \in DOMAIN calls /\ n > 1 /\ calls[n - 1].call = "send"
      BY <1>3
<1> HIDE DEF n
<1>5. calls[n].call = "handler"
      BY <1>4 DEF Nested
<1>6. QED BY <1>4, <1>5 DEF n

\* The first m calls, the next of which is not a handler
LEMMA FirstCalls ==
  ASSUME NEW calls \in Seq(CallRecords), NEW ps, Nested(calls, ps), NEW m \in Nat,
         m <= Len(calls), m < Len(calls) => calls[m + 1].call # "handler"
  PROVE  LET q == SubSeq(calls, 1, m)
         IN  /\ q \in Seq(CallRecords) /\ Len(q) = m /\ DOMAIN q = 1..m
             /\ \A k \in 1..m : k \in DOMAIN calls /\ q[k] = calls[k]
             /\ Nested(q, ps) /\ Below(q, calls)
<1> DEFINE q == SubSeq(calls, 1, m)
<1>1. DOMAIN calls = 1..Len(calls) /\ Len(calls) \in Nat
      BY LenProperties
<1>2. \A k \in 1..m : k \in DOMAIN calls
      BY <1>1
<1>3. q \in Seq(CallRecords) /\ Len(q) = m /\ \A k \in 1..m : q[k] = calls[k]
      <2>1. 1 \in Int /\ m \in Int /\ \A k \in 1..m : calls[k] \in CallRecords
            BY <1>2, CallFields
      <2>2. /\ q \in Seq(CallRecords) /\ Len(q) = IF 1 <= m THEN m - 1 + 1 ELSE 0
            /\ \A k \in 1..(m - 1 + 1) : q[k] = calls[1 + k - 1]
            BY <2>1, SubSeqProperties
      <2> HIDE DEF q
      <2>3. m - 1 + 1 = m /\ (~(1 <= m) => m = 0) /\ \A k \in 1..m : 1 + k - 1 = k
            OBVIOUS
      <2>4. QED BY <2>2, <2>3
<1>4. DOMAIN q = 1..m
      BY <1>3, LenProperties
<1> HIDE DEF q
<1>5. ASSUME NEW k \in 1..m
      PROVE  /\ q[k].call = "handler" <=> k > 1 /\ q[k - 1].call = "send"
             /\ q[k].call = "send" => k < m
             /\ q[k].call \in {"loop", "polled"} => k = 1 \/ q[k - 1].call = "handler"
             /\ q[k].call = "handler" => q[k].event \in DOMAIN ps
             /\ q[k].call # "handler" => q[k].event = NoEvent
      <2>1. /\ calls[k].call = "handler" <=> k > 1 /\ calls[k - 1].call = "send"
            /\ calls[k].call \in {"loop", "polled"} => k = 1 \/ calls[k - 1].call = "handler"
            /\ calls[k].call = "handler" => calls[k].event \in DOMAIN ps
            /\ calls[k].call # "handler" => calls[k].event = NoEvent
            BY <1>2 DEF Nested
      <2>2. q[k] = calls[k] /\ (k > 1 => q[k - 1] = calls[k - 1]) /\ (k = 1 \/ k > 1)
            <3>1. k > 1 => k - 1 \in 1..m
                  OBVIOUS
            <3>2. QED BY <1>3, <3>1
      <2>3. ASSUME calls[k].call = "send" PROVE k < m
            <3>1. k + 1 \in DOMAIN calls /\ calls[k + 1].call = "handler"
                  BY <1>2, <2>3, HandlerFollows
            <3>2. k = m => m < Len(calls) /\ calls[m + 1].call = "handler"
                  BY <1>1, <3>1
            <3>3. k # m
                  BY <3>2
            <3>4. QED BY <3>3
      <2>4. QED BY <2>1, <2>2, <2>3
<1>6. Nested(q, ps)
      BY <1>3, <1>4, <1>5 DEF Nested
<1>7. Below(q, calls)
      BY <1>2, <1>3, <1>4 DEF Below
<1>8. QED BY <1>2, <1>3, <1>4, <1>6, <1>7 DEF q

LEMMA LastCall ==
  ASSUME IInv, NEW t \in Threads, stack[t] # <<>>
  PROVE  LET n == Len(stack[t])
         IN  /\ stack[t] \in Seq(CallRecords) /\ n \in Nat /\ n \in DOMAIN stack[t] /\ n >= 1
             /\ DOMAIN stack[t] = 1..n
             /\ Top(t) = stack[t][n] /\ Last(stack[t]) = stack[t][n]
             /\ ThreadGood(data[t], stack[t], posts)
<1>1. stack[t] \in Seq(CallRecords) /\ ThreadGood(data[t], stack[t], posts)
      BY DEF IInv, Types
<1>2. DOMAIN stack[t] = 1..Len(stack[t]) /\ Len(stack[t]) \in Nat
      BY <1>1, LenProperties
<1>3. Len(stack[t]) # 0
      BY <1>1, EmptySeq
<1>4. Top(t) = Last(stack[t]) /\ Last(stack[t]) = stack[t][Len(stack[t])]
      BY DEF Top, Last
<1>5. QED BY <1>1, <1>2, <1>3, <1>4

LEMMA ReturnReady ==
  ASSUME IInv, NEW t \in Threads, Top(t).call = "handler"
  PROVE  LET n == Len(stack[t])
             calls == SubSeq(stack[t], 1, n - 2)
         IN  /\ n \in Nat /\ n >= 2 /\ IsSend(stack[t][n - 1])
             /\ calls \in Seq(CallRecords) /\ Len(calls) = n - 2 /\ DOMAIN calls = 1..(n - 2)
             /\ \A k \in 1..(n - 2) : k \in DOMAIN stack[t] /\ calls[k] = stack[t][k]
             /\ Ready(data[t], calls, stack[t][n - 1])
             /\ Below(calls, stack[t])
<1> DEFINE old == stack[t]
           n == Len(old)
           m == n - 2
           calls == SubSeq(old, 1, m)
           d == data[t]
           send == old[n - 1]
<1>1. old # <<>>
      BY DEF Top, Call
<1>2. /\ old \in Seq(CallRecords) /\ n \in Nat /\ n \in DOMAIN old /\ n >= 1
      /\ DOMAIN old = 1..n /\ old[n].call = "handler"
      /\ ThreadGood(d, old, posts) /\ Last(old) = old[n]
      BY <1>1, LastCall
<1>3. /\ DataGood(d, posts) /\ Nested(old, posts) /\ Offsets(d, old)
      /\ \A k \in DOMAIN old : HasPassed(d, old[k], posts)
      /\ Remembered(d, old, posts)
      BY <1>2 DEF ThreadGood
<1> HIDE DEF old, n, m, calls, d
<1>4. n > 1 /\ send.call = "send"
      BY <1>2, <1>3 DEF Nested
<1>5. m \in Nat /\ m <= n /\ m + 1 = n - 1 /\ n - 1 \in DOMAIN old /\ n >= 2
      BY <1>2, <1>4 DEF m
<1>6. /\ send \in CallRecords /\ send.event = NoEvent /\ HasPassed(d, send, posts)
      <2>1. send \in CallRecords /\ HasPassed(d, send, posts)
            BY <1>2, <1>3, <1>5, CallFields
      <2>2. send.event = NoEvent
            BY <1>3, <1>4, <1>5 DEF Nested
      <2>3. QED BY <2>1, <2>2
<1>7. /\ calls \in Seq(CallRecords) /\ Len(calls) = m /\ DOMAIN calls = 1..m
      /\ \A k \in 1..m : k \in DOMAIN old /\ calls[k] = old[k]
      /\ Nested(calls, posts) /\ Below(calls, old)
      <2>1. old[m + 1].call # "handler"
            BY <1>4, <1>5
      <2>2. m <= Len(old)
            BY <1>5 DEF n
      <2>3. QED BY <1>2, <1>3, <1>5, <2>1, <2>2, FirstCalls DEF calls
<1>8. WillCome(d, send, posts)
      <2>1. Innermost(old) = n - 1
            BY <1>2 DEF Innermost, n, old
      <2>2. ~(n - 1 < 1)
            BY <1>2, <1>4
      <2>3. QED BY <1>3, <2>1, <2>2 DEF Remembered
<1>9. ASSUME d.startOffset # 0, ~IsGlobal(send)
      PROVE  \E k \in DOMAIN calls : IsSend(calls[k]) /\ IsGlobal(calls[k])
      <2>1. PICK k \in DOMAIN old : IsSend(old[k]) /\ IsGlobal(old[k])
            BY <1>3, <1>9 DEF Offsets
      <2>2. k # n - 1 /\ k # n
            BY <1>2, <1>9, <2>1 DEF IsSend
      <2>3. k \in 1..m
            BY <1>2, <2>2 DEF m
      <2>4. QED BY <1>7, <2>1, <2>3
<1>10. d.insertionOffset <= Len(d.list)
       BY <1>3, <1>4, <1>5 DEF Offsets, IsSend
<1>11. \A k \in DOMAIN calls : HasPassed(d, calls[k], posts)
       BY <1>3, <1>7
<1>12. Ready(d, calls, send)
       BY <1>3, <1>4, <1>6, <1>7, <1>8, <1>9, <1>10, <1>11 DEF Ready, IsSend
<1>13. QED BY <1>2, <1>4, <1>5, <1>7, <1>12 DEF IsSend, old, n, m, calls, d

LEMMA ReturnStep ==
  ASSUME IInv, NEW t \in Threads, Return(t)
  PROVE  IInv'
<1> DEFINE n == Len(stack[t])
           m == n - 2
           calls == SubSeq(stack[t], 1, m)
           send == stack[t][m + 1]
<1>1. /\ n \in Nat /\ Ready(data[t], calls, stack[t][n - 1])
      /\ Below(calls, stack[t])
      BY ReturnReady DEF Return
<1>2. m + 1 = n - 1
      BY <1>1
<1>3. GoOn(t, data[t], calls, send) /\ UNCHANGED <<home, poster, posts, removed>>
      BY DEF Return
<1> HIDE DEF calls, m, n
<1>4. Ready(data[t], calls, send)
      BY <1>1, <1>2
<1> HIDE DEF send
<1>5. Events(data[t].list) = Waits(t)
      BY DEF Waits
<1>6. QED BY <1>1, <1>3, <1>4, <1>5, GoOnStep

LEMMA PolledFields ==
  ASSUME NEW calls \in Seq(CallRecords), NEW ps, Nested(calls, ps)
  PROVE  LET q == Polled(calls)
         IN  /\ q \in Seq(CallRecords) /\ Len(q) = Len(calls) /\ DOMAIN q = DOMAIN calls
             /\ \A k \in DOMAIN calls :
                  /\ q[k].event = calls[k].event /\ (calls[k].call # "loop" => q[k] = calls[k])
                  /\ IsSend(q[k]) <=> IsSend(calls[k])
                  /\ q[k].call = "handler" <=> calls[k].call = "handler"
             /\ Nested(q, ps) /\ Below(q, calls)
<1> DEFINE q == Polled(calls)
           n == Len(calls)
<1>1. DOMAIN calls = 1..n /\ n \in Nat /\ \A k \in DOMAIN calls : calls[k] \in CallRecords
      BY CallFields
<1>2. CASE ~(calls # <<>> /\ Last(calls).call = "loop")
      <2>1. q = calls
            BY <1>2 DEF Polled
      <2>2. Below(calls, calls)
            BY DEF Below
      <2>3. QED BY <2>1, <2>2
<1>3. CASE calls # <<>> /\ Last(calls).call = "loop"
      <2>1. q = [calls EXCEPT ![n].call = "polled"]
            BY <1>3 DEF Polled
      <2>2. n \in DOMAIN calls /\ calls[n].call = "loop"
            BY <1>1, <1>3, EmptySeq DEF Last
      <2> HIDE DEF q, n
      <2>3. DOMAIN q = DOMAIN calls /\ \A k \in DOMAIN calls \ {n} : q[k] = calls[k]
            BY <2>1
      <2>4. /\ q[n] = [calls[n] EXCEPT !.call = "polled"]
            BY <2>1, <2>2
      <2>5. q[n] \in CallRecords /\ q[n].call = "polled" /\ q[n].event = calls[n].event
            BY <1>1, <2>2, <2>4 DEF CallRecords
      <2>6. \A k \in DOMAIN calls : q[k] \in CallRecords
            BY <1>1, <2>3, <2>5
      <2>7. q \in Seq(CallRecords) /\ Len(q) = n
            <3>1. q = [k \in 1..n |-> q[k]]
                  BY <1>1, <2>1
            <3>2. q \in [1..n -> CallRecords]
                  BY <1>1, <2>6, <3>1
            <3>3. QED BY <1>1, <3>2, LenProperties, SeqDef
      <2>8. \A k \in DOMAIN calls :
              /\ q[k].event = calls[k].event /\ (calls[k].call # "loop" => q[k] = calls[k])
              /\ IsSend(q[k]) <=> IsSend(calls[k])
              /\ q[k].call = "handler" <=> calls[k].call = "handler"
              /\ q[k].call \in {"loop", "polled"} <=> calls[k].call \in {"loop", "polled"}
            BY <2>2, <2>3, <2>5 DEF IsSend
      <2>9. Nested(q, ps)
            <3>1. ASSUME NEW k \in DOMAIN q
                  PROVE /\ q[k].call = "handler" <=> k > 1 /\ q[k - 1].call = "send"
                        /\ q[k].call = "send" => k < Len(q)
                        /\ q[k].call \in {"loop", "polled"} => k = 1 \/ q[k - 1].call = "handler"
                        /\ q[k].call = "handler" => q[k].event \in DOMAIN ps
                        /\ q[k].call # "handler" => q[k].event = NoEvent
                  <4>1. k > 1 => k - 1 \in DOMAIN calls
                        BY <1>1, <2>3
                  <4>2. k = 1 \/ k > 1
                        BY <1>1, <2>3
                  <4>3. /\ calls[k].call = "handler" <=> k > 1 /\ calls[k - 1].call = "send"
                        /\ calls[k].call = "send" => k < n
                        /\ calls[k].call \in {"loop", "polled"} => k = 1 \/ calls[k - 1].call = "handler"
                        /\ calls[k].call = "handler" => calls[k].event \in DOMAIN ps
                        /\ calls[k].call # "handler" => calls[k].event = NoEvent
                        BY <2>3 DEF Nested, n
                  <4>4. k > 1 => /\ q[k - 1].call = "send" <=> calls[k - 1].call = "send"
                                 /\ q[k - 1].call = "handler" <=> calls[k - 1].call = "handler"
                        BY <2>8, <4>1 DEF IsSend
                  <4>5. QED BY <2>3, <2>7, <2>8, <4>2, <4>3, <4>4 DEF IsSend
            <3>2. QED BY <3>1 DEF Nested
      <2>10. Below(q, calls)
             BY <2>3, <2>8 DEF Below, Levels
      <2>11. QED BY <2>3, <2>7, <2>8, <2>9, <2>10 DEF q, n
<1>4. QED BY <1>2, <1>3

LEMMA SendReady ==
  ASSUME IInv, NEW t \in Threads, NEW receiver \in Objects \cup {NoObject},
         NEW type \in {"any", "delete"}
  PROVE  LET d == Entered(data[t])
         IN  /\ Ready(d, Polled(stack[t]), SendCall(receiver, type, data[t].startOffset))
             /\ d.list = data[t].list
<1> DEFINE old == data[t]
           calls == stack[t]
           polled == Polled(calls)
           d == Entered(old)
           send == SendCall(receiver, type, old.startOffset)
<1>1. ThreadGood(old, calls, posts)
      BY DEF IInv
<1> HIDE DEF old, calls
<1>2. /\ DataGood(old, posts) /\ Nested(calls, posts) /\ Offsets(old, calls)
      /\ calls \in Seq(CallRecords)
      /\ \A k \in DOMAIN calls : HasPassed(old, calls[k], posts)
      BY <1>1 DEF ThreadGood
<1>3. /\ old \in DataRecords /\ ListGood(old.list, posts) /\ old.startOffset <= Len(old.list)
      /\ \A k \in DOMAIN old.list : k <= old.startOffset => old.list[k].event = NoEvent
      BY <1>2 DEF DataGood
<1>4. /\ old.list \in Seq(Entries) /\ old.startOffset \in Nat /\ old.insertionOffset \in Nat
      /\ Len(old.list) \in Nat /\ DOMAIN old.list = 1..Len(old.list)
      BY <1>3, DataFields
<1>5. /\ d \in DataRecords /\ d.list = old.list /\ d.startOffset = old.startOffset
      /\ d.insertionOffset = Len(old.list) /\ d.canWait = TRUE
      BY <1>3, <1>4 DEF Entered, DataRecords
<1>6. /\ send \in CallRecords /\ IsSend(send) /\ send.event = NoEvent
      /\ send.next = old.startOffset
      <2>1. /\ Call("send") \in CallRecords /\ Call("send").call = "send"
            /\ Call("send").event = NoEvent
            BY DEF Call, CallRecords, NoEvent
      <2> DEFINE c == Call("send")
      <2> HIDE DEF c
      <2>2. send = [c EXCEPT !.receiver = receiver, !.type = type, !.next = old.startOffset]
            BY DEF SendCall, c
      <2> HIDE DEF send
      <2>3. c \in CallRecords /\ c.call = "send" /\ c.event = NoEvent
            BY <2>1 DEF c
      <2>4. QED BY <1>4, <2>2, <2>3 DEF CallRecords, IsSend
<1>7. /\ polled \in Seq(CallRecords) /\ Nested(polled, posts) /\ DOMAIN polled = DOMAIN calls
      /\ \A k \in DOMAIN calls : /\ IsSend(polled[k]) <=> IsSend(calls[k])
                                 /\ calls[k].call # "loop" => polled[k] = calls[k]
      BY <1>2, PolledFields
<1> HIDE DEF polled, d, send
<1>8. DataGood(d, posts)
      <2>1. Sorted(d.list, Len(old.list))
            BY <1>4, <1>5 DEF Sorted
      <2>2. QED BY <1>3, <1>5, <2>1 DEF DataGood
<1>9. ASSUME NEW k \in DOMAIN polled PROVE HasPassed(d, polled[k], posts)
      <2>1. CASE ~IsSend(polled[k])
            BY <2>1 DEF HasPassed
      <2>2. CASE IsSend(polled[k])
            <3>1. polled[k] = calls[k] /\ IsSend(calls[k]) /\ k \in DOMAIN calls
                  BY <1>7, <2>2 DEF IsSend
            <3>2. HasPassed(old, calls[k], posts) /\ old.insertionOffset <= Len(old.list)
                  BY <1>2, <3>1 DEF Offsets
            <3>3. calls[k].next \in Nat
                  BY <1>2, <3>1, CallFields
            <3> DEFINE m == calls[k].next
            <3>4. m <= old.insertionOffset => m <= Len(old.list)
                  <4> HIDE DEF m
                  <4>1. m \in Nat
                        BY <3>3 DEF m
                  <4>2. QED BY <1>4, <3>2, <4>1
            <3>5. QED BY <1>5, <3>1, <3>2, <3>4 DEF HasPassed
      <2>3. QED BY <2>1, <2>2
<1>10. \A k \in Filled(d.list) : old.startOffset < k /\ k <= Len(old.list)
       <2>1. ASSUME NEW k \in Filled(d.list) PROVE old.startOffset < k /\ k <= Len(old.list)
             <3>1. k \in 1..Len(old.list) /\ ~(k <= old.startOffset)
                   BY <1>3, <1>4, <1>5 DEF Filled
             <3>2. QED BY <1>4, <3>1
       <2>2. QED BY <2>1
<1>11. Index(d, send) = old.startOffset
       BY <1>5, <1>6 DEF Index
<1>12. WillCome(d, send, posts)
       BY <1>5, <1>10, <1>11 DEF WillCome
<1>13. HasPassed(d, send, posts)
       <2>1. \A k \in Filled(d.list) : ~(k <= old.startOffset)
             <3>1. \A k \in Filled(d.list) : k \in Nat
                   BY <1>4, <1>5 DEF Filled
             <3>2. QED BY <1>4, <1>10, <3>1
       <2>2. QED BY <1>3, <1>5, <1>6, <2>1 DEF HasPassed
<1>14. d.startOffset # 0 => \E k \in DOMAIN polled : IsSend(polled[k]) /\ IsGlobal(polled[k])
       <2> SUFFICES ASSUME old.startOffset # 0
                    PROVE  \E k \in DOMAIN polled : IsSend(polled[k]) /\ IsGlobal(polled[k])
           BY <1>5
       <2>1. PICK k \in DOMAIN calls : IsSend(calls[k]) /\ IsGlobal(calls[k])
             BY <1>2 DEF Offsets
       <2>2. polled[k] = calls[k]
             BY <1>7, <2>1 DEF IsSend
       <2>3. QED BY <1>7, <2>1, <2>2
<1>15. d.insertionOffset <= Len(d.list)
       BY <1>4, <1>5
<1>16. Ready(d, polled, send)
       BY <1>6, <1>7, <1>8, <1>9, <1>12, <1>13, <1>14, <1>15 DEF Ready
<1>17. QED BY <1>5, <1>16 DEF old, calls, d, polled, send

\* The calls change, or canWait, and nothing else.
LEMMA CallsStep ==
  ASSUME IInv, NEW t \in Threads, NEW d, NEW calls, d.list = data[t].list,
         data' = [data EXCEPT ![t] = d], stack' = [stack EXCEPT ![t] = calls],
         ThreadGood(d, calls, posts),
         \A k \in DOMAIN calls : calls[k].event # NoEvent =>
           /\ k \in DOMAIN stack[t] /\ calls[k].event = stack[t][k].event
           /\ Level(calls, k) = Level(stack[t], k),
         UNCHANGED <<home, postedEvents, poster, posts, removed>>
  PROVE  IInv'
<1> DEFINE gone == {}
<1>1. gone \subseteq Waits(t) /\ Events(d.list) = Waits(t) \ gone
      BY DEF Waits
<1>2. Waiting' = Waiting
      <2> HIDE DEF gone
      <2>1. Waiting' = Waiting \ gone
            BY <1>1, WaitingStep
      <2>2. QED BY <2>1 DEF gone
<1> HIDE DEF gone
<1>3. Counted' /\ postedEvents' \in [Objects -> Int]
      BY <1>2 DEF IInv, Counted, Types, Mail
<1>4. NoEvent \notin Waiting
      BY WaitingKnown DEF NoEvent
<1>5. NoEvent \notin Waits(t) \ gone /\ \A u \in Threads : u # t => NoEvent \notin Waits(u)
      BY <1>4 DEF Waiting
<1>6. QED BY <1>1, <1>3, <1>5, SendingStep

LEMMA SendStep ==
  ASSUME IInv, NEW t \in Threads, NEW receiver \in Objects \cup {NoObject},
         NEW type \in {"any", "delete"}, sendPostedEvents(t, receiver, type)
  PROVE  IInv'
<1> DEFINE polled == Polled(stack[t])
<1>1. /\ stack[t] \in Seq(CallRecords) /\ ThreadGood(data[t], stack[t], posts)
      BY DEF IInv, Types
<1>2. /\ DataGood(data[t], posts) /\ Nested(stack[t], posts) /\ Offsets(data[t], stack[t])
      /\ \A k \in DOMAIN stack[t] : HasPassed(data[t], stack[t][k], posts)
      /\ data[t] \in DataRecords
      BY <1>1 DEF ThreadGood, DataGood
<1>3. /\ polled \in Seq(CallRecords) /\ Nested(polled, posts)
      /\ DOMAIN polled = DOMAIN stack[t] /\ Below(polled, stack[t])
      /\ \A k \in DOMAIN polled : /\ IsSend(polled[k]) <=> IsSend(stack[t][k])
                                  /\ stack[t][k].call # "loop" => polled[k] = stack[t][k]
      BY <1>1, <1>2, PolledFields
<1>4. UNCHANGED <<home, poster, posts, removed>>
      BY DEF sendPostedEvents
<1> HIDE DEF polled
<1>5. CASE data[t].list = <<>> \/ (receiver # NoObject /\ postedEvents[receiver] = 0)
      <2> DEFINE d == [data[t] EXCEPT !.canWait = (data[t].list = <<>>)]
      <2>1. /\ data' = [data EXCEPT ![t].canWait = (data[t].list = <<>>)]
            /\ stack' = [stack EXCEPT ![t] = Polled(@)] /\ postedEvents' = postedEvents
            BY <1>5 DEF sendPostedEvents
      <2>2. data' = [data EXCEPT ![t] = d]
            BY <2>1
      <2>3. stack' = [stack EXCEPT ![t] = polled]
            BY <2>1 DEF polled
      <2>4. /\ d \in DataRecords /\ d.list = data[t].list /\ d.startOffset = data[t].startOffset
            /\ d.insertionOffset = data[t].insertionOffset
            /\ d.canWait => d.list = <<>>
            BY <1>2 DEF DataRecords
      <2> HIDE DEF d
      <2>5. DataGood(d, posts)
            BY <1>2, <2>4 DEF DataGood
      <2>6. Offsets(d, polled)
            BY <1>2, <1>3, <2>4 DEF Offsets, IsSend
      <2>7. ASSUME NEW k \in DOMAIN polled PROVE HasPassed(d, polled[k], posts)
            BY <1>2, <1>3, <2>4 DEF HasPassed, IsSend
      <2>8. Remembered(d, polled, posts)
            <3>1. d.canWait => Filled(d.list) = {}
                  BY <2>4 DEF Filled
            <3>2. QED BY <3>1 DEF Remembered, NoneLeft, WillCome
      <2>9. ThreadGood(d, polled, posts)
            BY <1>3, <2>5, <2>6, <2>7, <2>8 DEF ThreadGood
      <2>10. ASSUME NEW k \in DOMAIN polled
             PROVE  /\ k \in DOMAIN stack[t] /\ polled[k].event = stack[t][k].event
                    /\ Level(polled, k) = Level(stack[t], k)
             BY <1>1, <1>3, BelowLevel DEF Below
      <2>11. UNCHANGED <<home, postedEvents, poster, posts, removed>>
             BY <1>4, <2>1
      <2>12. \A k \in DOMAIN polled : polled[k].event # NoEvent =>
               /\ k \in DOMAIN stack[t] /\ polled[k].event = stack[t][k].event
               /\ Level(polled, k) = Level(stack[t], k)
             BY <2>10
      <2>13. d.list = data[t].list
             BY <2>4
      <2>14. QED BY <2>2, <2>3, <2>9, <2>11, <2>12, <2>13, CallsStep
<1>6. CASE ~(data[t].list = <<>> \/ (receiver # NoObject /\ postedEvents[receiver] = 0))
      <2> DEFINE d == Entered(data[t])
                 send == SendCall(receiver, type, data[t].startOffset)
      <2>1. GoOn(t, d, polled, send)
            BY <1>6 DEF sendPostedEvents, polled
      <2>2. Ready(d, polled, send) /\ d.list = data[t].list
            BY SendReady DEF polled
      <2> HIDE DEF d, send
      <2>3. Events(d.list) = Waits(t)
            BY <2>2 DEF Waits
      <2>4. QED BY <1>3, <1>4, <2>1, <2>2, <2>3, GoOnStep
<1>7. QED BY <1>5, <1>6

-----------------------------------------------------------------------------
(* Event loops *)

LEMMA LoopEntered ==
  ASSUME NEW d, NEW calls, NEW ps, ThreadGood(d, calls, ps),
         calls = <<>> \/ Last(calls).call = "handler"
  PROVE  LET more == Append(calls, Call("loop"))
         IN  /\ ThreadGood(d, more, ps)
             /\ \A k \in DOMAIN more : more[k].event # NoEvent =>
                  /\ k \in DOMAIN calls /\ more[k].event = calls[k].event
                  /\ Level(more, k) = Level(calls, k)
<1> DEFINE n == Len(calls)
           loop == Call("loop")
           more == Append(calls, loop)
<1>1. /\ DataGood(d, ps) /\ calls \in Seq(CallRecords) /\ Nested(calls, ps)
      /\ Offsets(d, calls) /\ Remembered(d, calls, ps)
      /\ \A k \in DOMAIN calls : HasPassed(d, calls[k], ps)
      BY DEF ThreadGood
<1>2. n \in Nat /\ DOMAIN calls = 1..n
      BY <1>1, LenProperties
<1>3. loop \in CallRecords /\ loop.call = "loop" /\ loop.event = NoEvent /\ ~IsSend(loop)
      BY DEF Call, CallRecords, NoEvent, IsSend
<1> HIDE DEF loop
<1>4. /\ more \in Seq(CallRecords) /\ Len(more) = n + 1 /\ DOMAIN more = 1..(n + 1)
      /\ (\A k \in 1..n : more[k] = calls[k]) /\ more[n + 1] = loop
      BY <1>1, <1>2, <1>3, AppendProperties, LenProperties
<1>5. Last(more) = loop /\ more # <<>>
      BY <1>2, <1>4 DEF Last
<1> HIDE DEF more
<1>6. n >= 1 => /\ calls # <<>> /\ n \in DOMAIN calls /\ calls[n].call = "handler"
                /\ Last(calls) = calls[n] /\ n - 1 >= 1 /\ calls[n - 1].call = "send"
      <2> SUFFICES ASSUME n >= 1
                   PROVE /\ calls # <<>> /\ n \in DOMAIN calls /\ calls[n].call = "handler"
                         /\ Last(calls) = calls[n] /\ n - 1 >= 1 /\ calls[n - 1].call = "send"
          OBVIOUS
      <2>1. calls # <<>>
            BY <1>1, EmptySeq
      <2>2. Last(calls) = calls[n]
            BY DEF Last
      <2>3. n \in DOMAIN calls /\ calls[n].call = "handler"
            BY <1>2, <2>1, <2>2
      <2>4. n > 1 /\ calls[n - 1].call = "send"
            BY <1>1, <2>3 DEF Nested
      <2>5. n - 1 >= 1
            BY <1>2, <2>4
      <2>6. QED BY <2>1, <2>2, <2>3, <2>4, <2>5
<1>7. n = 0 \/ n >= 1
      BY <1>2
<1> HIDE DEF n
<1>8. ASSUME NEW k \in DOMAIN more
      PROVE /\ more[k].call = "handler" <=> k > 1 /\ more[k - 1].call = "send"
            /\ more[k].call = "send" => k < Len(more)
            /\ more[k].call \in {"loop", "polled"} => k = 1 \/ more[k - 1].call = "handler"
            /\ more[k].call = "handler" => more[k].event \in DOMAIN ps
            /\ more[k].call # "handler" => more[k].event = NoEvent
      <2>1. CASE k \in 1..n
            <3>1. /\ calls[k].call = "handler" <=> k > 1 /\ calls[k - 1].call = "send"
                  /\ calls[k].call = "send" => k < Len(calls)
                  /\ calls[k].call \in {"loop", "polled"} => k = 1 \/ calls[k - 1].call = "handler"
                  /\ calls[k].call = "handler" => calls[k].event \in DOMAIN ps
                  /\ calls[k].call # "handler" => calls[k].event = NoEvent
                  BY <1>1, <1>2, <2>1 DEF Nested
            <3>2. more[k] = calls[k] /\ (k > 1 => more[k - 1] = calls[k - 1]) /\ (k = 1 \/ k > 1)
                  <4>1. k > 1 => k - 1 \in 1..n
                        BY <1>2, <2>1
                  <4>2. k = 1 \/ k > 1
                        BY <1>2, <2>1
                  <4>3. QED BY <1>4, <2>1, <4>1, <4>2
            <3>3. k < Len(more)
                  BY <1>2, <1>4, <2>1
            <3>4. QED BY <3>1, <3>2, <3>3
      <2>2. CASE k = n + 1
            <3>1. more[k].call = "loop" /\ more[k].event = NoEvent
                  BY <1>3, <1>4, <2>2
            <3>2. CASE n = 0
                  BY <3>1, <3>2, <2>2
            <3>3. CASE n >= 1
                  <4>1. n \in 1..n /\ k - 1 = n
                        BY <1>2, <2>2, <3>3
                  <4>2. more[k - 1].call = "handler"
                        BY <1>4, <1>6, <3>3, <4>1
                  <4>3. QED BY <3>1, <4>2
            <3>4. QED BY <1>7, <3>2, <3>3
      <2>3. QED BY <1>2, <1>4, <2>1, <2>2
<1>9. Nested(more, ps)
      BY <1>8 DEF Nested
<1>10. \A k \in DOMAIN more : IsSend(more[k]) => k \in DOMAIN calls /\ more[k] = calls[k]
       BY <1>2, <1>3, <1>4
<1>11. \A k \in DOMAIN calls : k \in DOMAIN more /\ more[k] = calls[k]
       BY <1>2, <1>4
<1>12. Offsets(d, more)
       BY <1>1, <1>10, <1>11 DEF Offsets
<1>13. ASSUME NEW k \in DOMAIN more PROVE HasPassed(d, more[k], ps)
       <2>1. CASE IsSend(more[k])
             BY <1>1, <1>10, <2>1
       <2>2. CASE ~IsSend(more[k])
             BY <2>2 DEF HasPassed
       <2>3. QED BY <2>1, <2>2
<1>14. Remembered(d, more, ps)
       <2>1. Innermost(more) = n - 1
             <3>1. Innermost(more) = n + 1 - 2
                   BY <1>2, <1>3, <1>4, <1>5 DEF Innermost
             <3>2. QED BY <1>2, <3>1
       <2>2. CASE n = 0
             <3>1. calls = <<>>
                   BY <1>1, <2>2, EmptySeq DEF n
             <3>2. Innermost(calls) = 0
                   BY <3>1 DEF Innermost
             <3>3. NoneLeft(d, ps)
                   BY <1>1, <3>2 DEF Remembered
             <3>4. Innermost(more) < 1
                   BY <2>1, <2>2
             <3>5. QED BY <3>3, <3>4 DEF Remembered
       <2>3. CASE n >= 1
             <3>1. Innermost(calls) = n - 1
                   BY <1>6, <2>3 DEF Innermost, n
             <3>2. ~(n - 1 < 1) /\ n - 1 \in 1..n
                   BY <1>2, <1>6, <2>3
             <3>3. more[n - 1] = calls[n - 1]
                   BY <1>4, <3>2
             <3>4. QED BY <1>1, <2>1, <3>1, <3>2, <3>3 DEF Remembered
       <2>4. QED BY <1>7, <2>2, <2>3
<1>15. ThreadGood(d, more, ps)
       BY <1>1, <1>4, <1>9, <1>12, <1>13, <1>14 DEF ThreadGood
<1>16. ASSUME NEW k \in DOMAIN more, more[k].event # NoEvent
       PROVE  /\ k \in DOMAIN calls /\ more[k].event = calls[k].event
              /\ Level(more, k) = Level(calls, k)
       <2>1. k \in DOMAIN calls /\ more[k] = calls[k]
             BY <1>2, <1>3, <1>4, <1>16
       <2>2. Below(calls, more)
             BY <1>11 DEF Below
       <2>3. QED BY <1>1, <1>4, <2>1, <2>2, BelowLevel
<1>17. QED BY <1>15, <1>16 DEF more, loop

LEMMA EnterLoopStep ==
  ASSUME IInv, NEW t \in Threads, EnterLoop(t)
  PROVE  IInv'
<1> DEFINE d == data[t]
           calls == stack[t]
           more == Append(calls, Call("loop"))
<1>1. /\ stack' = [stack EXCEPT ![t] = more]
      /\ UNCHANGED <<data, home, postedEvents, poster, posts, removed>>
      BY DEF EnterLoop
<1>2. ThreadGood(d, calls, posts) /\ data \in [Threads -> DataRecords]
      BY DEF IInv, Types
<1>3. calls = <<>> \/ Last(calls).call = "handler"
      BY DEF EnterLoop, InCode, Top
<1>4. data' = [data EXCEPT ![t] = d]
      BY <1>1, <1>2
<1> HIDE DEF d, calls
<1>5. /\ ThreadGood(d, more, posts)
      /\ \A k \in DOMAIN more : more[k].event # NoEvent =>
           /\ k \in DOMAIN stack[t] /\ more[k].event = stack[t][k].event
           /\ Level(more, k) = Level(stack[t], k)
      BY <1>2, <1>3, LoopEntered DEF calls
<1> HIDE DEF more
<1>6. d.list = data[t].list
      BY DEF d
<1>7. UNCHANGED <<home, postedEvents, poster, posts, removed>>
      BY <1>1
<1>8. stack' = [stack EXCEPT ![t] = more]
      BY <1>1
<1>9. QED BY <1>4, <1>5, <1>6, <1>7, <1>8, CallsStep

LEMMA LoopLeft ==
  ASSUME NEW d, NEW calls, NEW ps, ThreadGood(d, calls, ps), calls # <<>>,
         Last(calls).call \in {"loop", "polled"}
  PROVE  LET less == Front(calls)
         IN  /\ ThreadGood(d, less, ps)
             /\ \A k \in DOMAIN less : less[k].event # NoEvent =>
                  /\ k \in DOMAIN calls /\ less[k].event = calls[k].event
                  /\ Level(less, k) = Level(calls, k)
<1> DEFINE n == Len(calls)
           m == n - 1
           less == SubSeq(calls, 1, m)
<1>1. /\ DataGood(d, ps) /\ calls \in Seq(CallRecords) /\ Nested(calls, ps)
      /\ Offsets(d, calls) /\ Remembered(d, calls, ps)
      /\ \A k \in DOMAIN calls : HasPassed(d, calls[k], ps)
      BY DEF ThreadGood
<1>2. n \in Nat /\ DOMAIN calls = 1..n /\ n # 0
      BY <1>1, LenProperties, EmptySeq
<1>3. Last(calls) = calls[n]
      BY DEF Last
<1>4. Front(calls) = less
      BY DEF Front
<1> HIDE DEF n, less
<1>5. n \in DOMAIN calls /\ calls[n].call \in {"loop", "polled"} /\ m \in Nat /\ m <= n /\ m + 1 = n
      BY <1>2, <1>3
<1> HIDE DEF m
<1>6. /\ less \in Seq(CallRecords) /\ Len(less) = m /\ DOMAIN less = 1..m
      /\ \A k \in 1..m : k \in DOMAIN calls /\ less[k] = calls[k]
      /\ Nested(less, ps) /\ Below(less, calls)
      <2>1. calls[m + 1].call # "handler" /\ m <= Len(calls)
            BY <1>5 DEF n
      <2>2. QED BY <1>1, <1>5, <2>1, FirstCalls DEF less
<1>7. \A k \in DOMAIN calls : IsSend(calls[k]) => k \in DOMAIN less /\ less[k] = calls[k]
      <2>1. ASSUME NEW k \in DOMAIN calls, IsSend(calls[k]) PROVE k \in 1..m
            <3>1. k # n
                  BY <1>5, <2>1 DEF IsSend
            <3>2. QED BY <1>2, <1>5, <3>1
      <2>2. QED BY <1>6, <2>1
<1>8. Offsets(d, less)
      BY <1>1, <1>6, <1>7 DEF Offsets
<1>9. \A k \in DOMAIN less : HasPassed(d, less[k], ps)
      BY <1>1, <1>6
<1>10. Innermost(calls) < 1 => NoneLeft(d, ps)
       BY <1>1 DEF Remembered
<1>11. Remembered(d, less, ps)
       <2>1. CASE m = 0
             <3>1. less = <<>>
                   BY <1>6, <2>1, EmptySeq
             <3>2. Innermost(less) = 0
                   BY <3>1 DEF Innermost
             <3>3. Innermost(calls) < 1
                   <4>1. Innermost(calls) \in {0, n - 2}
                         BY <1>3, <1>5 DEF Innermost, n
                   <4>2. n - 2 < 1
                         BY <1>2, <1>5, <2>1
                   <4>3. QED BY <4>1, <4>2
             <3>4. QED BY <1>10, <3>2, <3>3 DEF Remembered
       <2>2. CASE m # 0
             <3>1. m \in 1..m /\ n # 1 /\ n - 1 = m
                   BY <1>2, <1>5, <2>2
             <3>2. calls[m].call = "handler" /\ less[m] = calls[m] /\ m \in DOMAIN calls
                   BY <1>1, <1>5, <1>6, <3>1 DEF Nested
             <3>3. m > 1
                   BY <1>1, <3>2 DEF Nested
             <3>4. less # <<>> /\ Last(less) = less[m]
                   BY <1>6, <2>2 DEF Last
             <3>5. Innermost(less) = m - 1
                   BY <1>6, <3>2, <3>4 DEF Innermost
             <3>6. ~(m - 1 < 1) /\ m - 1 \in 1..m /\ n - 2 = m - 1
                   BY <1>2, <1>5, <3>3
             <3>7. less[m - 1] = calls[m - 1]
                   BY <1>6, <3>6
             <3>8. CASE calls[n].call = "loop"
                   <4>1. Innermost(calls) = n - 2
                         BY <1>3, <3>8 DEF Innermost, n
                   <4>2. WillCome(d, calls[m - 1], ps)
                         BY <1>1, <3>6, <4>1 DEF Remembered
                   <4>3. QED BY <3>5, <3>6, <3>7, <4>2 DEF Remembered
             <3>9. CASE calls[n].call = "polled"
                   <4>1. Innermost(calls) = 0
                         BY <1>3, <3>9 DEF Innermost, n
                   <4>2. NoneLeft(d, ps)
                         BY <1>10, <4>1
                   <4>3. WillCome(d, less[m - 1], ps)
                         BY <4>2 DEF NoneLeft, WillCome
                   <4>4. QED BY <3>5, <3>6, <4>3 DEF Remembered
             <3>10. QED BY <1>5, <3>8, <3>9
       <2>3. QED BY <2>1, <2>2
<1>12. ThreadGood(d, less, ps)
       BY <1>1, <1>6, <1>8, <1>9, <1>11 DEF ThreadGood
<1>13. \A k \in DOMAIN less : /\ k \in DOMAIN calls /\ less[k].event = calls[k].event
                              /\ Level(less, k) = Level(calls, k)
       BY <1>1, <1>6, BelowLevel
<1>14. QED BY <1>4, <1>12, <1>13

LEMMA LeaveLoopStep ==
  ASSUME IInv, NEW t \in Threads, LeaveLoop(t)
  PROVE  IInv'
<1> DEFINE d == data[t]
           calls == stack[t]
           less == Front(calls)
<1>1. /\ stack' = [stack EXCEPT ![t] = less]
      /\ UNCHANGED <<data, home, postedEvents, poster, posts, removed>>
      BY DEF LeaveLoop
<1>2. ThreadGood(d, calls, posts) /\ data \in [Threads -> DataRecords]
      BY DEF IInv, Types
<1>3. calls # <<>> /\ Last(calls).call \in {"loop", "polled"}
      BY DEF LeaveLoop, Top, Call
<1>4. data' = [data EXCEPT ![t] = d]
      BY <1>1, <1>2
<1> HIDE DEF d, calls
<1>5. /\ ThreadGood(d, less, posts)
      /\ \A k \in DOMAIN less : less[k].event # NoEvent =>
           /\ k \in DOMAIN stack[t] /\ less[k].event = stack[t][k].event
           /\ Level(less, k) = Level(stack[t], k)
      BY <1>2, <1>3, LoopLeft DEF calls
<1> HIDE DEF less
<1>6. d.list = data[t].list
      BY DEF d
<1>7. UNCHANGED <<home, postedEvents, poster, posts, removed>>
      BY <1>1
<1>8. stack' = [stack EXCEPT ![t] = less]
      BY <1>1
<1>9. QED BY <1>4, <1>5, <1>6, <1>7, <1>8, CallsStep

-----------------------------------------------------------------------------
(* postEvent() *)

\* Only what the posters are posting changes.
LEMMA PosterStep ==
  ASSUME IInv, poster' \in [Posters -> PosterRecords], Addressed',
         UNCHANGED <<data, stack, home, postedEvents, posts, removed>>
  PROVE  IInv'
<1>1. UNCHANGED <<Waiting, posts>>
      BY DEF Waiting, Waits
<1>2. Types'
      BY DEF IInv, Types
<1>3. \A t \in Threads : ThreadGood(data'[t], stack'[t], posts')
      BY DEF IInv
<1>4. AtHome'
      BY DEF IInv, AtHome, Waits
<1>5. Counted'
      BY <1>1 DEF IInv, Counted, Mail
<1>6. HandledOnce'
      BY <1>1 DEF IInv, HandledOnce
<1>7. Noted'
      BY <1>1 DEF IInv, Noted
<1>8. QED BY <1>2, <1>3, <1>4, <1>5, <1>6, <1>7 DEF IInv

LEMMA ReadThreadDataStep ==
  ASSUME IInv, NEW p \in Posters, NEW o \in Objects, ReadThreadData(p, o)
  PROVE  IInv'
<1> DEFINE r == [receiver |-> o, data |-> home[o]]
<1>1. /\ poster' = [poster EXCEPT ![p] = r] /\ home[o] # NoThread
      /\ UNCHANGED <<data, stack, home, postedEvents, posts, removed>>
      BY DEF ReadThreadData
<1>2. poster \in [Posters -> PosterRecords] /\ home \in [Objects -> Threads \cup {NoThread}]
      BY DEF IInv, Types
<1>3. r \in PosterRecords /\ r.receiver = o
      BY <1>2 DEF PosterRecords
<1> HIDE DEF r
<1>4. poster' \in [Posters -> PosterRecords]
      BY <1>1, <1>2, <1>3
<1>5. Addressed'
      <2>1. ASSUME NEW q \in Posters, poster'[q] # Idle
            PROVE  poster'[q].receiver \in Objects /\ home'[poster'[q].receiver] # NoThread
            <3>1. CASE q = p
                  BY <1>1, <1>2, <1>3, <3>1
            <3>2. CASE q # p
                  <4>1. poster'[q] = poster[q]
                        BY <1>1, <1>2, <3>2
                  <4>2. QED BY <1>1, <2>1, <4>1 DEF IInv, Addressed
            <3>3. QED BY <3>1, <3>2
      <2>2. QED BY <2>1 DEF Addressed
<1>6. QED BY <1>1, <1>4, <1>5, PosterStep

LEMMA FollowStep ==
  ASSUME IInv, NEW p \in Posters, Follow(p)
  PROVE  IInv'
<1> DEFINE r == [poster[p] EXCEPT !.data = home[poster[p].receiver]]
<1>1. /\ poster' = [poster EXCEPT ![p].data = home[poster[p].receiver]] /\ poster[p] # Idle
      /\ UNCHANGED <<data, stack, home, postedEvents, posts, removed>>
      BY DEF Follow
<1>2. poster' = [poster EXCEPT ![p] = r]
      BY <1>1
<1>3. poster \in [Posters -> PosterRecords] /\ home \in [Objects -> Threads \cup {NoThread}]
      BY DEF IInv, Types
<1>4. poster[p].receiver \in Objects /\ home[poster[p].receiver] # NoThread
      BY <1>1 DEF IInv, Addressed
<1>5. r \in PosterRecords /\ r.receiver = poster[p].receiver
      BY <1>3, <1>4 DEF PosterRecords
<1> HIDE DEF r
<1>6. poster' \in [Posters -> PosterRecords]
      BY <1>2, <1>3, <1>5
<1>7. Addressed'
      <2>1. ASSUME NEW q \in Posters, poster'[q] # Idle
            PROVE  poster'[q].receiver \in Objects /\ home'[poster'[q].receiver] # NoThread
            <3>1. CASE q = p
                  BY <1>1, <1>2, <1>3, <1>4, <1>5, <3>1
            <3>2. CASE q # p
                  <4>1. poster'[q] = poster[q]
                        BY <1>2, <1>3, <3>2
                  <4>2. QED BY <1>1, <2>1, <4>1 DEF IInv, Addressed
            <3>3. QED BY <3>1, <3>2
      <2>2. QED BY <2>1 DEF Addressed
<1>8. QED BY <1>1, <1>6, <1>7, PosterStep

\* The event of a handler was posted.
LEMMA HandlerKnown ==
  ASSUME IInv, NEW t \in Threads, NEW k \in DOMAIN stack[t], stack[t][k].event # NoEvent
  PROVE  stack[t][k].call = "handler" /\ stack[t][k].event \in DOMAIN posts
<1>1. Nested(stack[t], posts)
      BY DEF IInv, ThreadGood
<1>2. QED BY <1>1 DEF Nested

\* Who calls deleteLater(), and the level it notes
KnownAsker(asker, level) ==
  asker # NoEvent =>
    /\ asker \in DOMAIN posts \ Waiting /\ level >= 1
    /\ \A u \in Threads : \A k \in DOMAIN stack[u] :
         stack[u][k].event = asker => Level(stack[u], k) = level

\* postEvent() adds an event to those that wait, or drops it.
PostedFor(o) ==
  \/ posts' = posts /\ Waiting' = Waiting
  \/ /\ \E post \in PostRecords : post.receiver = o /\ posts' = Append(posts, post)
     /\ Waiting' = Waiting \cup {Len(posts) + 1}

LEMMA PostedStep ==
  ASSUME IInv, NEW t \in Threads, NEW o \in Objects, NEW kind \in Kinds, NEW level \in Nat,
         NEW asker \in Nat, KnownAsker(asker, level), asker # NoEvent => kind.type = "delete",
         home[o] = t,
         Posted(t, o, kind, level, asker), UNCHANGED <<stack, home, removed>>,
         poster' \in [Posters -> PosterRecords], \A p \in Posters : poster'[p] \in {poster[p], Idle}
  PROVE  IInv' /\ PostedFor(o)
<1>1. Addressed'
      BY DEF IInv, Addressed
<1>2. CASE Compressed(t, o, kind.type)
      <2>1. UNCHANGED <<data, stack, home, postedEvents, posts, removed>>
            BY <1>2 DEF Posted
      <2>2. Waiting' = Waiting
            BY <2>1 DEF Waiting, Waits
      <2>3. QED BY <1>1, <2>1, <2>2, PosterStep DEF PostedFor
<1>3. CASE ~Compressed(t, o, kind.type)
      <2> DEFINE post == [receiver |-> o, type |-> kind.type, priority |-> kind.priority,
                          level |-> level, asker |-> asker]
                 new == Len(posts) + 1
                 more == Append(posts, post)
                 pe == [receiver |-> o, event |-> new, priority |-> kind.priority]
                 old == data[t]
                 d == [old EXCEPT !.list = addEvent(old.list, old.insertionOffset, pe),
                                  !.canWait = FALSE]
      <2>1. posts' = more /\ postedEvents' = [postedEvents EXCEPT ![o] = @ + 1]
            <3>1. posts' = more
                  BY <1>3, Zenon DEF Posted
            <3>2. postedEvents' = [postedEvents EXCEPT ![o] = @ + 1]
                  BY <1>3, Zenon DEF Posted
            <3>3. QED BY <3>1, <3>2
      <2>2. data' = [data EXCEPT ![t] = d]
            <3>1. data' = [data EXCEPT ![t].list = addEvent(data[t].list, data[t].insertionOffset, pe),
                                       ![t].canWait = FALSE]
                  BY <1>3 DEF Posted
            <3> DEFINE longer == addEvent(old.list, old.insertionOffset, pe)
            <3>2. data' = [data EXCEPT ![t].list = longer, ![t].canWait = FALSE]
                  BY <3>1
            <3> HIDE DEF longer
            <3>3. data' = [data EXCEPT ![t] = [old EXCEPT !.list = longer, !.canWait = FALSE]]
                  BY <3>2 DEF IInv, Types
            <3>4. QED BY <3>3 DEF longer
      <2>3. kind.type \in {"ordinary", "delete"} /\ kind.priority \in Priorities
            BY EventsAssumption DEF Kinds
      <2>4. post \in PostRecords
            BY <2>3 DEF PostRecords
      <2>5. /\ Len(posts) \in Nat /\ DOMAIN posts = 1..Len(posts) /\ Waiting \subseteq DOMAIN posts
            /\ IsFiniteSet(Waiting) /\ posts \in Seq(PostRecords)
            BY WaitingKnown DEF IInv, Types
      <2>6. pe \in Entries /\ pe.event = new /\ pe.receiver = o /\ pe.priority = kind.priority
            BY <2>3, <2>5 DEF Entries
      <2>7. post.receiver = o /\ post.priority = kind.priority /\ post.asker = asker
            /\ post.level = level /\ post.type = kind.type
            OBVIOUS
      <2> HIDE DEF post, pe
      <2>8. /\ more \in Seq(PostRecords) /\ DOMAIN more = DOMAIN posts \cup {new}
            /\ more[new] = post /\ \A e \in DOMAIN posts : more[e] = posts[e]
            <3>1. /\ more \in Seq(PostRecords) /\ Len(more) = Len(posts) + 1
                  /\ \A e \in 1..Len(posts) : more[e] = posts[e]
                  /\ more[new] = post
                  BY <2>4, <2>5, AppendProperties
            <3>2. DOMAIN more = 1..(Len(posts) + 1)
                  BY <3>1, LenProperties
            <3>3. QED BY <2>5, <3>1, <3>2
      <2>9. new \in Nat /\ new # NoEvent /\ new \notin DOMAIN posts /\ \A e \in DOMAIN posts : e < new
            BY <2>5 DEF NoEvent
      <2> HIDE DEF new, more
      <2>10. \A u \in Threads : ThreadGood(data[u], stack[u], more)
             <3>1. Extends(posts, more)
                   BY <2>8 DEF Extends
             <3>2. QED BY <3>1, ExtendsThread DEF IInv
      <2>11. /\ old \in DataRecords /\ old.list \in Seq(Entries) /\ old.insertionOffset \in Nat
             /\ Sorted(old.list, old.insertionOffset) /\ ThreadGood(old, stack[t], more)
             <3>1. old \in DataRecords /\ Sorted(old.list, old.insertionOffset)
                   BY DEF IInv, ThreadGood, DataGood
             <3>2. QED BY <2>10, <3>1, DataFields
      <2>12. Events(old.list) \subseteq DOMAIN posts
             BY <2>5 DEF Waiting, Waits
      <2> HIDE DEF old
      <2>13. PICK i : Adds(old.list, addEvent(old.list, old.insertionOffset, pe),
                           old.insertionOffset, pe, i)
             BY <2>6, <2>11, AddEventAdds
      <2>14. addEvent(old.list, old.insertionOffset, pe) \in Seq(Entries)
             BY <2>13 DEF Adds
      <2>15. /\ d.list = addEvent(old.list, old.insertionOffset, pe)
             /\ OtherList(old, d) /\ ~d.canWait
             BY <2>11, <2>14 DEF OtherList, DataRecords
      <2> HIDE DEF d
      <2>16. ThreadGood(d, stack[t], more) /\ Events(d.list) = Events(old.list) \cup {new}
             <3>1. Agrees(pe, more)
                   BY <2>6, <2>7, <2>8 DEF Agrees
             <3>2. pe.event # NoEvent /\ pe.event \notin Events(old.list)
                   /\ \A f \in Events(old.list) : f < pe.event
                   BY <2>6, <2>9, <2>12
             <3>3. Adds(old.list, d.list, old.insertionOffset, pe, i)
                   BY <2>13, <2>15
             <3>4. ThreadGood(old, stack[t], more)
                   BY <2>11
             <3>5. OtherList(old, d) /\ ~d.canWait
                   BY <2>15
             <3>6. pe \in Entries
                   BY <2>6
             <3>7. \A f \in Events(old.list) : SameRank(f, pe.event, more) => f < pe.event
                   BY <3>2
             <3>8. ThreadGood(d, stack[t], more) /\ Events(d.list) = Events(old.list) \cup {pe.event}
                   BY <3>1, <3>2, <3>3, <3>4, <3>5, <3>6, <3>7, AddsThread
             <3>9. QED BY <2>6, <3>8
      <2>17. data \in [Threads -> DataRecords] /\ stack \in [Threads -> Seq(CallRecords)]
             BY DEF IInv, Types
      <2>18. data'[t] = d /\ \A u \in Threads : u # t => data'[u] = data[u]
             BY <2>2, <2>17
      <2>19. \A u \in Threads : ThreadGood(data'[u], stack'[u], posts')
             BY <2>1, <2>10, <2>16, <2>18
      <2>20. Waits(t)' = Waits(t) \cup {new} /\ \A u \in Threads : u # t => Waits(u)' = Waits(u)
             BY <2>16, <2>18 DEF Waits, old
      <2>21. Waiting' = Waiting \cup {new}
             <3>1. \A e : e \in Waiting' <=> \E u \in Threads : e \in Waits(u)'
                   BY DEF Waiting
             <3>2. \A e : e \in Waiting <=> \E u \in Threads : e \in Waits(u)
                   BY DEF Waiting
             <3>3. \A e : e \in Waiting' <=> e \in Waiting \cup {new}
                   BY <2>20, <3>1, <3>2
             <3>4. QED BY <3>3
      <2>22. AtHome'
             <3>1. \A u \in Threads : \A e \in Waits(u) : home[posts[e].receiver] = u
                   BY DEF IInv, AtHome
             <3>2. \A u \in Threads : Waits(u) \subseteq DOMAIN posts
                   BY <2>5 DEF Waiting
             <3>3. ASSUME NEW u \in Threads, NEW e \in Waits(u)'
                   PROVE  home'[posts'[e].receiver] = u
                   <4>1. CASE e = new
                         <5>1. u = t
                               BY <2>9, <2>20, <3>2, <4>1
                         <5>2. QED BY <2>1, <2>7, <2>8, <4>1, <5>1
                   <4>2. CASE e # new
                         <5>1. e \in Waits(u)
                               BY <2>20, <4>2
                         <5>2. posts'[e] = posts[e]
                               BY <2>1, <2>8, <3>2, <5>1
                         <5>3. QED BY <3>1, <5>1, <5>2
                   <4>3. QED BY <4>1, <4>2
             <3>4. QED BY <3>3 DEF AtHome
      <2>23. Mail(o)' = Mail(o) \cup {new} /\ \A x \in Objects : x # o => Mail(x)' = Mail(x)
             <3>1. \A e \in Waiting : posts'[e] = posts[e]
                   BY <2>1, <2>5, <2>8
             <3>2. posts'[new].receiver = o
                   BY <2>1, <2>7, <2>8
             <3>3. QED BY <2>21, <3>1, <3>2 DEF Mail
      <2>24. Counted' /\ postedEvents' \in [Objects -> Int]
             <3>1. postedEvents \in [Objects -> Int] /\ \A x \in Objects : postedEvents[x] = Cardinality(Mail(x))
                   BY DEF IInv, Types, Counted
             <3>2. IsFiniteSet(Mail(o)) /\ new \notin Mail(o)
                   BY <2>5, <2>9, FS_Subset DEF Mail
             <3>3. Cardinality(Mail(o) \cup {new}) = Cardinality(Mail(o)) + 1
                   BY <3>2, FS_AddElement
             <3>4. postedEvents'[o] = Cardinality(Mail(o)')
                   BY <2>1, <2>23, <3>1, <3>3
             <3>5. \A x \in Objects : postedEvents'[x] = Cardinality(Mail(x)')
                   BY <2>1, <2>23, <3>1, <3>4
             <3>6. postedEvents' \in [Objects -> Int]
                   BY <2>1, <3>1
             <3>7. QED BY <3>5, <3>6 DEF Counted
      <2>25. HandledOnce'
             <3>1. \A u \in Threads : \A k \in DOMAIN stack[u] :
                     stack[u][k].event # NoEvent => stack[u][k].event # new
                   BY <2>9, HandlerKnown
             <3>2. QED BY <2>21, <3>1 DEF IInv, HandledOnce
      <2>26. Noted'
             <3>1. ASSUME NEW e \in DOMAIN posts', posts'[e].asker # NoEvent
                   PROVE  /\ posts'[e].type = "delete"
                          /\ posts'[e].asker \in DOMAIN posts' \ Waiting' /\ posts'[e].level >= 1
                          /\ \A u \in Threads : \A k \in DOMAIN stack'[u] :
                               stack'[u][k].event = posts'[e].asker
                                 => Level(stack'[u], k) = posts'[e].level
                   <4>1. CASE e = new
                         <5>1. posts'[e].asker = asker /\ posts'[e].level = level
                               /\ posts'[e].type = kind.type
                               BY <2>1, <2>7, <2>8, <4>1
                         <5>2. QED BY <2>1, <2>8, <2>9, <2>21, <3>1, <5>1 DEF KnownAsker
                   <4>2. CASE e # new
                         <5>1. e \in DOMAIN posts /\ posts'[e] = posts[e]
                               BY <2>1, <2>8, <4>2
                         <5>2. /\ posts[e].type = "delete"
                               /\ posts[e].asker \in DOMAIN posts \ Waiting /\ posts[e].level >= 1
                               /\ \A u \in Threads : \A k \in DOMAIN stack[u] :
                                    stack[u][k].event = posts[e].asker
                                      => Level(stack[u], k) = posts[e].level
                               BY <3>1, <5>1 DEF IInv, Noted
                         <5>3. QED BY <2>1, <2>8, <2>9, <2>21, <5>1, <5>2
                   <4>3. QED BY <4>1, <4>2
             <3>2. QED BY <3>1 DEF Noted
      <2>27. Types'
             <3>1. d \in DataRecords
                   BY <2>15 DEF OtherList
             <3>2. data' \in [Threads -> DataRecords]
                   BY <2>2, <2>17, <3>1
             <3>3. /\ stack' \in [Threads -> Seq(CallRecords)]
                   /\ home' \in [Objects -> Threads \cup {NoThread}] /\ removed' \subseteq DOMAIN posts
                   BY DEF IInv, Types
             <3>4. posts' \in Seq(PostRecords) /\ removed' \subseteq DOMAIN posts'
                   BY <2>1, <2>8, <3>3
             <3>5. QED BY <2>24, <3>2, <3>3, <3>4 DEF Types
      <2>28. PostedFor(o)
             <3>1. Waiting' = Waiting \cup {Len(posts) + 1} /\ posts' = Append(posts, post)
                   BY <2>1, <2>21 DEF new, more
             <3>2. QED BY <2>4, <2>7, <3>1 DEF PostedFor
      <2>29. QED BY <1>1, <2>19, <2>22, <2>24, <2>25, <2>26, <2>27, <2>28 DEF IInv
<1>4. QED BY <1>2, <1>3

\* The handler on top knows its level.
LEMMA TopLevel ==
  ASSUME IInv, NEW t \in Threads, stack[t] = <<>> \/ Top(t).call = "handler"
  PROVE  /\ loopLevel(stack[t]) \in Nat /\ Top(t).event \in Nat
         /\ KnownAsker(Top(t).event, loopLevel(stack[t]))
<1>1. CASE stack[t] = <<>>
      <2>1. Top(t).event = NoEvent
            BY <1>1 DEF Top, Call
      <2>2. {k \in DOMAIN stack[t] : stack[t][k].call \in Levels} = {}
            BY <1>1
      <2> DEFINE none == {k \in DOMAIN stack[t] : stack[t][k].call \in Levels}
      <2>3. loopLevel(stack[t]) = Cardinality(none)
            BY DEF loopLevel, Depth, Levels
      <2> HIDE DEF none
      <2>4. loopLevel(stack[t]) = 0
            BY <2>2, <2>3, FS_EmptySet DEF none
      <2>5. QED BY <2>1, <2>4 DEF KnownAsker, NoEvent
<1>2. CASE stack[t] # <<>>
      <2> DEFINE n == Len(stack[t])
                 levels == {k \in DOMAIN stack[t] : stack[t][k].call \in Levels}
      <2>1. /\ stack[t] \in Seq(CallRecords) /\ n \in Nat /\ n \in DOMAIN stack[t] /\ n >= 1
            /\ DOMAIN stack[t] = 1..n /\ Top(t) = stack[t][n]
            BY <1>2, LastCall
      <2>2. stack[t][n].call = "handler" /\ stack[t][n].event \in Nat
            BY <1>2, <2>1, CallFields
      <2>3. loopLevel(stack[t]) = Cardinality(levels)
            BY DEF loopLevel, Depth, Levels
      <2>4. Level(stack[t], n) = Cardinality(levels)
            <3>1. levels = {k \in DOMAIN stack[t] : k <= n /\ stack[t][k].call \in Levels}
                  BY <2>1
            <3>2. QED BY <3>1 DEF Level, Levels
      <2>5. n \in levels /\ levels \subseteq 1..n
            BY <2>1, <2>2 DEF Levels
      <2> HIDE DEF n, levels
      <2>6. IsFiniteSet(levels)
            <3>1. IsFiniteSet(1..n)
                  BY <2>1, FS_Interval
            <3>2. QED BY <2>5, <3>1, FS_Subset
      <2>7. Cardinality(levels) \in Nat /\ Cardinality(levels) # 0
            BY <2>5, <2>6, FS_EmptySet, FS_CardinalityType
      <2>8. ASSUME stack[t][n].event # NoEvent
            PROVE  /\ stack[t][n].event \in DOMAIN posts \ Waiting
                   /\ \A u \in Threads : \A k \in DOMAIN stack[u] :
                        stack[u][k].event = stack[t][n].event => Level(stack[u], k) = Level(stack[t], n)
            <3>1. stack[t][n].event \in DOMAIN posts
                  BY <2>1, <2>8, HandlerKnown
            <3>2. /\ stack[t][n].event \notin Waiting
                  /\ \A u \in Threads : \A k \in DOMAIN stack[u] :
                       stack[t][n].event = stack[u][k].event => <<t, n>> = <<u, k>>
                  BY <2>1, <2>8 DEF IInv, HandledOnce
            <3>3. QED BY <3>1, <3>2
      <2>9. Cardinality(levels) >= 1
            BY <2>7
      <2>10. KnownAsker(stack[t][n].event, Cardinality(levels))
             BY <2>4, <2>8, <2>9 DEF KnownAsker
      <2>11. QED BY <2>1, <2>2, <2>3, <2>7, <2>10
<1>3. QED BY <1>1, <1>2

LEMMA PostHereStep ==
  ASSUME IInv, NEW t \in Threads, NEW o \in Objects, NEW kind \in Kinds, PostHere(t, o, kind)
  PROVE  IInv' /\ PostedFor(o)
<1>1. /\ home[o] = t /\ UNCHANGED <<stack, home, removed>> /\ poster' = poster
      /\ stack[t] = <<>> \/ Top(t).call = "handler"
      BY DEF PostHere, InCode
<1>2. poster' \in [Posters -> PosterRecords] /\ \A p \in Posters : poster'[p] \in {poster[p], Idle}
      BY <1>1 DEF IInv, Types
<1>3. CASE kind.type = "delete"
      <2>1. Posted(t, o, kind, loopLevel(stack[t]), Top(t).event)
            BY <1>3 DEF PostHere
      <2> DEFINE level == loopLevel(stack[t])
                 asker == Top(t).event
      <2>2. level \in Nat /\ asker \in Nat /\ KnownAsker(asker, level)
            BY <1>1, TopLevel
      <2> HIDE DEF level, asker
      <2>3. Posted(t, o, kind, level, asker)
            BY <2>1 DEF level, asker
      <2>4. QED BY <1>1, <1>2, <1>3, <2>2, <2>3, PostedStep
<1>4. CASE kind.type # "delete"
      <2>1. Posted(t, o, kind, 0, NoEvent)
            BY <1>4 DEF PostHere
      <2>2. 0 \in Nat /\ NoEvent \in Nat /\ KnownAsker(NoEvent, 0)
            BY DEF KnownAsker, NoEvent
      <2>3. ASSUME NEW level \in Nat, NEW asker \in Nat, level = 0, asker = NoEvent
            PROVE  IInv' /\ PostedFor(o)
            <3>1. KnownAsker(asker, level) /\ Posted(t, o, kind, level, asker)
                  BY <2>1, <2>2, <2>3
            <3>2. asker # NoEvent => kind.type = "delete"
                  BY <2>3
            <3>3. QED BY <1>1, <1>2, <3>1, <3>2, PostedStep
      <2>4. QED BY <2>2, <2>3
<1>5. QED BY <1>3, <1>4

LEMMA PostThereStep ==
  ASSUME IInv, NEW p \in Posters, NEW kind \in Kinds, PostThere(p, kind)
  PROVE  IInv' /\ PostedFor(poster[p].receiver)
<1> DEFINE o == poster[p].receiver
           t == poster[p].data
<1>1. /\ poster[p] # Idle /\ home[o] = t /\ Posted(t, o, kind, 0, NoEvent)
      /\ poster' = [poster EXCEPT ![p] = Idle] /\ UNCHANGED <<stack, home, removed>>
      BY DEF PostThere
<1>2. poster \in [Posters -> PosterRecords] /\ home \in [Objects -> Threads \cup {NoThread}]
      BY DEF IInv, Types
<1>3. o \in Objects /\ home[o] # NoThread
      BY <1>1 DEF IInv, Addressed
<1> HIDE DEF o, t
<1>4. t \in Threads
      BY <1>1, <1>2, <1>3
<1>5. Idle \in PosterRecords
      BY DEF Idle, PosterRecords
<1>6. poster' \in [Posters -> PosterRecords] /\ \A q \in Posters : poster'[q] \in {poster[q], Idle}
      BY <1>1, <1>2, <1>5
<1>7. 0 \in Nat /\ NoEvent \in Nat /\ KnownAsker(NoEvent, 0)
      BY DEF KnownAsker, NoEvent
<1>8. IInv' /\ PostedFor(o)
      BY <1>1, <1>3, <1>4, <1>6, <1>7, PostedStep
<1>9. QED BY <1>8 DEF o

-----------------------------------------------------------------------------
(* removePostedEvents() and the end of an object *)

Gone(list, o, type)       == {k \in DOMAIN list : Taken(list[k], o, type)}
GoneEvents(list, o, type) == {list[k].event : k \in Gone(list, o, type)}

\* What goes is counted by entries or by events.
LEMMA GoneCounted ==
  ASSUME NEW list \in Seq(Entries), ListGood(list, posts), NEW o \in Objects, NEW type
  PROVE  /\ Gone(list, o, type) \subseteq Filled(list)
         /\ IsFiniteSet(Gone(list, o, type))
         /\ GoneEvents(list, o, type) \subseteq Events(list)
         /\ \A e \in GoneEvents(list, o, type) : posts[e].receiver = o
         /\ \A k \in Filled(list) :
              list[k].event \in GoneEvents(list, o, type) <=> k \in Gone(list, o, type)
         /\ Cardinality(GoneEvents(list, o, type)) = Cardinality(Gone(list, o, type))
<1> DEFINE gone == Gone(list, o, type)
           events == GoneEvents(list, o, type)
           f == [k \in gone |-> list[k].event]
<1>1. gone \subseteq Filled(list)
      BY DEF Gone, Filled, Taken
<1>2. IsFiniteSet(gone)
      <2>1. Len(list) \in Nat /\ DOMAIN list = 1..Len(list)
            BY EntryFields
      <2>2. IsFiniteSet(1..Len(list))
            BY <2>1, FS_Interval
      <2>3. gone \subseteq 1..Len(list)
            BY <2>1 DEF Gone
      <2>4. QED BY <2>2, <2>3, FS_Subset
<1>3. events = {list[k].event : k \in gone}
      BY DEF GoneEvents
<1> HIDE DEF events
<1>4. events \subseteq Events(list)
      BY <1>1, <1>3 DEF Events
<1>5. \A i, j \in Filled(list) : list[i].event = list[j].event => i = j
      BY DEF ListGood
<1>6. \A e \in events : posts[e].receiver = o
      <2>1. ASSUME NEW k \in gone PROVE posts[list[k].event].receiver = o
            <3>1. list[k].receiver = o
                  BY DEF Gone, Taken
            <3>2. Agrees(list[k], posts)
                  BY <1>1 DEF ListGood
            <3>3. QED BY <3>1, <3>2 DEF Agrees
      <2>2. QED BY <1>3, <2>1
<1>7. \A k \in Filled(list) : list[k].event \in events <=> k \in gone
      BY <1>1, <1>3, <1>5
<1> HIDE DEF gone
<1>8. f \in Bijection(gone, events)
      <2>1. f \in [gone -> events] /\ \A k \in gone : f[k] = list[k].event
            BY <1>3
      <2>2. \A e \in events : \E k \in gone : f[k] = e
            BY <1>3, <2>1
      <2> HIDE DEF f
      <2>3. \A i, j \in gone : f[i] = f[j] => i = j
            BY <1>1, <1>5, <2>1
      <2>4. f \in Injection(gone, events)
            BY <2>1, <2>3 DEF Injection, IsInjective
      <2>5. f \in Surjection(gone, events)
            BY <2>1, <2>2 DEF Surjection
      <2>6. QED BY <2>4, <2>5 DEF Bijection
<1>9. Cardinality(events) = Cardinality(gone)
      <2>1. ExistsBijection(gone, events)
            BY <1>8 DEF ExistsBijection
      <2> HIDE DEF f
      <2>2. QED BY <1>2, <2>1, FS_Bijection
<1>10. QED BY <1>1, <1>2, <1>4, <1>6, <1>7, <1>9 DEF gone, events

LEMMA TakenOutEmpties ==
  ASSUME NEW list \in Seq(Entries), ListGood(list, posts), NEW o \in Objects, NEW type
  PROVE  LET q == TakenOut(list, o, type, TRUE)
         IN  Empties(list, q) /\ Events(q) = Events(list) \ GoneEvents(list, o, type)
<1> DEFINE gone == Gone(list, o, type)
           q == TakenOut(list, o, type, TRUE)
<1>1. q = [k \in DOMAIN list |-> IF k \in gone THEN Emptied(list[k]) ELSE list[k]]
      BY DEF TakenOut, Gone
<1> HIDE DEF q
<1>2. Len(list) \in Nat /\ DOMAIN list = 1..Len(list) /\ \A k \in DOMAIN list : list[k] \in Entries
      BY EntryFields
<1>3. \A k \in DOMAIN list : Emptied(list[k]) \in Entries /\ Emptied(list[k]).event = NoEvent
      BY <1>2 DEF Emptied, Entries, NoEvent
<1>4. DOMAIN q = DOMAIN list
      /\ \A k \in DOMAIN list : q[k] = IF k \in gone THEN Emptied(list[k]) ELSE list[k]
      BY <1>1
<1>5. q \in Seq(Entries) /\ Len(q) = Len(list)
      <2>1. q \in [1..Len(list) -> Entries]
            BY <1>1, <1>2, <1>3
      <2>2. QED BY <1>2, <2>1, LenProperties, SeqDef
<1>6. Empties(list, q)
      BY <1>4, <1>5 DEF Empties
<1>7. Filled(q) = Filled(list) \ gone
      BY <1>3, <1>4 DEF Filled
<1>8. Events(q) = Events(list) \ {list[k].event : k \in DOMAIN list \ Filled(q)}
      BY <1>6, EmptiesGood
<1> HIDE DEF gone
<1>9. \A k \in Filled(list) : list[k].event \in GoneEvents(list, o, type) <=> k \in gone
      BY GoneCounted DEF gone
<1>10. Events(q) = {list[k].event : k \in Filled(list) \ gone}
       <2>1. \A k \in Filled(q) : q[k] = list[k]
             BY <1>4, <1>7 DEF Filled
       <2>2. QED BY <1>7, <2>1 DEF Events
<1>11. Events(q) = Events(list) \ GoneEvents(list, o, type)
       <2>1. \A e : e \in Events(q) <=> e \in Events(list) \ GoneEvents(list, o, type)
             BY <1>9, <1>10 DEF Events
       <2>2. QED BY <2>1
<1>12. QED BY <1>6, <1>11 DEF q

LEMMA TakenOutThins ==
  ASSUME NEW list \in Seq(Entries), ListGood(list, posts), NEW o \in Objects, NEW type
  PROVE  LET q == TakenOut(list, o, type, FALSE)
         IN  /\ \E g : Thins(g, list, q)
             /\ Events(q) = Events(list) \ GoneEvents(list, o, type)
<1> DEFINE gone == Gone(list, o, type)
           K == DOMAIN list \ gone
           q == TakenOut(list, o, type, FALSE)
<1>1. q = Selected(list, K)
      BY DEF TakenOut, Gone
<1> HIDE DEF q
<1>2. q \in Seq(Entries) /\ \E g : Picks(g, list, q, K)
      BY <1>1, SelectedPicks
<1>3. PICK g : Picks(g, list, q, K)
      BY <1>2
<1>4. /\ g \in [DOMAIN q -> K] /\ \A i, j \in DOMAIN q : i < j => g[i] < g[j]
      /\ \A k \in K : \E i \in DOMAIN q : g[i] = k
      /\ \A i \in DOMAIN q : q[i] = list[g[i]] /\ g[i] \in K
      BY <1>3 DEF Picks
<1>5. Thins(g, list, q)
      BY <1>2, <1>4 DEF Thins
<1> HIDE DEF gone
<1>6. \A k \in Filled(list) : list[k].event \in GoneEvents(list, o, type) <=> k \in gone
      BY GoneCounted DEF gone
<1>7. Events(q) = {list[k].event : k \in Filled(list) \ gone}
      <2>1. ASSUME NEW k \in Filled(q) PROVE g[k] \in Filled(list) \ gone /\ q[k] = list[g[k]]
            BY <1>4 DEF Filled
      <2>2. ASSUME NEW k \in Filled(list) \ gone PROVE \E i \in Filled(q) : q[i] = list[k]
            BY <1>4 DEF Filled
      <2>3. \A e : e \in Events(q) <=> e \in {list[k].event : k \in Filled(list) \ gone}
            BY <2>1, <2>2 DEF Events
      <2>4. QED BY <2>3
<1>8. Events(q) = Events(list) \ GoneEvents(list, o, type)
      <2>1. \A e : e \in Events(q) <=> e \in Events(list) \ GoneEvents(list, o, type)
            BY <1>6, <1>7 DEF Events
      <2>2. QED BY <2>1
<1>9. QED BY <1>5, <1>8 DEF q

\* Entries only come nearer to the beginning.
LEMMA ThinsForward ==
  ASSUME NEW s \in Seq(Entries), NEW q, NEW g, Thins(g, s, q)
  PROVE  \A k \in DOMAIN q : k <= g[k]
<1>1. /\ DOMAIN q = 1..Len(q) /\ Len(q) \in Nat /\ DOMAIN s = 1..Len(s) /\ Len(s) \in Nat
      /\ \A k \in DOMAIN q : g[k] \in Nat /\ g[k] >= 1
      BY LenProperties DEF Thins
<1> DEFINE A == {n \in Nat : n + 1 \in DOMAIN q => n + 1 <= g[n + 1]}
<1>2. 0 \in A
      <2>1. 1 \in DOMAIN q => 1 <= g[1]
            BY <1>1
      <2>2. QED BY <2>1
<1>3. ASSUME NEW n \in Nat, n \in A PROVE n + 1 \in A
      <2>1. ASSUME NEW m \in Nat, m = n + 1, m + 1 \in DOMAIN q PROVE m + 1 <= g[m + 1]
            <3>1. m \in DOMAIN q /\ m < m + 1
                  BY <1>1, <2>1
            <3>2. m <= g[m]
                  BY <1>3, <2>1, <3>1
            <3>3. g[m] < g[m + 1]
                  BY <2>1, <3>1 DEF Thins
            <3>4. g[m] \in Nat /\ g[m + 1] \in Nat
                  BY <1>1, <2>1, <3>1
            <3>5. QED BY <2>1, <3>2, <3>3, <3>4
      <2>2. QED BY <2>1
<1> HIDE DEF A
<1>4. \A n \in Nat : n \in A
      BY <1>2, <1>3, AllNumbers
<1>5. ASSUME NEW k \in DOMAIN q PROVE k <= g[k]
      <2>1. k - 1 \in A /\ k - 1 + 1 = k
            BY <1>1, <1>4
      <2>2. QED BY <2>1 DEF A
<1>6. QED BY <1>5

LEMMA ThinsThread ==
  ASSUME NEW d, NEW calls, NEW ps, ThreadGood(d, calls, ps), NEW e, OtherList(d, e),
         NEW g, Thins(g, d.list, e.list), \A k \in DOMAIN calls : ~IsSend(calls[k])
  PROVE  ThreadGood(e, calls, ps)
<1> DEFINE s == d.list
           q == e.list
           n == Len(calls)
<1>1. /\ DataGood(d, ps) /\ Nested(calls, ps) /\ Offsets(d, calls)
      /\ calls \in Seq(CallRecords) /\ Remembered(d, calls, ps)
      BY DEF ThreadGood
<1>2. d \in DataRecords /\ ListGood(s, ps) /\ Sorted(s, d.insertionOffset)
      BY <1>1 DEF DataGood
<1>3. /\ s \in Seq(Entries) /\ d.insertionOffset \in Nat /\ d.startOffset = 0
      BY <1>1, <1>2, DataFields DEF Offsets
<1>4. /\ e \in DataRecords /\ e.startOffset = d.startOffset
      /\ e.insertionOffset = d.insertionOffset /\ (e.canWait => d.canWait)
      BY DEF OtherList
<1>5. n \in Nat /\ DOMAIN calls = 1..n
      BY <1>1, LenProperties
<1> HIDE DEF s, q, n
<1>6. Thins(g, s, q)
      BY DEF s, q
<1>7. ListGood(q, ps)
      BY <1>2, <1>3, <1>6, ThinsGood
<1>8. /\ q \in Seq(Entries) /\ Len(q) \in Nat /\ DOMAIN q = 1..Len(q)
      /\ DOMAIN s = 1..Len(s) /\ Len(s) \in Nat
      BY <1>3, <1>6, LenProperties DEF Thins
<1>9. Sorted(q, e.insertionOffset)
      <2>1. ASSUME NEW k \in DOMAIN q, d.insertionOffset < k PROVE d.insertionOffset < g[k]
            <3>1. k <= g[k]
                  BY <1>3, <1>6, ThinsForward
            <3>2. k \in Nat /\ g[k] \in Nat
                  BY <1>6, <1>8 DEF Thins
            <3>3. QED BY <1>3, <2>1, <3>1, <3>2
      <2> DEFINE off == d.insertionOffset
      <2>2. Sorted(s, off) /\ \A k \in DOMAIN q : off < k => off < g[k]
            BY <1>2, <2>1
      <2> HIDE DEF off
      <2>3. Sorted(q, off)
            BY <1>3, <1>6, <2>2, ThinsSorted
      <2>4. QED BY <1>4, <2>3 DEF off
<1>10. DataGood(e, ps)
       <2>1. \A k \in DOMAIN q : ~(k <= 0)
             BY <1>8
       <2>2. e.startOffset = 0 /\ 0 <= Len(q) /\ 0 <= e.insertionOffset
             BY <1>3, <1>4, <1>8
       <2>3. QED BY <1>4, <1>7, <1>9, <2>1, <2>2 DEF DataGood, q
<1>11. Offsets(e, calls)
       BY <1>3, <1>4 DEF Offsets
<1>12. \A k \in DOMAIN calls : HasPassed(e, calls[k], ps)
       BY DEF HasPassed
<1>13. \A k \in DOMAIN calls : calls[k].call # "handler"
       <2>1. ASSUME NEW k \in DOMAIN calls, calls[k].call = "handler" PROVE FALSE
             <3>1. k > 1 /\ calls[k - 1].call = "send"
                   BY <1>1, <2>1 DEF Nested
             <3>2. k - 1 \in DOMAIN calls
                   BY <1>5, <3>1
             <3>3. QED BY <3>1, <3>2 DEF IsSend
       <2>2. QED BY <2>1
<1>14. Innermost(calls) < 1
       <2>1. CASE calls = <<>>
             BY <2>1 DEF Innermost
       <2>2. CASE calls # <<>>
             <3>1. n # 0 /\ Last(calls) = calls[n]
                   BY <1>1, <2>2, EmptySeq DEF n, Last
             <3>2. n \in DOMAIN calls
                   BY <1>5, <3>1
             <3>3. calls[n].call # "handler"
                   BY <1>13, <3>2
             <3>4. CASE calls[n].call = "loop"
                   <4>1. n = 1
                         <5>1. n = 1 \/ calls[n - 1].call = "handler"
                               BY <1>1, <3>2, <3>4 DEF Nested
                         <5>2. n # 1 => n - 1 \in DOMAIN calls
                               BY <1>5, <3>2
                         <5>3. QED BY <1>13, <5>1, <5>2
                   <4>2. Innermost(calls) = n - 2
                         BY <2>2, <3>1, <3>4 DEF Innermost, n
                   <4>3. QED BY <4>1, <4>2
             <3>5. CASE calls[n].call # "loop"
                   <4>1. Innermost(calls) = 0
                         BY <2>2, <3>1, <3>3, <3>5 DEF Innermost
                   <4>2. QED BY <4>1
             <3>6. QED BY <3>4, <3>5
       <2>3. QED BY <2>1, <2>2
<1>15. Remembered(e, calls, ps)
       <2>1. NoneLeft(d, ps)
             BY <1>1, <1>14 DEF Remembered
       <2>2. \A k \in Filled(q) : g[k] \in Filled(s) /\ q[k] = s[g[k]]
             BY <1>6 DEF Filled, Thins
       <2>3. NoneLeft(e, ps)
             BY <1>4, <2>1, <2>2 DEF NoneLeft, s, q
       <2>4. QED BY <1>14, <2>3 DEF Remembered
<1>16. QED BY <1>1, <1>10, <1>11, <1>12, <1>15 DEF ThreadGood

LEMMA NoSends ==
  ASSUME NEW calls \in Seq(CallRecords), ~(Depth(calls, {"send"}) > 0)
  PROVE  \A k \in DOMAIN calls : ~IsSend(calls[k])
<1> DEFINE sends == {k \in DOMAIN calls : calls[k].call \in {"send"}}
<1>1. Len(calls) \in Nat /\ DOMAIN calls = 1..Len(calls)
      BY LenProperties
<1>2. IsFiniteSet(1..Len(calls)) /\ sends \subseteq 1..Len(calls)
      BY <1>1, FS_Interval
<1>3. ~(Cardinality(sends) > 0)
      BY DEF Depth
<1> HIDE DEF sends
<1>4. IsFiniteSet(sends)
      BY <1>2, FS_Subset
<1>5. Cardinality(sends) \in Nat
      BY <1>4, FS_CardinalityType
<1>6. Cardinality(sends) = 0
      BY <1>3, <1>5
<1>7. sends = {}
      BY <1>4, <1>6, FS_EmptySet
<1>8. QED BY <1>7 DEF sends, IsSend

\* What removing events does to a thread, and to the books
LEMMA RemovedParts ==
  ASSUME IInv, NEW t \in Threads, NEW o \in Objects, NEW type, Removed(t, o, type),
         UNCHANGED <<stack, posts>>
  PROVE  LET gone == GoneEvents(data[t].list, o, type)
         IN  /\ gone \subseteq Waits(t) /\ Waiting' = Waiting \ gone
             /\ Waits(t)' = Waits(t) \ gone
             /\ \A u \in Threads : u # t => Waits(u)' = Waits(u)
             /\ \A u \in Threads : ThreadGood(data'[u], stack'[u], posts')
             /\ data' \in [Threads -> DataRecords]
             /\ Counted' /\ postedEvents' \in [Objects -> Int]
             /\ removed' \subseteq DOMAIN posts
<1> DEFINE old == data[t]
           list == old.list
           sending == recursion(t) > 0
           d == [old EXCEPT !.list = TakenOut(list, o, type, sending)]
           gone == GoneEvents(list, o, type)
<1>1. /\ data' = [data EXCEPT ![t] = d]
      /\ postedEvents' = [postedEvents EXCEPT ![o] = @ - Cardinality(Gone(list, o, type))]
      /\ removed' = removed \cup gone
      <2>1. data' = [data EXCEPT ![t] = d]
            BY DEF Removed
      <2>2. /\ postedEvents' = [postedEvents EXCEPT ![o] = @ - Cardinality(Gone(list, o, type))]
            /\ removed' = removed \cup gone
            BY DEF Removed, Gone, GoneEvents
      <2>3. QED BY <2>1, <2>2
<1>2. /\ ThreadGood(old, stack[t], posts) /\ stack[t] \in Seq(CallRecords)
      /\ stack \in [Threads -> Seq(CallRecords)]
      BY DEF IInv, Types
<1>3. old \in DataRecords /\ ListGood(list, posts)
      BY <1>2 DEF ThreadGood, DataGood
<1>4. list \in Seq(Entries) /\ Waits(t) = Events(list)
      BY <1>3, DataFields DEF Waits
<1>5. ~sending => \A k \in DOMAIN stack[t] : ~IsSend(stack[t][k])
      BY <1>2, NoSends DEF recursion
<1>6. sending \in BOOLEAN
      OBVIOUS
<1> DEFINE q == TakenOut(list, o, type, sending)
<1> HIDE DEF list, sending
<1>7. /\ q \in Seq(Entries) /\ Events(q) = Events(list) \ gone
      /\ sending => Empties(list, q)
      /\ ~sending => \E g : Thins(g, list, q)
      <2>1. CASE sending
            <3>1. q = TakenOut(list, o, type, TRUE)
                  BY <2>1 DEF TakenOut
            <3>2. Empties(list, q) /\ Events(q) = Events(list) \ gone
                  BY <1>3, <1>4, <3>1, TakenOutEmpties
            <3>3. QED BY <2>1, <3>2 DEF Empties
      <2>2. CASE ~sending
            <3>1. q = TakenOut(list, o, type, FALSE)
                  BY <2>2 DEF TakenOut
            <3>2. (\E g : Thins(g, list, q)) /\ Events(q) = Events(list) \ gone
                  BY <1>3, <1>4, <3>1, TakenOutThins
            <3>3. QED BY <2>2, <3>2 DEF Thins
      <2>3. QED BY <2>1, <2>2
<1> HIDE DEF q, gone
<1>8. d.list = q /\ OtherList(old, d)
      BY <1>3, <1>7 DEF q, OtherList, DataRecords
<1> HIDE DEF d, old
<1>9. ThreadGood(d, stack[t], posts)
      <2>1. CASE sending
            <3>1. Empties(old.list, d.list)
                  BY <1>7, <1>8, <2>1 DEF list
            <3>2. QED BY <1>2, <1>8, <3>1, EmptiesThread
      <2>2. CASE ~sending
            <3>1. PICK g : Thins(g, old.list, d.list)
                  BY <1>7, <1>8, <2>2 DEF list
            <3>2. QED BY <1>2, <1>5, <1>8, <2>2, <3>1, ThinsThread
      <2>3. QED BY <2>1, <2>2
<1>10. /\ gone \subseteq Events(list) /\ \A e \in gone : posts[e].receiver = o
       /\ Cardinality(gone) = Cardinality(Gone(list, o, type))
       BY <1>3, <1>4, GoneCounted DEF gone
<1>11. gone \subseteq Waits(t) /\ Events(d.list) = Waits(t) \ gone
       BY <1>4, <1>7, <1>8, <1>10
<1>12. /\ Waiting' = Waiting \ gone /\ Waits(t)' = Waits(t) \ gone
       /\ \A u \in Threads : u # t => Waits(u)' = Waits(u)
       BY <1>1, <1>11, WaitingStep
<1>13. gone \subseteq Mail(o)
       BY <1>10, <1>11 DEF Mail, Waiting
<1>14. Counted' /\ postedEvents' \in [Objects -> Int]
       <2>1. postedEvents' = [postedEvents EXCEPT ![o] = @ - Cardinality(gone)]
             BY <1>1, <1>10
       <2>2. posts' = posts
             OBVIOUS
       <2>3. Waiting' = Waiting \ gone
             BY <1>12
       <2>4. QED BY <1>13, <2>1, <2>2, <2>3, CountedStep
<1>15. /\ \A u \in Threads : ThreadGood(data'[u], stack'[u], posts')
       /\ data' \in [Threads -> DataRecords]
       <2> DEFINE calls == stack[t]
       <2>1. stack' = [stack EXCEPT ![t] = calls]
             BY <1>2
       <2>2. data' = [data EXCEPT ![t] = d] /\ posts' = posts /\ ThreadGood(d, calls, posts)
             BY <1>1, <1>9
       <2> HIDE DEF calls
       <2>3. QED BY <2>1, <2>2, ThreadsStep
<1>16. removed' \subseteq DOMAIN posts
       <2>1. Waits(t) \subseteq DOMAIN posts
             BY WaitingKnown DEF Waiting
       <2>2. QED BY <1>1, <1>11, <2>1 DEF IInv, Types
<1>17. QED BY <1>11, <1>12, <1>14, <1>15, <1>16 DEF gone, list, old

LEMMA RemovedStep ==
  ASSUME IInv, NEW t \in Threads, NEW o \in Objects, NEW type, Removed(t, o, type),
         UNCHANGED <<stack, poster, posts>>,
         home' \in [Objects -> Threads \cup {NoThread}], AtHome', Addressed'
  PROVE  IInv'
<1> DEFINE gone == GoneEvents(data[t].list, o, type)
<1>1. /\ Waiting' = Waiting \ gone
      /\ \A u \in Threads : ThreadGood(data'[u], stack'[u], posts')
      /\ data' \in [Threads -> DataRecords]
      /\ Counted' /\ postedEvents' \in [Objects -> Int] /\ removed' \subseteq DOMAIN posts
      BY RemovedParts
<1> HIDE DEF gone
<1>2. Types'
      BY <1>1 DEF IInv, Types
<1>3. HandledOnce'
      <2>1. \A e : e \notin Waiting => e \notin Waiting'
            BY <1>1
      <2>2. QED BY <2>1 DEF IInv, HandledOnce
<1>4. Noted'
      <2>1. DOMAIN posts \ Waiting \subseteq DOMAIN posts' \ Waiting'
            BY <1>1
      <2>2. QED BY <2>1 DEF IInv, Noted
<1>5. QED BY <1>1, <1>2, <1>3, <1>4 DEF IInv

LEMMA RemovePostedStep ==
  ASSUME IInv, NEW t \in Threads, NEW o \in Objects, NEW type, removePostedEvents(t, o, type)
  PROVE  IInv'
<1>1. Removed(t, o, type) /\ UNCHANGED <<stack, poster, posts>> /\ home' = home
      BY DEF removePostedEvents
<1>2. \A u \in Threads : Waits(u)' \subseteq Waits(u)
      BY <1>1, RemovedParts
<1>3. AtHome'
      BY <1>1, <1>2 DEF IInv, AtHome
<1>4. Addressed' /\ home' \in [Objects -> Threads \cup {NoThread}]
      BY <1>1 DEF IInv, Addressed, Types
<1>5. QED BY <1>1, <1>3, <1>4, RemovedStep

\* All that waits for an object goes, if no type is asked for.
LEMMA MailGone ==
  ASSUME IInv, NEW t \in Threads, NEW o \in Objects
  PROVE  \A e \in Waits(t) : posts[e].receiver = o => e \in GoneEvents(data[t].list, o, "any")
<1>1. DataGood(data[t], posts)
      BY DEF IInv, ThreadGood
<1>2. ASSUME NEW k \in Filled(data[t].list), posts[data[t].list[k].event].receiver = o
      PROVE  data[t].list[k].event \in GoneEvents(data[t].list, o, "any")
      <2>1. Agrees(data[t].list[k], posts)
            BY <1>1 DEF DataGood, ListGood
      <2>2. k \in Gone(data[t].list, o, "any")
            BY <1>2, <2>1 DEF Agrees, Gone, Taken, Filled
      <2>3. QED BY <2>2 DEF GoneEvents
<1>3. QED BY <1>2 DEF Waits, Events

LEMMA DestroyStep ==
  ASSUME IInv, NEW t \in Threads, Destroy(t)
  PROVE  IInv'
<1> DEFINE o == posts[Top(t).event].receiver
           gone == GoneEvents(data[t].list, o, "any")
<1>1. /\ Top(t).call = "handler" /\ home[o] = t /\ \A p \in Posters : poster[p].receiver # o
      /\ Removed(t, o, "any") /\ home' = [home EXCEPT ![o] = NoThread]
      /\ UNCHANGED <<stack, poster, posts>>
      BY DEF Destroy
<1>2. o \in Objects
      <2>1. stack[t] # <<>>
            BY <1>1 DEF Top, Call
      <2>2. /\ Len(stack[t]) \in DOMAIN stack[t] /\ Top(t) = stack[t][Len(stack[t])]
            /\ ThreadGood(data[t], stack[t], posts)
            BY <2>1, LastCall
      <2>3. Top(t).event \in DOMAIN posts
            BY <1>1, <2>2 DEF ThreadGood, Nested
      <2>4. QED BY <2>3, WaitingKnown
<1>3. home \in [Objects -> Threads \cup {NoThread}]
      BY DEF IInv, Types
<1> HIDE DEF o
<1>4. /\ Waits(t)' = Waits(t) \ gone /\ \A u \in Threads : u # t => Waits(u)' = Waits(u)
      BY <1>1, <1>2, RemovedParts
<1>5. \A e \in Waits(t) : posts[e].receiver = o => e \in gone
      BY <1>2, MailGone
<1> HIDE DEF gone
<1>6. AtHome'
      <2>1. ASSUME NEW u \in Threads, NEW e \in Waits(u)' PROVE home'[posts'[e].receiver] = u
            <3>1. e \in Waits(u) /\ home[posts[e].receiver] = u
                  BY <1>4 DEF IInv, AtHome
            <3>2. posts[e].receiver \in Objects
                  BY <3>1, WaitingKnown DEF Waiting
            <3>3. posts[e].receiver # o
                  BY <1>1, <1>4, <1>5, <3>1
            <3>4. QED BY <1>1, <1>3, <3>1, <3>2, <3>3
      <2>2. QED BY <2>1 DEF AtHome
<1>7. Addressed'
      <2>1. ASSUME NEW p \in Posters, poster[p] # Idle
            PROVE  poster[p].receiver \in Objects /\ home'[poster[p].receiver] # NoThread
            <3>1. poster[p].receiver \in Objects /\ home[poster[p].receiver] # NoThread
                  BY <2>1 DEF IInv, Addressed
            <3>2. QED BY <1>1, <1>3, <3>1
      <2>2. QED BY <1>1, <2>1 DEF Addressed
<1>8. home' \in [Objects -> Threads \cup {NoThread}]
      BY <1>1, <1>3
<1>9. QED BY <1>1, <1>2, <1>6, <1>7, <1>8, RemovedStep

-----------------------------------------------------------------------------
(* moveToThread() *)

SortedLists(off) == {q \in Seq(Entries) : Sorted(q, off)}

Adding(list, target, off, o) ==
  CHOOSE f : f = [k \in 0..Len(list) |->
    IF k = 0 THEN target
    ELSE IF Taken(list[k], o, "any") THEN addEvent(f[k - 1], off, list[k]) ELSE f[k - 1]]

LEMMA MovedRounds ==
  ASSUME NEW list \in Seq(Entries), NEW off \in Nat, NEW target \in SortedLists(off), NEW o
  PROVE  LET f == Adding(list, target, off, o)
         IN  /\ Moved(list, target, off, o) = f[Len(list)]
             /\ f \in [0..Len(list) -> SortedLists(off)] /\ f[0] = target
             /\ \A k \in 1..Len(list) :
                  f[k] = IF Taken(list[k], o, "any") THEN addEvent(f[k - 1], off, list[k])
                                                     ELSE f[k - 1]
<1> DEFINE N == Len(list)
           X == SortedLists(off)
           Step(q, k) == IF Taken(list[k], o, "any") THEN addEvent(q, off, list[k]) ELSE q
           From(f, k) == IF k = 0 THEN target ELSE Step(f[k - 1], k)
           G == [x \in X \X (1..N) |-> Step(x[1], x[2])]
           u == Adding(list, target, off, o)
<1>1. N \in Nat /\ \A k \in 1..N : list[k] \in Entries
      BY EntryFields
<1>2. Moved(list, target, off, o) = u[N]
      BY DEF Moved, Adding
<1>3. u = CHOOSE f : f = [k \in 0..N |-> From(f, k)]
      BY DEF Adding
<1>4. ASSUME NEW q \in X, NEW k \in 1..N PROVE Step(q, k) \in X
      <2>1. CASE Taken(list[k], o, "any")
            <3>1. q \in Seq(Entries) /\ Sorted(q, off)
                  BY DEF SortedLists
            <3>2. PICK i : Adds(q, addEvent(q, off, list[k]), off, list[k], i)
                  BY <1>1, <3>1, AddEventAdds
            <3>3. addEvent(q, off, list[k]) \in X
                  BY <3>2 DEF Adds, SortedLists
            <3>4. QED BY <2>1, <3>3
      <2>2. CASE ~Taken(list[k], o, "any")
            BY <2>2
      <2>3. QED BY <2>1, <2>2
<1> HIDE DEF X, Step, N, u
<1>5. G \in [X \X (1..N) -> X]
      BY <1>4
<1>6. PICK f : Runs(f, X, target, N, G)
      <2> HIDE DEF G
      <2>1. Rounds(X, target, N, G)
            BY <1>1, <1>5 DEF Rounds, X
      <2>2. QED BY <2>1, Recursion
<1>7. /\ f \in [0..N -> X] /\ f[0] = target /\ \A k \in 1..N : f[k] = Step(f[k - 1], k)
      <2>1. /\ f \in [0..N -> X] /\ f[0] = target /\ \A k \in 1..N : f[k] = G[<<f[k - 1], k>>]
            BY <1>6 DEF Runs
      <2>2. ASSUME NEW k \in 1..N PROVE f[k] = Step(f[k - 1], k)
            <3>1. k - 1 \in 0..N
                  BY <1>1
            <3>2. <<f[k - 1], k>> \in X \X (1..N)
                  BY <2>1, <3>1
            <3>3. QED BY <2>1, <3>2
      <2>3. QED BY <2>1, <2>2
<1>8. f = [k \in 0..N |-> From(f, k)]
      <2>1. ASSUME NEW k \in 0..N PROVE f[k] = From(f, k)
            <3>1. k = 0 \/ k \in 1..N
                  BY <1>1
            <3>2. QED BY <1>1, <1>7, <3>1
      <2> HIDE DEF From
      <2>2. QED BY <1>7, <2>1
<1> HIDE DEF From
<1>9. u = [k \in 0..N |-> From(u, k)]
      BY <1>3, <1>8
<1>10. \A k \in 0..N : u[k] = From(u, k)
       BY <1>9
<1>11. u[0] = target /\ \A k \in 1..N : u[k] = Step(u[k - 1], k)
       <2>1. 0 \in 0..N
             BY <1>1
       <2>2. ASSUME NEW k \in 1..N PROVE k \in 0..N /\ k # 0
             BY <1>1
       <2>3. QED BY <1>10, <2>1, <2>2 DEF From
<1>12. \A n \in Nat : n \in {k \in Nat : k <= N => u[k] \in X}
       <2>1. 0 \in {k \in Nat : k <= N => u[k] \in X}
             BY <1>11 DEF X
       <2>2. ASSUME NEW n \in Nat, n <= N => u[n] \in X, n + 1 <= N PROVE u[n + 1] \in X
             <3>1. n + 1 \in 1..N /\ n + 1 - 1 = n /\ n <= N
                   BY <1>1, <2>2
             <3>2. u[n + 1] = Step(u[n], n + 1)
                   BY <1>11, <3>1
             <3>3. QED BY <1>4, <2>2, <3>1, <3>2
       <2> DEFINE A == {k \in Nat : k <= N => u[k] \in X}
       <2>3. ASSUME NEW n \in Nat, n \in A PROVE n + 1 \in A
             BY <2>2, <2>3
       <2>4. 0 \in A
             BY <2>1
       <2> HIDE DEF A
       <2>5. \A n \in Nat : n \in A
             BY <2>3, <2>4, AllNumbers
       <2>6. QED BY <2>5 DEF A
<1>13. u \in [0..N -> X]
       <2>1. \A k \in 0..N : u[k] \in X
             BY <1>1, <1>12
       <2>2. QED BY <1>9, <2>1
<1>14. QED BY <1>2, <1>11, <1>13 DEF u, N, X, Step

\* The events of an object, added to the list of another thread in turn
LEMMA MovedThread ==
  ASSUME IInv, NEW t \in Threads, NEW u \in Threads, u # t, NEW o \in Objects, home[o] = t,
         NEW d, OtherList(data[u], d),
         d.list = Moved(data[t].list, data[u].list, data[u].insertionOffset, o),
         d.canWait => Gone(data[t].list, o, "any") = {}
  PROVE  /\ ThreadGood(d, stack[u], posts)
         /\ Events(d.list) = Waits(u) \cup GoneEvents(data[t].list, o, "any")
<1> DEFINE list == data[t].list
           gone == Gone(list, o, "any")
           old == data[u]
           off == old.insertionOffset
           target == old.list
           calls == stack[u]
           N == Len(list)
           f == Adding(list, target, off, o)
           At(q) == [old EXCEPT !.list = q, !.canWait = FALSE]
           Sofar(k) == {list[j].event : j \in {i \in gone : i <= k}}
<1>1. /\ ThreadGood(old, calls, posts) /\ DataGood(old, posts) /\ DataGood(data[t], posts)
      BY DEF IInv, ThreadGood
<1>2. /\ old \in DataRecords /\ target \in Seq(Entries) /\ off \in Nat /\ Sorted(target, off)
      /\ list \in Seq(Entries) /\ ListGood(list, posts)
      <2>1. old \in DataRecords /\ data[t] \in DataRecords
            BY <1>1 DEF DataGood
      <2>2. QED BY <1>1, <2>1, DataFields DEF DataGood
<1>3. /\ N \in Nat /\ DOMAIN list = 1..N /\ \A k \in 1..N : list[k] \in Entries
      BY <1>2, EntryFields
<1>4. Waits(u) = Events(target) /\ Waits(t) = Events(list)
      BY DEF Waits
<1>5. d.list = f[N] /\ f \in [0..N -> SortedLists(off)] /\ f[0] = target
      /\ \A k \in 1..N : f[k] = IF Taken(list[k], o, "any") THEN addEvent(f[k - 1], off, list[k])
                                                            ELSE f[k - 1]
      <2>1. target \in SortedLists(off)
            BY <1>2 DEF SortedLists
      <2> HIDE DEF list, target, off
      <2>2. d.list = Moved(list, target, off, o)
            BY DEF list, target, off
      <2>3. QED BY <1>2, <2>1, <2>2, MovedRounds
<1>6. /\ gone \subseteq Filled(list) /\ gone \subseteq 1..N
      /\ \A k \in 1..N : Taken(list[k], o, "any") <=> k \in gone
      /\ \A k \in gone : list[k].event # NoEvent /\ Agrees(list[k], posts)
                         /\ posts[list[k].event].receiver = o
                         /\ list[k].event \in Waits(t) /\ list[k].event \notin Waits(u)
      /\ GoneEvents(list, o, "any") = {list[k].event : k \in gone}
      <2>1. gone \subseteq Filled(list)
            BY <1>2, GoneCounted
      <2>2. \A k \in 1..N : Taken(list[k], o, "any") <=> k \in gone
            BY <1>3 DEF Gone
      <2>3. gone \subseteq 1..N
            BY <1>3 DEF Gone
      <2>4. GoneEvents(list, o, "any") = {list[k].event : k \in gone}
            BY DEF GoneEvents
      <2>5. ASSUME NEW k \in gone
            PROVE  /\ list[k].event # NoEvent /\ Agrees(list[k], posts)
                   /\ posts[list[k].event].receiver = o
                   /\ list[k].event \in Waits(t) /\ list[k].event \notin Waits(u)
            <3>1. list[k].receiver = o /\ list[k].event # NoEvent
                  BY DEF Gone, Taken
            <3>2. Agrees(list[k], posts)
                  BY <1>2, <2>1 DEF ListGood
            <3>3. list[k].event \in Waits(t)
                  BY <1>4, <2>1 DEF Events
            <3>4. list[k].event \notin Waits(u)
                  BY <3>3, WaitingKnown
            <3>5. QED BY <3>1, <3>2, <3>3, <3>4 DEF Agrees
      <2>6. QED BY <2>1, <2>2, <2>3, <2>4, <2>5
<1>7. \A e \in Waits(u) : posts[e].receiver # o
      BY DEF IInv, AtHome
<1>8. \A i, j \in gone : /\ list[i].event = list[j].event => i = j
                         /\ i < j /\ SameRank(list[i].event, list[j].event, posts)
                              => list[i].event < list[j].event
      BY <1>2, <1>6 DEF ListGood
<1> HIDE DEF list, gone, off, target, calls, N, f
<1> DEFINE Good(k) == /\ ThreadGood(At(f[k]), calls, posts)
                      /\ Events(f[k]) = Waits(u) \cup Sofar(k)
                      /\ gone = {} => f[k] = target
           A == {k \in Nat : k <= N => Good(k)}
<1>9. ASSUME NEW q \in SortedLists(off)
      PROVE  /\ At(q) \in DataRecords /\ At(q).list = q /\ ~At(q).canWait
             /\ At(q).startOffset = old.startOffset /\ At(q).insertionOffset = off
             /\ q \in Seq(Entries) /\ Sorted(q, off)
      BY <1>2 DEF SortedLists, DataRecords, off
<1> HIDE DEF At, old
<1>10. Good(0)
       <2>1. f[0] \in SortedLists(off)
             BY <1>3, <1>5
       <2> DEFINE e == At(f[0])
       <2>2. OtherList(old, e) /\ e.list = target
             BY <1>2, <1>5, <1>9, <2>1 DEF OtherList, off
       <2>3. Empties(old.list, e.list)
             BY <1>2, <2>2 DEF Empties, target
       <2> HIDE DEF e
       <2>4. ThreadGood(e, calls, posts)
             BY <1>1, <2>2, <2>3, EmptiesThread
       <2>5. Sofar(0) = {}
             BY <1>3, <1>6
       <2>6. QED BY <1>4, <1>5, <2>4, <2>5 DEF e
<1>11. ASSUME NEW k \in 1..N, NEW m \in Nat, k = m + 1, Good(m) PROVE Good(k)
       <2>1. k - 1 = m /\ m \in 0..N /\ k \in 0..N
             BY <1>3, <1>11
       <2>2. f[m] \in SortedLists(off) /\ f[k] \in SortedLists(off)
             BY <1>5, <2>1
       <2> DEFINE some(n) == {j \in gone : j <= n}
       <2>3. \A j \in gone : j <= k <=> j <= m \/ j = k
             <3>1. \A j \in gone : j \in Nat
                   BY <1>3, <1>6
             <3>2. k = m + 1
                   BY <1>11
             <3>3. QED BY <3>1, <3>2
       <2>4. CASE k \in gone
             <3> DEFINE pe == list[k]
                        d1 == At(f[m])
                        e1 == At(f[k])
             <3>1. f[k] = addEvent(f[m], off, pe)
                   BY <1>5, <1>6, <2>1, <2>4
             <3>2. pe \in Entries
                   BY <1>3
             <3>3. PICK i : Adds(f[m], f[k], off, pe, i)
                   <4>1. f[m] \in Seq(Entries) /\ Sorted(f[m], off)
                         BY <2>2 DEF SortedLists
                   <4>2. QED BY <1>2, <3>1, <3>2, <4>1, AddEventAdds
             <3>4. /\ d1.list = f[m] /\ d1.insertionOffset = off /\ e1.list = f[k]
                   /\ OtherList(d1, e1) /\ ~e1.canWait
                   BY <1>9, <2>2 DEF OtherList
             <3>5. ThreadGood(d1, calls, posts) /\ Events(f[m]) = Waits(u) \cup Sofar(m)
                   BY <1>11
             <3>6. Agrees(pe, posts) /\ pe.event # NoEvent /\ posts[pe.event].receiver = o
                   /\ pe.event \notin Waits(u)
                   BY <1>6, <2>4
             <3>7. \A e \in Sofar(m) : /\ e # pe.event
                                       /\ SameRank(e, pe.event, posts) => e < pe.event
                   <4>1. ASSUME NEW j \in gone, j <= m
                         PROVE  /\ list[j].event # pe.event
                                /\ SameRank(list[j].event, pe.event, posts) => list[j].event < pe.event
                         <5>1. j < k
                               BY <1>3, <1>6, <1>11, <4>1
                         <5>2. j # k
                               BY <1>3, <1>6, <5>1
                         <5>3. QED BY <1>8, <2>4, <5>1, <5>2
                   <4>2. QED BY <4>1
             <3>8. \A e \in Waits(u) : ~SameRank(e, pe.event, posts)
                   BY <1>7, <3>6 DEF SameRank
             <3>9. pe.event \notin Events(f[m])
                   /\ \A e \in Events(f[m]) : SameRank(e, pe.event, posts) => e < pe.event
                   BY <3>5, <3>6, <3>7, <3>8
             <3>10. Sofar(k) = Sofar(m) \cup {pe.event}
                    <4>1. some(k) = some(m) \cup {k}
                          BY <2>3, <2>4
                    <4>2. Sofar(k) = {list[j].event : j \in some(k)}
                          OBVIOUS
                    <4>3. Sofar(m) = {list[j].event : j \in some(m)}
                          OBVIOUS
                    <4> HIDE DEF some, Sofar
                    <4>4. QED BY <4>1, <4>2, <4>3
             <3>11. gone # {}
                    BY <2>4
             <3> HIDE DEF pe, d1, e1, Sofar
             <3>12. Adds(d1.list, e1.list, d1.insertionOffset, pe, i)
                    BY <3>3, <3>4
             <3>13. pe.event \notin Events(d1.list)
                    /\ \A e \in Events(d1.list) : SameRank(e, pe.event, posts) => e < pe.event
                    BY <3>4, <3>9
             <3>14. OtherList(d1, e1) /\ ~e1.canWait
                    BY <3>4
             <3>15. pe.event # NoEvent /\ Agrees(pe, posts)
                    BY <3>6
             <3>16. ThreadGood(d1, calls, posts)
                    BY <3>5
             <3>17. ThreadGood(e1, calls, posts) /\ Events(e1.list) = Events(d1.list) \cup {pe.event}
                    BY <3>2, <3>12, <3>13, <3>14, <3>15, <3>16, AddsThread
             <3>18. Events(f[k]) = Waits(u) \cup Sofar(k)
                    BY <3>4, <3>5, <3>10, <3>17
             <3>19. QED BY <3>11, <3>17, <3>18 DEF e1
       <2>5. CASE k \notin gone
             <3>1. f[k] = f[m]
                   BY <1>5, <1>6, <2>1, <2>5
             <3>2. some(k) = some(m)
                   BY <2>3, <2>5
             <3>3. Sofar(k) = Sofar(m)
                   BY <3>2
             <3>4. QED BY <1>11, <3>1, <3>3
       <2>6. QED BY <2>4, <2>5
<1>12. \A k \in Nat : k \in A
       <2> HIDE DEF Good
       <2>1. 0 \in A
             BY <1>10
       <2>2. ASSUME NEW m \in Nat, m \in A PROVE m + 1 \in A
             <3>1. ASSUME m + 1 <= N PROVE Good(m + 1)
                   <4>1. m + 1 \in 1..N /\ m <= N
                         BY <1>3, <3>1
                   <4>2. QED BY <1>11, <2>2, <4>1
             <3>2. QED BY <3>1
       <2> HIDE DEF A
       <2>3. QED BY <2>1, <2>2, AllNumbers
<1>13. Good(N)
       <2> HIDE DEF Good
       <2>1. N \in A /\ N <= N
             BY <1>3, <1>12
       <2>2. QED BY <2>1
<1>14. Sofar(N) = GoneEvents(data[t].list, o, "any")
       <2>1. {i \in gone : i <= N} = gone
             BY <1>3, <1>6
       <2>2. QED BY <1>6, <2>1 DEF list
<1> HIDE DEF Sofar
<1>15. Events(d.list) = Waits(u) \cup GoneEvents(data[t].list, o, "any")
       BY <1>5, <1>13, <1>14
<1>16. ThreadGood(d, calls, posts)
       <2>1. OtherList(old, d)
             BY DEF old
       <2>2. CASE gone = {}
             <3>1. d.list = target
                   BY <1>5, <1>13, <2>2
             <3>2. Empties(old.list, d.list)
                   BY <1>2, <3>1 DEF Empties, target
             <3>3. QED BY <1>1, <2>1, <3>2, EmptiesThread
       <2>3. CASE gone # {}
             <3> DEFINE e == At(f[N])
             <3>1. f[N] \in SortedLists(off)
                   BY <1>3, <1>5
             <3>2. /\ e.list = d.list /\ OtherList(e, d)
                   <4>1. ~d.canWait
                         BY <2>3 DEF gone, list
                   <4>2. QED BY <1>5, <1>9, <2>1, <3>1, <4>1 DEF OtherList, off
             <3>3. ThreadGood(e, calls, posts) /\ d.list \in Seq(Entries)
                   BY <1>5, <1>9, <1>13, <3>1
             <3> HIDE DEF e
             <3>4. Empties(e.list, d.list)
                   BY <3>2, <3>3 DEF Empties
             <3>5. QED BY <3>2, <3>3, <3>4, EmptiesThread
       <2>4. QED BY <2>2, <2>3
<1>17. QED BY <1>15, <1>16 DEF calls

LEMMA MoveStep ==
  ASSUME IInv, NEW t \in Threads, NEW o \in Objects, NEW u \in Threads, moveToThread(t, o, u)
  PROVE  IInv' /\ Waiting' = Waiting
<1> DEFINE src == data[t]
           dst == data[u]
           list == src.list
           gone == GoneEvents(list, o, "any")
           e == [src EXCEPT !.list = TakenOut(list, o, "any", TRUE)]
           moved == Moved(list, dst.list, dst.insertionOffset, o)
           can == dst.canWait /\ Gone(list, o, "any") = {}
           d == [dst EXCEPT !.list = moved, !.canWait = can]
<1>1. /\ home[o] = t /\ u # t /\ home' = [home EXCEPT ![o] = u]
      /\ UNCHANGED <<stack, postedEvents, poster, posts, removed>>
      BY DEF moveToThread
<1>2. data \in [Threads -> DataRecords] /\ home \in [Objects -> Threads \cup {NoThread}]
      BY DEF IInv, Types
<1>3. data' = [data EXCEPT ![t].list = TakenOut(@, o, "any", TRUE), ![u].list = moved,
                           ![u].canWait = @ /\ Gone(list, o, "any") = {}]
      BY DEF moveToThread, Gone
<1>4. data'[t] = e /\ data'[u] = d /\ \A v \in Threads : v # t /\ v # u => data'[v] = data[v]
      <2> HIDE DEF moved
      <2> DEFINE d1 == [data EXCEPT ![t] = e]
                 d2 == [d1 EXCEPT ![u].list = moved]
      <2>1. d1[t] = e /\ \A v \in Threads : v # t => d1[v] = data[v]
            BY <1>2
      <2>2. DOMAIN d1 = Threads /\ d1 = [data EXCEPT ![t].list = TakenOut(@, o, "any", TRUE)]
            BY <1>2
      <2>3. data' = [d2 EXCEPT ![u].canWait = @ /\ Gone(list, o, "any") = {}]
            BY <1>3, <2>2
      <2> HIDE DEF d1, e
      <2>4. /\ DOMAIN d2 = Threads /\ d2[u] = [dst EXCEPT !.list = moved]
            /\ \A v \in Threads : v # u => d2[v] = d1[v]
            BY <1>1, <2>1, <2>2
      <2> HIDE DEF d2
      <2>5. data'[u] = [d2[u] EXCEPT !.canWait = d2[u].canWait /\ Gone(list, o, "any") = {}]
            BY <2>3, <2>4
      <2>6. \A v \in Threads : v # u => data'[v] = d2[v]
            BY <2>3, <2>4
      <2>7. d2[u].canWait = dst.canWait
            BY <1>2, <2>4 DEF DataRecords
      <2>8. data'[u] = [[dst EXCEPT !.list = moved] EXCEPT !.canWait = can]
            BY <2>4, <2>5, <2>7
      <2>9. QED BY <1>1, <2>1, <2>4, <2>6, <2>8
<1>6. /\ ThreadGood(src, stack[t], posts) /\ ThreadGood(dst, stack[u], posts)
      /\ DataGood(src, posts) /\ DataGood(dst, posts)
      BY DEF IInv, ThreadGood
<1>7. /\ src \in DataRecords /\ dst \in DataRecords /\ list \in Seq(Entries)
      /\ ListGood(list, posts) /\ dst.list \in Seq(Entries) /\ dst.canWait \in BOOLEAN
      /\ dst.insertionOffset \in Nat /\ Sorted(dst.list, dst.insertionOffset)
      BY <1>6, DataFields DEF DataGood
<1>8. Waits(t) = Events(list)
      BY DEF Waits
<1> HIDE DEF src, dst
<1>9. moved \in Seq(Entries)
      <2> DEFINE off == dst.insertionOffset
                 target == dst.list
      <2>1. target \in SortedLists(off) /\ off \in Nat
            BY <1>7 DEF SortedLists
      <2> HIDE DEF list, off, target
      <2> DEFINE f == Adding(list, target, off, o)
      <2>2. Moved(list, target, off, o) = f[Len(list)] /\ f \in [0..Len(list) -> SortedLists(off)]
            BY <1>7, <2>1, MovedRounds
      <2>3. Len(list) \in 0..Len(list)
            BY <1>7, EntryFields
      <2> HIDE DEF f
      <2>4. QED BY <2>2, <2>3 DEF SortedLists, off, target
<1>10. Empties(list, TakenOut(list, o, "any", TRUE))
       /\ Events(TakenOut(list, o, "any", TRUE)) = Events(list) \ gone
       BY <1>7, TakenOutEmpties
<1>11. /\ e.list = TakenOut(list, o, "any", TRUE) /\ OtherList(src, e)
       BY <1>7, <1>10 DEF OtherList, DataRecords, Empties
<1> HIDE DEF moved
<1>12. /\ d.list = moved /\ OtherList(dst, d) /\ d.canWait = can
       BY <1>7, <1>9 DEF OtherList, DataRecords
<1> HIDE DEF d, e
<1>13. ThreadGood(e, stack[t], posts)
       <2>1. Empties(src.list, e.list)
             BY <1>10, <1>11
       <2>2. QED BY <1>6, <1>11, <2>1, EmptiesThread
<1>14. ThreadGood(d, stack[u], posts) /\ Events(d.list) = Waits(u) \cup gone
       <2>1. OtherList(data[u], d)
             BY <1>12 DEF dst
       <2>2. d.list = Moved(data[t].list, data[u].list, data[u].insertionOffset, o)
             BY <1>12 DEF moved, src, dst
       <2>3. d.canWait => Gone(data[t].list, o, "any") = {}
             BY <1>12 DEF src
       <2>4. ThreadGood(d, stack[u], posts)
             /\ Events(d.list) = Waits(u) \cup GoneEvents(data[t].list, o, "any")
             BY <1>1, <2>1, <2>2, <2>3, MovedThread
       <2>5. QED BY <2>4 DEF src
<1>15. \A v \in Threads : ThreadGood(data'[v], stack'[v], posts')
       BY <1>1, <1>4, <1>13, <1>14 DEF IInv
<1>16. data' \in [Threads -> DataRecords]
       <2>1. \A v \in Threads : data'[v] \in DataRecords
             BY <1>15 DEF ThreadGood, DataGood
       <2>2. data' = [v \in Threads |-> data'[v]]
             BY <1>2, <1>3
       <2>3. QED BY <2>1, <2>2
<1>17. /\ Waits(t)' = Waits(t) \ gone /\ Waits(u)' = Waits(u) \cup gone
       /\ \A v \in Threads : v # t /\ v # u => Waits(v)' = Waits(v)
       BY <1>4, <1>8, <1>10, <1>11, <1>14 DEF Waits
<1>18. /\ gone \subseteq Waits(t) /\ \A f \in gone : posts[f].receiver = o
       /\ \A f \in Waits(t) : posts[f].receiver = o => f \in gone
       <2>1. gone \subseteq Events(list) /\ \A f \in gone : posts[f].receiver = o
             BY <1>7, GoneCounted
       <2>2. \A f \in Waits(t) : posts[f].receiver = o => f \in gone
             BY MailGone DEF src
       <2>3. QED BY <1>8, <2>1, <2>2
<1> HIDE DEF gone, list
<1>19. Waiting' = Waiting
       <2>1. \A f : f \in Waiting' <=> \E v \in Threads : f \in Waits(v)'
             BY DEF Waiting
       <2>2. \A f : f \in Waiting <=> \E v \in Threads : f \in Waits(v)
             BY DEF Waiting
       <2>3. ASSUME NEW f, f \in Waiting' PROVE f \in Waiting
             BY <1>17, <1>18, <2>1, <2>2, <2>3
       <2>4. ASSUME NEW f, f \in Waiting PROVE f \in Waiting'
             <3>1. PICK v \in Threads : f \in Waits(v)
                   BY <2>2, <2>4
             <3>2. CASE f \in gone
                   BY <1>17, <2>1, <3>2
             <3>3. CASE f \notin gone
                   <4>1. f \in Waits(v)'
                         BY <1>17, <3>1, <3>3
                   <4>2. QED BY <2>1, <4>1
             <3>4. QED BY <3>2, <3>3
       <2>5. QED BY <2>3, <2>4
<1>20. AtHome'
       <2>1. ASSUME NEW v \in Threads, NEW f \in Waits(v)' PROVE home'[posts'[f].receiver] = v
             <3>1. CASE f \in gone
                   <4>1. v = u
                         <5>1. v # t
                               BY <1>17, <2>1, <3>1
                         <5>2. ASSUME v # u PROVE FALSE
                               <6>1. f \in Waits(v) /\ f \in Waits(t)
                                     BY <1>17, <1>18, <2>1, <3>1, <5>1, <5>2
                               <6>2. QED BY <5>1, <6>1, WaitingKnown
                         <5>3. QED BY <5>2
                   <4>2. posts[f].receiver = o
                         BY <1>18, <3>1
                   <4>3. QED BY <1>1, <1>2, <4>1, <4>2
             <3>2. CASE f \notin gone
                   <4>1. f \in Waits(v)
                         BY <1>17, <2>1, <3>2
                   <4>2. home[posts[f].receiver] = v /\ posts[f].receiver \in Objects
                         BY <4>1, WaitingKnown DEF IInv, AtHome, Waiting
                   <4>3. posts[f].receiver # o
                         BY <1>1, <1>18, <3>2, <4>1, <4>2
                   <4>4. QED BY <1>1, <1>2, <4>2, <4>3
             <3>3. QED BY <3>1, <3>2
       <2>2. QED BY <2>1 DEF AtHome
<1>21. Counted'
       BY <1>1, <1>19 DEF IInv, Counted, Mail
<1>22. HandledOnce' /\ Noted'
       BY <1>1, <1>19 DEF IInv, HandledOnce, Noted
<1>23. Addressed'
       <2>1. u # NoThread
             BY EventsAssumption
       <2>2. ASSUME NEW p \in Posters, poster[p] # Idle
             PROVE  poster[p].receiver \in Objects /\ home'[poster[p].receiver] # NoThread
             <3>1. poster[p].receiver \in Objects /\ home[poster[p].receiver] # NoThread
                   BY <2>2 DEF IInv, Addressed
             <3>2. QED BY <1>1, <1>2, <2>1, <3>1
       <2>3. QED BY <1>1, <2>2 DEF Addressed
<1>24. Types'
       <2>1. home' \in [Objects -> Threads \cup {NoThread}]
             BY <1>1, <1>2
       <2>2. QED BY <1>1, <1>16, <2>1 DEF IInv, Types
<1>25. QED BY <1>15, <1>19, <1>20, <1>21, <1>22, <1>23, <1>24 DEF IInv

-----------------------------------------------------------------------------
(* The theorems *)

LEMMA FirstThread ==
  ASSUME Init, NEW t \in Threads
  PROVE  /\ ThreadGood(data[t], stack[t], posts) /\ Waits(t) = {}
         /\ data[t] \in DataRecords /\ stack[t] \in Seq(CallRecords)
         /\ \A k \in DOMAIN stack[t] : stack[t][k].event = NoEvent
<1> DEFINE d == data[t]
           calls == stack[t]
           loop == Call("loop")
<1>1. d = [list |-> <<>>, startOffset |-> 0, insertionOffset |-> 0, canWait |-> TRUE]
      BY DEF Init
<1>2. calls = <<>> \/ calls = <<loop>>
      BY DEF Init
<1>3. posts = <<>>
      BY DEF Init
<1>4. d \in DataRecords /\ d.list = <<>> /\ d.startOffset = 0 /\ d.insertionOffset = 0
      BY <1>1 DEF DataRecords
<1>5. loop \in CallRecords /\ loop.call = "loop" /\ loop.event = NoEvent
      BY DEF Call, CallRecords, NoEvent
<1> HIDE DEF d, calls, loop
<1>6. DOMAIN d.list = {} /\ Filled(d.list) = {} /\ Len(d.list) = 0
      BY <1>4 DEF Filled
<1>7. DataGood(d, posts)
      BY <1>4, <1>6 DEF DataGood, ListGood, Sorted
<1>8. /\ calls \in Seq(CallRecords) /\ Nested(calls, posts)
      /\ \A k \in DOMAIN calls : ~IsSend(calls[k]) /\ calls[k].event = NoEvent
      /\ Innermost(calls) < 1
      <2>1. CASE calls = <<>>
            <3>1. DOMAIN calls = {} /\ calls \in Seq(CallRecords)
                  BY <2>1
            <3>2. Innermost(calls) = 0
                  BY <2>1 DEF Innermost
            <3>3. QED BY <3>1, <3>2 DEF Nested
      <2>2. CASE calls = <<loop>>
            <3>1. /\ DOMAIN calls = {1} /\ calls \in Seq(CallRecords) /\ Len(calls) = 1
                  /\ calls[1] = loop /\ Last(calls) = loop /\ calls # <<>>
                  BY <1>5, <2>2 DEF Last
            <3>2. Innermost(calls) = 1 - 2
                  BY <1>5, <3>1 DEF Innermost
            <3>3. Nested(calls, posts)
                  BY <1>5, <3>1 DEF Nested
            <3>4. QED BY <1>5, <3>1, <3>2, <3>3 DEF IsSend
      <2>3. QED BY <1>2, <2>1, <2>2
<1>9. Offsets(d, calls)
      BY <1>4, <1>8 DEF Offsets
<1>10. \A k \in DOMAIN calls : HasPassed(d, calls[k], posts)
       BY <1>8 DEF HasPassed
<1>11. Remembered(d, calls, posts)
       BY <1>6, <1>8 DEF Remembered, NoneLeft
<1>12. ThreadGood(d, calls, posts)
       BY <1>7, <1>8, <1>9, <1>10, <1>11 DEF ThreadGood
<1>13. Waits(t) = {}
       BY <1>6 DEF Waits, Events, d
<1>14. QED BY <1>4, <1>8, <1>12, <1>13 DEF d, calls

LEMMA InitialState == Init => IInv
<1> SUFFICES ASSUME Init PROVE IInv
    OBVIOUS
<1>1. /\ data = [t \in Threads |-> data[t]] /\ stack = [t \in Threads |-> stack[t]]
      /\ home \in [Objects -> Threads] /\ postedEvents = [o \in Objects |-> 0]
      /\ poster = [p \in Posters |-> Idle] /\ posts = <<>> /\ removed = {}
      BY DEF Init
<1>2. Waiting = {}
      BY FirstThread DEF Waiting
<1>3. Types
      <2>1. data \in [Threads -> DataRecords] /\ stack \in [Threads -> Seq(CallRecords)]
            BY <1>1, FirstThread
      <2>2. home \in [Objects -> Threads \cup {NoThread}] /\ postedEvents \in [Objects -> Int]
            BY <1>1
      <2>3. Idle \in PosterRecords
            BY DEF Idle, PosterRecords
      <2>4. poster \in [Posters -> PosterRecords]
            BY <1>1, <2>3
      <2>5. posts \in Seq(PostRecords) /\ removed \subseteq DOMAIN posts
            BY <1>1
      <2>6. QED BY <2>1, <2>2, <2>4, <2>5 DEF Types
<1>4. AtHome
      BY FirstThread DEF AtHome
<1>5. Counted
      <2>1. \A o \in Objects : Mail(o) = {}
            BY <1>2 DEF Mail
      <2>2. \A o \in Objects : Cardinality(Mail(o)) = 0
            BY <2>1, FS_EmptySet
      <2>3. QED BY <1>1, <2>2 DEF Counted
<1>6. Addressed
      BY <1>1 DEF Addressed
<1>7. HandledOnce
      BY FirstThread DEF HandledOnce
<1>8. Noted
      BY <1>1 DEF Noted
<1>9. QED BY <1>3, <1>4, <1>5, <1>6, <1>7, <1>8, FirstThread DEF IInv

LEMMA Unchanged ==
  ASSUME IInv, UNCHANGED vars
  PROVE  IInv'
<1>1. UNCHANGED <<data, stack, home, postedEvents, poster, posts, removed>>
      BY DEF vars
<1>2. poster' \in [Posters -> PosterRecords] /\ Addressed'
      BY <1>1 DEF IInv, Types, Addressed
<1>3. QED BY <1>1, <1>2, PosterStep

LEMMA InvariantKept == IInv /\ [Next]_vars => IInv'
<1> SUFFICES ASSUME IInv, [Next]_vars PROVE IInv'
    OBVIOUS
<1>1. CASE UNCHANGED vars
      BY <1>1, Unchanged
<1>2. ASSUME NEW t \in Threads, Sending(t) PROVE IInv'
      <2>1. ASSUME NEW receiver \in Objects, sendPostedEvents(t, receiver, "any") PROVE IInv'
            <3> DEFINE type == "any"
            <3>1. type \in {"any", "delete"} /\ sendPostedEvents(t, receiver, type)
                  BY <2>1
            <3> HIDE DEF type
            <3>2. QED BY <3>1, SendStep
      <2>2. ASSUME NEW type \in {"any", "delete"}, sendPostedEvents(t, NoObject, type) PROVE IInv'
            <3> DEFINE receiver == NoObject
            <3>1. receiver \in Objects \cup {NoObject} /\ sendPostedEvents(t, receiver, type)
                  BY <2>2
            <3> HIDE DEF receiver
            <3>2. QED BY <3>1, SendStep
      <2>3. QED BY <1>2, <2>1, <2>2, ReturnStep DEF Sending
<1>3. ASSUME NEW t \in Threads, Code(t) PROVE IInv'
      <2>1. ASSUME NEW o \in Objects, NEW type, removePostedEvents(t, o, type) PROVE IInv'
            BY <2>1, RemovePostedStep
      <2>2. ASSUME NEW o \in Objects, NEW kind \in Kinds, PostHere(t, o, kind) PROVE IInv'
            BY <2>2, PostHereStep
      <2>3. ASSUME NEW o \in Objects, NEW u \in Threads, moveToThread(t, o, u) PROVE IInv'
            BY <2>3, MoveStep
      <2>4. Destroy(t) \/ EnterLoop(t) \/ LeaveLoop(t) => IInv'
            BY DestroyStep, EnterLoopStep, LeaveLoopStep
      <2>5. QED BY <1>3, <2>1, <2>2, <2>3, <2>4 DEF Code
<1>4. ASSUME NEW p \in Posters, Posting(p) PROVE IInv'
      BY <1>4, ReadThreadDataStep, FollowStep, PostThereStep DEF Posting
<1>5. QED BY <1>1, <1>2, <1>3, <1>4 DEF Next

\* The invariant holds: the books, the offsets and the calls agree.
THEOREM InvariantHolds == Spec => []IInv
<1>1. Init => IInv
      BY InitialState
<1>2. IInv /\ [Next]_vars => IInv'
      BY InvariantKept
<1>3. QED BY <1>1, <1>2, PTL DEF Spec

\* The types, and the bounds of the offsets, hold for every number of threads, objects
\* and events.
THEOREM TypeCorrect == Spec => []TypeOK
<1>1. ASSUME IInv PROVE TypeOK
      <2>1. ASSUME NEW t \in Threads
            PROVE  /\ data[t].list \in Seq(Entries)
                   /\ data[t].startOffset \in 0..Len(data[t].list)
                   /\ data[t].insertionOffset \in Nat
                   /\ data[t].canWait \in BOOLEAN
                   /\ recursion(t) = 0 => data[t].startOffset = 0
            <3> DEFINE d == data[t]
            <3>1. /\ DataGood(d, posts) /\ Offsets(d, stack[t]) /\ stack[t] \in Seq(CallRecords)
                  BY <1>1 DEF IInv, ThreadGood
            <3>2. d \in DataRecords /\ d.startOffset <= Len(d.list)
                  BY <3>1 DEF DataGood
            <3> HIDE DEF d
            <3>3. /\ d.list \in Seq(Entries) /\ d.startOffset \in Nat /\ d.insertionOffset \in Nat
                  /\ d.canWait \in BOOLEAN /\ Len(d.list) \in Nat
                  BY <3>2, DataFields
            <3>4. d.startOffset \in 0..Len(d.list)
                  BY <3>2, <3>3
            <3>5. recursion(t) = 0 => \A k \in DOMAIN stack[t] : ~IsSend(stack[t][k])
                  <4>1. recursion(t) = 0 => ~(Depth(stack[t], {"send"}) > 0)
                        BY DEF recursion
                  <4>2. QED BY <3>1, <4>1, NoSends
            <3>6. recursion(t) = 0 => d.startOffset = 0
                  BY <3>1, <3>5 DEF Offsets
            <3>7. QED BY <3>3, <3>4, <3>6 DEF d
      <2>2. ASSUME NEW o \in Objects PROVE postedEvents[o] \in 0..Len(posts)
            <3>1. /\ postedEvents[o] = Cardinality(Mail(o)) /\ Len(posts) \in Nat
                  /\ Mail(o) \subseteq 1..Len(posts)
                  BY <1>1, WaitingKnown DEF IInv, Counted, Mail
            <3> DEFINE n == Len(posts)
            <3> HIDE DEF n
            <3>2. n \in Nat /\ Mail(o) \subseteq 1..n
                  BY <3>1 DEF n
            <3>3. IsFiniteSet(1..n) /\ Cardinality(1..n) = n
                  BY <3>2, FS_Interval
            <3>4. IsFiniteSet(Mail(o)) /\ Cardinality(Mail(o)) <= n
                  BY <3>2, <3>3, FS_Subset
            <3>5. Cardinality(Mail(o)) \in Nat
                  BY <3>4, FS_CardinalityType
            <3>6. QED BY <3>1, <3>2, <3>4, <3>5 DEF n
      <2>3. postedEvents \in [Objects -> 0..Len(posts)]
            BY <1>1, <2>2 DEF IInv, Types
      <2>4. QED BY <1>1, <2>1, <2>3 DEF TypeOK, IInv, Types
<1>2. QED BY <1>1, InvariantHolds, PTL

\* Each event is in one entry, where its receiver lives; postedEvents counts the entries,
\* and what addEvent() searches is sorted.
THEOREM ListIsSound == Spec => []ListSound
<1>1. ASSUME IInv PROVE ListSound
      <2>1. \A t \in Threads : DataGood(data[t], posts) /\ Present(t) = Filled(data[t].list)
            BY <1>1 DEF IInv, ThreadGood, Present, Filled
      <2>2. ASSUME NEW t \in Threads, NEW k \in Present(t)
            PROVE  /\ home[data[t].list[k].receiver] = t
                   /\ \A u \in Threads : \A n \in Present(u) :
                        data[u].list[n].event = data[t].list[k].event => <<u, n>> = <<t, k>>
            <3>1. data[t].list[k].event \in Waits(t)
                  BY <2>1 DEF Waits, Events
            <3>2. Agrees(data[t].list[k], posts)
                  BY <2>1 DEF DataGood, ListGood
            <3>3. home[data[t].list[k].receiver] = t
                  BY <1>1, <3>1, <3>2 DEF IInv, AtHome, Agrees
            <3>4. ASSUME NEW u \in Threads, NEW n \in Present(u),
                         data[u].list[n].event = data[t].list[k].event
                  PROVE  <<u, n>> = <<t, k>>
                  <4>1. data[u].list[n].event \in Waits(u)
                        BY <2>1 DEF Waits, Events
                  <4>2. u = t
                        BY <1>1, <3>1, <3>4, <4>1, WaitingKnown
                  <4>3. n = k
                        BY <2>1, <3>4, <4>2 DEF DataGood, ListGood
                  <4>4. QED BY <4>2, <4>3
            <3>5. QED BY <3>3, <3>4
      <2>3. ASSUME NEW o \in Objects
            PROVE  postedEvents[o] = IF home[o] = NoThread THEN 0
                     ELSE Cardinality({k \in Present(home[o]) : data[home[o]].list[k].receiver = o})
            <3>1. postedEvents[o] = Cardinality(Mail(o)) /\ home[o] \in Threads \cup {NoThread}
                  BY <1>1 DEF IInv, Counted, Types
            <3>2. \A t \in Threads : \A e \in Waits(t) : posts[e].receiver = o => home[o] = t
                  BY <1>1 DEF IInv, AtHome
            <3>3. CASE home[o] = NoThread
                  <4>1. Mail(o) = {}
                        BY <3>2, <3>3, EventsAssumption DEF Mail, Waiting
                  <4>2. QED BY <3>1, <3>3, <4>1, FS_EmptySet
            <3>4. CASE home[o] # NoThread
                  <4> DEFINE t == home[o]
                             list == data[t].list
                             here == {k \in Present(t) : list[k].receiver = o}
                             gone == GoneEvents(list, o, "any")
                  <4>1. t \in Threads
                        BY <3>1, <3>4
                  <4>2. /\ Present(t) = Filled(list) /\ list \in Seq(Entries)
                        /\ ListGood(list, posts) /\ Waits(t) = Events(list)
                        <5>1. data[t] \in DataRecords
                              BY <2>1, <4>1 DEF DataGood
                        <5>2. QED BY <2>1, <4>1, <5>1, DataFields DEF DataGood, Waits
                  <4>3. here = Gone(list, o, "any")
                        <5>1. \A k : k \in here <=> k \in Gone(list, o, "any")
                              BY <4>2 DEF Filled, Gone, Taken
                        <5> HIDE DEF here
                        <5>2. QED BY <5>1
                  <4> HIDE DEF list, here
                  <4>4. /\ gone \subseteq Events(list) /\ \A e \in gone : posts[e].receiver = o
                        /\ Cardinality(gone) = Cardinality(Gone(list, o, "any"))
                        BY <4>2, GoneCounted
                  <4> HIDE DEF gone
                  <4>5. gone = Mail(o)
                        <5>1. ASSUME NEW e \in gone PROVE e \in Mail(o)
                              BY <4>1, <4>2, <4>4 DEF Mail, Waiting
                        <5>2. ASSUME NEW e \in Mail(o) PROVE e \in gone
                              <6>1. posts[e].receiver = o /\ e \in Waits(t)
                                    BY <3>2 DEF Mail, Waiting
                              <6>2. QED BY <1>1, <4>1, <6>1, MailGone DEF gone, list
                        <5>3. QED BY <5>1, <5>2
                  <4>6. postedEvents[o] = Cardinality(here)
                        BY <3>1, <4>3, <4>4, <4>5
                  <4>7. QED BY <3>4, <4>6 DEF here, list
            <3>5. QED BY <3>3, <3>4
      <2>4. ASSUME NEW t \in Threads,
                   NEW k \in (data[t].insertionOffset + 1)..(Len(data[t].list) - 1)
            PROVE  data[t].list[k].priority >= data[t].list[k + 1].priority
            <3> DEFINE d == data[t]
            <3>1. d \in DataRecords /\ Sorted(d.list, d.insertionOffset)
                  BY <2>1 DEF DataGood
            <3> HIDE DEF d
            <3>2. /\ d.insertionOffset \in Nat /\ Len(d.list) \in Nat
                  /\ DOMAIN d.list = 1..Len(d.list)
                  BY <3>1, DataFields
            <3>3. k \in (d.insertionOffset + 1)..(Len(d.list) - 1)
                  BY DEF d
            <3>4. /\ k \in DOMAIN d.list /\ k + 1 \in DOMAIN d.list /\ d.insertionOffset < k
                  /\ k < k + 1
                  BY <3>2, <3>3
            <3>5. d.list[k].priority >= d.list[k + 1].priority
                  BY <3>1, <3>4 DEF Sorted
            <3>6. QED BY <3>5 DEF d
      <2>5. QED BY <2>2, <2>3, <2>4 DEF ListSound
<1>2. QED BY <1>1, InvariantHolds, PTL

\* A thread that may sleep has no ordinary event in its list, whatever nests in its calls.
THEOREM NothingLeftBehind == Spec => []NoEventLeftBehind
<1>1. ASSUME IInv PROVE NoEventLeftBehind
      <2>1. ASSUME NEW t \in Threads, Top(t).call = "polled", data[t].canWait,
                   NEW k \in Present(t)
            PROVE  posts[data[t].list[k].event].type = "delete"
            <3>1. stack[t] # <<>>
                  BY <2>1 DEF Top, Call
            <3>2. Last(stack[t]).call = "polled"
                  BY <2>1, <3>1 DEF Top
            <3>3. Innermost(stack[t]) = 0
                  BY <3>1, <3>2 DEF Innermost
            <3>4. NoneLeft(data[t], posts)
                  BY <1>1, <3>3 DEF IInv, ThreadGood, Remembered
            <3>5. QED BY <2>1, <3>4 DEF NoneLeft, Present, Filled
      <2>2. QED BY <2>1 DEF NoEventLeftBehind
<1>2. QED BY <1>1, InvariantHolds, PTL

-----------------------------------------------------------------------------
(* Deliveries *)

\* A handler begins where the rounds of a call have come to its event.
Delivers(t, d, calls, send, d2, c) ==
  /\ Ready(d, calls, send) /\ Delivery(t, d, calls, send, d2, c)
  /\ d.list = data[t].list /\ Below(calls, stack[t])
  /\ UNCHANGED <<home, poster, posts, removed>>

\* A step of thread t in sendPostedEvents() delivers an event or ends the call, and
\* below that what it calls itself stays the same.
Ends(t, d, calls, send, d2, c) ==
  /\ Ready(d, calls, send) /\ Ending(t, d, calls, send, d2, c)
  /\ d.list = data[t].list /\ Below(calls, stack[t])
  /\ UNCHANGED <<home, poster, posts, removed>>

LEMMA SendCases ==
  ASSUME IInv, NEW t \in Threads, NEW receiver \in Objects \cup {NoObject},
         NEW type \in {"any", "delete"}, sendPostedEvents(t, receiver, type)
  PROVE  \/ /\ stack' = [stack EXCEPT ![t] = Polled(stack[t])]
            /\ data' = [data EXCEPT ![t].canWait = (data[t].list = <<>>)]
            /\ UNCHANGED <<home, postedEvents, poster, posts, removed>>
         \/ \E d, send, d2, c : \/ Delivers(t, d, Polled(stack[t]), send, d2, c)
                                \/ Ends(t, d, Polled(stack[t]), send, d2, c)
<1>1. UNCHANGED <<home, poster, posts, removed>>
      BY DEF sendPostedEvents
<1>2. CASE data[t].list = <<>> \/ (receiver # NoObject /\ postedEvents[receiver] = 0)
      BY <1>1, <1>2 DEF sendPostedEvents
<1>3. CASE ~(data[t].list = <<>> \/ (receiver # NoObject /\ postedEvents[receiver] = 0))
      <2> DEFINE d == Entered(data[t])
                 send == SendCall(receiver, type, data[t].startOffset)
                 calls == Polled(stack[t])
      <2>1. GoOn(t, d, calls, send)
            BY <1>3 DEF sendPostedEvents
      <2>2. Ready(d, calls, send) /\ d.list = data[t].list
            BY SendReady
      <2>3. Below(calls, stack[t]) /\ posts \in Seq(PostRecords)
            BY PolledFields DEF IInv, ThreadGood, Types
      <2> HIDE DEF d, send, calls
      <2>4. \E d2, c : Delivery(t, d, calls, send, d2, c) \/ Ending(t, d, calls, send, d2, c)
            BY <2>1, <2>2, <2>3, GoOnCases
      <2>5. \E d2, c : Delivers(t, d, calls, send, d2, c) \/ Ends(t, d, calls, send, d2, c)
            BY <1>1, <2>2, <2>3, <2>4 DEF Delivers, Ends
      <2>6. QED BY <2>5 DEF calls
<1>4. QED BY <1>2, <1>3

LEMMA ReturnCases ==
  ASSUME IInv, NEW t \in Threads, Return(t)
  PROVE  LET calls == SubSeq(stack[t], 1, Len(stack[t]) - 2)
         IN  \E d, send, d2, c : \/ Delivers(t, d, calls, send, d2, c)
                                 \/ Ends(t, d, calls, send, d2, c)
<1> DEFINE n == Len(stack[t])
           d == data[t]
           send == stack[t][n - 1]
           calls == SubSeq(stack[t], 1, n - 2)
<1>1. UNCHANGED <<home, poster, posts, removed>> /\ Top(t).call = "handler"
      BY DEF Return
<1>2. n \in Nat /\ Ready(d, calls, send) /\ Below(calls, stack[t])
      BY <1>1, ReturnReady
<1>3. GoOn(t, d, calls, send)
      <2>1. GoOn(t, data[t], calls, stack[t][n - 2 + 1])
            BY DEF Return
      <2>2. n - 2 + 1 = n - 1
            BY <1>2
      <2>3. QED BY <2>1, <2>2
<1>4. d.list = data[t].list /\ posts \in Seq(PostRecords)
      BY DEF IInv, Types
<1> HIDE DEF n, d, send, calls
<1>5. \E d2, c : Delivery(t, d, calls, send, d2, c) \/ Ending(t, d, calls, send, d2, c)
      BY <1>2, <1>3, <1>4, GoOnCases
<1>6. \E d2, c : Delivers(t, d, calls, send, d2, c) \/ Ends(t, d, calls, send, d2, c)
      BY <1>1, <1>2, <1>4, <1>5 DEF Delivers, Ends
<1>7. QED BY <1>6 DEF calls, n

\* No handler begins when the calls below stay, or some of them.
LEMMA BelowBegins ==
  ASSUME NEW t, NEW calls, stack'[t] = calls, Below(calls, stack[t]), calls \in Seq(CallRecords)
  PROVE  ~Begins(t)
<1> SUFFICES ASSUME stack'[t] # <<>> PROVE ~Begins(t)
    BY DEF Begins
<1> DEFINE n == Len(calls)
<1>1. n \in Nat /\ DOMAIN calls = 1..n /\ n # 0
      BY LenProperties, EmptySeq
<1>2. n \in DOMAIN calls /\ Last(calls) = calls[n]
      BY <1>1 DEF Last
<1> HIDE DEF n
<1>3. n \in DOMAIN stack[t] /\ calls[n].event = stack[t][n].event
      BY <1>2 DEF Below
<1>4. QED BY <1>2, <1>3 DEF Begins

LEMMA EndsCalls ==
  ASSUME NEW t, NEW d, NEW calls, NEW send, Ready(d, calls, send)
  PROVE  AfterCall(calls, send) \in Seq(CallRecords) /\ Below(AfterCall(calls, send), calls)
<1>1. calls \in Seq(CallRecords)
      BY DEF Ready
<1>2. QED BY <1>1, AfterCallFields DEF Below

LEMMA BelowBelow ==
  ASSUME NEW a, NEW b, NEW c, Below(a, b), Below(b, c)
  PROVE  Below(a, c)
BY DEF Below

LEMMA SendBegins ==
  ASSUME IInv, NEW t \in Threads, NEW receiver \in Objects \cup {NoObject},
         NEW type \in {"any", "delete"}, sendPostedEvents(t, receiver, type), Begins(t)
  PROVE  \E d, calls, send, d2, c : Delivers(t, d, calls, send, d2, c)
<1> DEFINE calls == Polled(stack[t])
<1>1. calls \in Seq(CallRecords) /\ Below(calls, stack[t]) /\ stack \in [Threads -> Seq(CallRecords)]
      BY PolledFields DEF IInv, ThreadGood, Types
<1>2. ~(stack' = [stack EXCEPT ![t] = calls])
      BY <1>1, BelowBegins
<1>3. ASSUME NEW d, NEW send, NEW d2, NEW c, Ends(t, d, calls, send, d2, c) PROVE FALSE
      <2> DEFINE after == AfterCall(calls, send)
      <2>1. Ready(d, calls, send) /\ stack' = [stack EXCEPT ![t] = after]
            BY <1>3 DEF Ends, Ending
      <2>2. stack'[t] = after
            BY <1>1, <2>1
      <2> HIDE DEF calls
      <2>3. after \in Seq(CallRecords) /\ Below(after, calls)
            BY <2>1, EndsCalls
      <2> HIDE DEF after
      <2>4. QED BY <1>1, <2>2, <2>3, BelowBelow, BelowBegins
<1>4. QED BY <1>2, <1>3, SendCases

LEMMA ReturnBegins ==
  ASSUME IInv, NEW t \in Threads, Return(t), Begins(t)
  PROVE  \E d, calls, send, d2, c : Delivers(t, d, calls, send, d2, c)
<1> DEFINE calls == SubSeq(stack[t], 1, Len(stack[t]) - 2)
<1>1. Below(calls, stack[t]) /\ stack \in [Threads -> Seq(CallRecords)]
      <2>1. Top(t).call = "handler"
            BY DEF Return
      <2>2. QED BY <2>1, ReturnReady DEF IInv, Types
<1>2. ASSUME NEW d, NEW send, NEW d2, NEW c, Ends(t, d, calls, send, d2, c) PROVE FALSE
      <2> DEFINE after == AfterCall(calls, send)
      <2>1. Ready(d, calls, send) /\ stack' = [stack EXCEPT ![t] = after]
            BY <1>2 DEF Ends, Ending
      <2>2. stack'[t] = after
            BY <1>1, <2>1
      <2> HIDE DEF calls
      <2>3. after \in Seq(CallRecords) /\ Below(after, calls)
            BY <2>1, EndsCalls
      <2> HIDE DEF after
      <2>4. QED BY <1>1, <2>2, <2>3, BelowBelow, BelowBegins
<1>3. QED BY <1>2, ReturnCases

\* Other steps begin no handler in t.
LEMMA SameBegins ==
  ASSUME IInv, NEW t \in Threads, stack'[t] = stack[t]
  PROVE  ~Begins(t)
<1>1. stack[t] \in Seq(CallRecords)
      BY DEF IInv, Types
<1>2. Below(stack[t], stack[t])
      BY DEF Below
<1>3. QED BY <1>1, <1>2, BelowBegins

LEMMA LoopBegins ==
  ASSUME IInv, NEW t \in Threads, EnterLoop(t) \/ LeaveLoop(t)
  PROVE  ~Begins(t)
<1>1. stack \in [Threads -> Seq(CallRecords)] /\ ThreadGood(data[t], stack[t], posts)
      BY DEF IInv, Types
<1>2. CASE EnterLoop(t)
      <2> DEFINE loop == Call("loop")
      <2>1. stack'[t] = Append(stack[t], loop)
            BY <1>1, <1>2 DEF EnterLoop
      <2>2. loop.call = "loop" /\ loop \in CallRecords
            BY DEF Call, CallRecords, NoEvent
      <2> HIDE DEF loop
      <2>3. Last(stack'[t]) = loop
            BY <1>1, <2>1, <2>2, AppendProperties DEF Last
      <2>4. QED BY <2>2, <2>3 DEF Begins
<1>3. CASE LeaveLoop(t)
      <2> DEFINE calls == stack[t]
                 n == Len(calls)
                 m == n - 1
                 less == SubSeq(calls, 1, m)
      <2>1. /\ stack'[t] = less /\ calls # <<>> /\ Last(calls) = calls[n]
            /\ Last(calls).call \in {"loop", "polled"}
            BY <1>1, <1>3 DEF LeaveLoop, Top, Call, Front, Last
      <2>2. calls \in Seq(CallRecords) /\ Nested(calls, posts)
            BY <1>1 DEF ThreadGood
      <2> HIDE DEF calls, less
      <2>3. n \in Nat /\ n # 0
            BY <2>1, <2>2, LenProperties, EmptySeq
      <2>4. m \in Nat /\ m <= n /\ m + 1 = n
            BY <2>3
      <2> HIDE DEF m
      <2>5. m <= Len(calls) /\ calls[m + 1].call # "handler"
            BY <2>1, <2>4
      <2>6. less \in Seq(CallRecords) /\ Below(less, calls)
            BY <2>2, <2>4, <2>5, FirstCalls DEF less
      <2>7. QED BY <2>1, <2>6, BelowBegins DEF calls
<1>4. QED BY <1>2, <1>3

LEMMA BeginsDelivers ==
  ASSUME IInv, [Next]_vars, NEW t \in Threads, Begins(t)
  PROVE  \E d, calls, send, d2, c : Delivers(t, d, calls, send, d2, c)
<1> DEFINE Goal == \E d, calls, send, d2, c : Delivers(t, d, calls, send, d2, c)
<1>1. stack \in [Threads -> Seq(CallRecords)]
      BY DEF IInv, Types
<1>2. ~(UNCHANGED stack)
      BY SameBegins
<1>3. CASE UNCHANGED vars
      BY <1>2, <1>3 DEF vars
<1>4. ASSUME NEW u \in Threads, NEW calls, stack' = [stack EXCEPT ![u] = calls] PROVE u = t
      <2>1. u # t => stack'[t] = stack[t]
            BY <1>1, <1>4
      <2>2. QED BY <2>1, SameBegins
<1>5. ASSUME NEW u \in Threads, Sending(u) PROVE Goal
      <2>1. ASSUME NEW receiver \in Objects \cup {NoObject}, NEW type \in {"any", "delete"},
                   sendPostedEvents(u, receiver, type)
            PROVE  Goal
            <3>1. \E calls : stack' = [stack EXCEPT ![u] = calls]
                  <4>1. CASE \/ data[u].list = <<>>
                             \/ receiver # NoObject /\ postedEvents[receiver] = 0
                        BY <2>1, <4>1 DEF sendPostedEvents
                  <4>2. CASE ~(\/ data[u].list = <<>>
                               \/ receiver # NoObject /\ postedEvents[receiver] = 0)
                        BY <2>1, <4>2 DEF sendPostedEvents, GoOn
                  <4>3. QED BY <4>1, <4>2
            <3>2. u = t
                  BY <1>4, <3>1
            <3>3. QED BY <2>1, <3>2, SendBegins
      <2>2. ASSUME Return(u) PROVE Goal
            <3>1. \E calls : stack' = [stack EXCEPT ![u] = calls]
                  BY <2>2 DEF Return, GoOn
            <3>2. u = t
                  BY <1>4, <3>1
            <3>3. QED BY <2>2, <3>2, ReturnBegins
      <2> HIDE DEF Goal
      <2>3. ASSUME NEW receiver \in Objects, sendPostedEvents(u, receiver, "any") PROVE Goal
            <3> DEFINE type == "any"
            <3>1. type \in {"any", "delete"} /\ sendPostedEvents(u, receiver, type)
                  BY <2>3
            <3> HIDE DEF type
            <3>2. QED BY <2>1, <3>1
      <2>4. ASSUME NEW type \in {"any", "delete"}, sendPostedEvents(u, NoObject, type) PROVE Goal
            BY <2>1, <2>4
      <2>5. QED BY <1>5, <2>2, <2>3, <2>4 DEF Sending
<1>6. ASSUME NEW u \in Threads, Code(u) PROVE Goal
      <2>1. \A o \in Objects : \A kind \in Kinds : ~PostHere(u, o, kind)
            BY <1>2 DEF PostHere
      <2>2. \A o \in Objects : \A type : ~removePostedEvents(u, o, type)
            BY <1>2 DEF removePostedEvents
      <2>3. \A o \in Objects : \A v \in Threads : ~moveToThread(u, o, v)
            BY <1>2 DEF moveToThread
      <2>4. ~Destroy(u)
            BY <1>2 DEF Destroy
      <2>5. ASSUME EnterLoop(u) \/ LeaveLoop(u) PROVE FALSE
            <3>1. \E calls : stack' = [stack EXCEPT ![u] = calls]
                  BY <2>5 DEF EnterLoop, LeaveLoop
            <3>2. u = t
                  BY <1>4, <3>1
            <3>3. QED BY <2>5, <3>2, LoopBegins
      <2>6. QED BY <1>6, <2>1, <2>2, <2>3, <2>4, <2>5 DEF Code
<1>7. ASSUME NEW p \in Posters, Posting(p) PROVE FALSE
      BY <1>2, <1>7 DEF Posting, ReadThreadData, Follow, PostThere
<1>8. QED BY <1>3, <1>5, <1>6, <1>7 DEF Next

LEMMA DeliversFields ==
  ASSUME IInv, NEW t \in Threads, NEW d, NEW calls, NEW send, NEW d2, NEW c,
         Delivers(t, d, calls, send, d2, c)
  PROVE  LET e == Current(d2, c).event
             n == Len(calls)
             more == stack'[t]
         IN  /\ n \in Nat /\ calls \in Seq(CallRecords) /\ DOMAIN calls = 1..n
             /\ Below(calls, stack[t])
             /\ e \in Waits(t) /\ e \in DOMAIN posts /\ e # NoEvent
             /\ more \in Seq(CallRecords) /\ Len(more) = n + 2 /\ DOMAIN more = 1..(n + 2)
             /\ \A k \in 1..n : more[k] = calls[k]
             /\ more[n + 1].call = "send" /\ more[n + 1].event = NoEvent
             /\ more[n + 1].type = c.type /\ more[n + 1].cut = c.cut
             /\ more[n + 2].call = "handler" /\ more[n + 2].event = e
             /\ Begun(t) = e /\ Sender(t) = n + 1
<1> DEFINE e == Current(d2, c).event
           n == Len(calls)
           c2 == CountedCall(c)
           h == HandlerCall(e)
           more == Called(calls, c, e)
<1>1. /\ posts \in Seq(PostRecords) /\ stack \in [Threads -> Seq(CallRecords)]
      /\ data[t] \in DataRecords
      BY DEF IInv, Types
<1>2. /\ Ready(d, calls, send) /\ Walks(d, send, d2, c) /\ Events(d2.list) = Events(d.list)
      /\ Goes(d2, c) /\ e # NoEvent /\ d.list = data[t].list /\ Below(calls, stack[t])
      /\ stack' = [stack EXCEPT ![t] = more]
      BY DEF Delivers, Delivery, Deliverable
<1>3. e \in Waits(t) /\ e \in DOMAIN posts
      BY <1>1, <1>2, DeliveringThread DEF Waits
<1>4. e \in Nat
      BY <1>1, <1>3, LenProperties
<1>5. calls \in Seq(CallRecords)
      BY <1>2 DEF Ready
<1>6. c \in CallRecords /\ IsSend(c) /\ c.event = NoEvent
      <2>1. c \in CallRecords /\ IsSend(c) /\ c.event = send.event
            BY <1>2 DEF Walks
      <2>2. send.event = NoEvent
            BY <1>2 DEF Ready
      <2>3. QED BY <2>1, <2>2
<1>7. /\ c2 \in CallRecords /\ c2.call = "send" /\ c2.event = NoEvent
      /\ c2.type = c.type /\ c2.cut = c.cut
      <2>1. c.next + 1 \in Nat
            BY <1>6 DEF CallRecords
      <2>2. QED BY <1>6, <2>1 DEF CountedCall, CallRecords, IsSend
<1> HIDE DEF c2
<1>8. h \in CallRecords /\ h.call = "handler" /\ h.event = e
      <2> DEFINE r == Call("handler")
      <2>1. r \in CallRecords /\ r.call = "handler"
            BY DEF Call, CallRecords, NoEvent
      <2> HIDE DEF r, e
      <2>2. h = [r EXCEPT !.event = e]
            BY DEF HandlerCall, r
      <2> HIDE DEF h
      <2>3. QED BY <1>4, <2>1, <2>2 DEF CallRecords
<1>9. more = calls \o <<c2, h>>
      BY DEF Called, c2
<1> HIDE DEF more, h, e, n
<1>10. /\ n \in Nat /\ more \in Seq(CallRecords) /\ Len(more) = n + 2
       /\ DOMAIN more = 1..(n + 2) /\ DOMAIN calls = 1..n
       /\ \A k \in 1..n : more[k] = calls[k]
       /\ more[n + 1] = c2 /\ more[n + 2] = h /\ Last(more) = h
       BY <1>5, <1>7, <1>8, <1>9, CalledMore DEF n
<1>11. stack'[t] = more
       BY <1>1, <1>2
<1>12. Begun(t) = e
       BY <1>8, <1>10, <1>11 DEF Begun
<1>13. Sender(t) = n + 1
       <2>1. Sender(t) = n + 2 - 1
             BY <1>10, <1>11 DEF Sender
       <2>2. QED BY <1>10, <2>1
<1>14. more[n + 1].call = "send" /\ more[n + 1].event = NoEvent
       /\ more[n + 1].type = c.type /\ more[n + 1].cut = c.cut
       BY <1>7, <1>10
<1>15. more[n + 2].call = "handler" /\ more[n + 2].event = e
       BY <1>8, <1>10
<1>16. QED BY <1>2, <1>3, <1>5, <1>10, <1>11, <1>12, <1>13, <1>14, <1>15 DEF e, n

\* While the handler that called deleteLater() runs, only a call that sends deletions
\* deletes the object.
THEOREM DeletedAfterItsHandler == Spec => DeletedAfterReturn
<1>1. ASSUME IInv, [Next]_vars, NEW t \in Threads, Begins(t), posts[Begun(t)].asker # NoEvent,
             stack'[t][Sender(t)].type = "any", NEW k \in DOMAIN stack'[t],
             stack'[t][k].event = posts[Begun(t)].asker
      PROVE  FALSE
      <2>1. PICK d, calls, send, d2, c : Delivers(t, d, calls, send, d2, c)
            BY <1>1, BeginsDelivers
      <2> DEFINE e == Current(d2, c).event
                 n == Len(calls)
                 asker == posts[e].asker
                 level == posts[e].level
      <2>2. /\ n \in Nat /\ calls \in Seq(CallRecords) /\ DOMAIN calls = 1..n
            /\ Below(calls, stack[t])
            /\ e \in Waits(t) /\ e \in DOMAIN posts /\ e # NoEvent
            /\ DOMAIN stack'[t] = 1..(n + 2)
            /\ \A j \in 1..n : stack'[t][j] = calls[j]
            /\ stack'[t][n + 1].event = NoEvent /\ stack'[t][n + 1].type = c.type
            /\ stack'[t][n + 2].event = e /\ Begun(t) = e /\ Sender(t) = n + 1
            BY <1>1, <2>1, DeliversFields
      <2>3. Deliverable(calls, d2, c)
            BY <2>1 DEF Delivers, Delivery
      <2> HIDE DEF e, n
      <2>4. /\ posts[e].type = "delete" /\ asker \in DOMAIN posts \ Waiting /\ level >= 1
            /\ \A j \in DOMAIN stack[t] : stack[t][j].event = asker => Level(stack[t], j) = level
            BY <1>1, <2>2 DEF IInv, Noted
      <2>5. level \in Nat
            BY <1>1, <2>2, WaitingKnown DEF PostRecords
      <2>6. level > loopLevel(calls)
            <3>1. AllowDelete(calls, c, level) /\ c.type = "any"
                  BY <1>1, <2>2, <2>3, <2>4 DEF Deliverable, e
            <3>2. level # 0
                  BY <2>4, <2>5
            <3>3. QED BY <3>1, <3>2 DEF AllowDelete
      <2>7. e \in Waiting
            BY <2>2 DEF Waiting
      <2>8. k \in 1..n
            <3>1. k \in 1..(n + 2) /\ stack'[t][k].event = asker /\ asker # NoEvent
                  BY <1>1, <2>2
            <3>2. k # n + 1 /\ k # n + 2
                  BY <2>2, <2>4, <2>7, <3>1
            <3>3. QED BY <2>2, <3>1, <3>2
      <2>9. k \in DOMAIN calls /\ calls[k].event = asker
            BY <1>1, <2>2, <2>8
      <2>10. Level(calls, k) = level
             <3>1. k \in DOMAIN stack[t] /\ stack[t][k].event = asker
                   BY <2>2, <2>9 DEF Below
             <3>2. stack[t] \in Seq(CallRecords)
                   BY <1>1 DEF IInv, Types
             <3>3. Level(calls, k) = Level(stack[t], k)
                   BY <2>2, <2>9, <3>2, BelowLevel
             <3>4. QED BY <2>4, <3>1, <3>3
      <2> DEFINE all == {j \in DOMAIN calls : calls[j].call \in Levels}
                 some == {j \in DOMAIN calls : j <= k /\ calls[j].call \in Levels}
      <2>11. Level(calls, k) = Cardinality(some) /\ loopLevel(calls) = Cardinality(all)
             BY DEF Level, loopLevel, Depth, Levels
      <2>12. some \subseteq all /\ all \subseteq 1..n
             BY <2>2
      <2> HIDE DEF all, some
      <2>13. IsFiniteSet(all)
             <3>1. IsFiniteSet(1..n)
                   BY <2>2, FS_Interval
             <3>2. QED BY <2>12, <3>1, FS_Subset
      <2>14. Cardinality(some) <= Cardinality(all) /\ Cardinality(all) \in Nat
             BY <2>12, <2>13, FS_Subset, FS_CardinalityType
      <2> HIDE DEF level
      <2>15. QED BY <2>5, <2>6, <2>10, <2>11, <2>14
<1> DEFINE Kept == \A t \in Threads :
             Begins(t) /\ posts[Begun(t)].asker # NoEvent /\ stack'[t][Sender(t)].type = "any" =>
               \A k \in DOMAIN stack'[t] : stack'[t][k].event # posts[Begun(t)].asker
<1>2. IInv /\ [Next]_vars => [Kept]_vars
      BY <1>1
<1>3. QED BY <1>2, InvariantHolds, PTL DEF Spec, DeletedAfterReturn

\* The events of a receiver and a priority are delivered in the order posted, unless a
\* global call inside has cut the list.
THEOREM PostedInOrder == Spec => InOrderPosted
<1>1. ASSUME IInv, [Next]_vars, NEW t \in Threads, Begins(t), ~stack'[t][Sender(t)].cut,
             NEW f \in DOMAIN posts, Overtakes(Begun(t), f, t)
      PROVE  FALSE
      <2>1. PICK d, calls, send, d2, c : Delivers(t, d, calls, send, d2, c)
            BY <1>1, BeginsDelivers
      <2> DEFINE e == Current(d2, c).event
                 i == Index(d2, c) + 1
                 n == Len(calls)
                 list == d2.list
      <2>2. /\ Begun(t) = e /\ Sender(t) = n + 1 /\ stack'[t][n + 1].cut = c.cut
            BY <1>1, <2>1, DeliversFields
      <2>3. /\ Walks(d, send, d2, c) /\ Events(list) = Waits(t) /\ Goes(d2, c)
            /\ Asked(d2, c) /\ e # NoEvent
            <3>1. d.list = data[t].list
                  BY <2>1 DEF Delivers
            <3>2. /\ Walks(d, send, d2, c) /\ Events(list) = Events(d.list) /\ Goes(d2, c)
                  /\ Asked(d2, c) /\ e # NoEvent
                  BY <2>1 DEF Delivers, Delivery, Deliverable
            <3>3. QED BY <3>1, <3>2 DEF Waits
      <2>4. DataGood(d2, posts) /\ HasPassed(d2, c, posts) /\ IsSend(c) /\ c \in CallRecords
            BY <2>3 DEF Walks
      <2>5. /\ d2 \in DataRecords /\ ListGood(list, posts)
            /\ \A k \in DOMAIN list : k <= d2.startOffset => list[k].event = NoEvent
            BY <2>4 DEF DataGood
      <2>6. DOMAIN list = 1..Len(list) /\ Len(list) \in Nat
            BY <2>5, DataFields
      <2>7. Index(d2, c) \in Nat /\ i \in DOMAIN list
            BY <2>3, <2>4, <2>5, GoesTo
      <2>8. e = list[i].event /\ i \in Filled(list) /\ Agrees(list[i], posts)
            BY <2>3, <2>5, <2>7 DEF Current, Filled, ListGood
      <2>9. /\ f < e /\ posts[f].type = "ordinary" /\ posts[e].type = "ordinary"
            /\ posts[f].receiver = posts[e].receiver /\ posts[f].priority = posts[e].priority
            /\ f \in Waits(t)
            BY <1>1, <2>2 DEF Overtakes, Present, Waits, Events, Filled
      <2>10. PICK j \in Filled(list) : list[j].event = f
             BY <2>3, <2>9 DEF Events
      <2>11. f \in Nat /\ e \in Nat
             BY <1>1, <2>8, WaitingKnown DEF Agrees
      <2> HIDE DEF e, list
      <2>12. ~(i < j)
             <3>1. i < j => e < f
                   BY <2>5, <2>8, <2>9, <2>10 DEF ListGood, SameRank
             <3>2. QED BY <2>9, <2>11, <3>1
      <2>13. i # j
             BY <2>8, <2>9, <2>10, <2>11
      <2>14. j \in Nat /\ j <= Index(d2, c)
             <3>1. j \in Nat /\ i \in Nat
                   BY <2>6, <2>7, <2>10 DEF Filled
             <3>2. j < i
                   BY <2>12, <2>13, <3>1
             <3>3. QED BY <2>7, <3>1, <3>2
      <2>15. CASE IsGlobal(c)
             <3>1. j <= d2.startOffset
                   BY <2>14, <2>15 DEF Index
             <3>2. QED BY <2>5, <2>10, <3>1 DEF Filled
      <2>16. CASE ~IsGlobal(c)
             <3>1. j <= c.next /\ ~c.cut
                   BY <1>1, <2>2, <2>14, <2>16 DEF Index
             <3>2. c.receiver \notin {NoObject, list[j].receiver} \/ c.type = "delete"
                   BY <2>4, <2>9, <2>10, <2>16, <3>1 DEF HasPassed, list
             <3>3. c.receiver \in {NoObject, list[i].receiver} /\ c.type \in {"any", "ordinary"}
                   BY <2>3, <2>8, <2>9 DEF Asked, Current, list, e
             <3>4. list[i].receiver = list[j].receiver
                   BY <2>5, <2>8, <2>9, <2>10 DEF ListGood, Agrees
             <3>5. QED BY <3>2, <3>3, <3>4
      <2>17. QED BY <2>15, <2>16
<1> DEFINE Kept == \A t \in Threads :
             Begins(t) /\ ~stack'[t][Sender(t)].cut =>
               \A f \in DOMAIN posts : ~Overtakes(Begun(t), f, t)
<1>2. IInv /\ [Next]_vars => [Kept]_vars
      BY <1>1
<1>3. QED BY <1>2, InvariantHolds, PTL DEF Spec, InOrderPosted

-----------------------------------------------------------------------------
(* The refinement: what waits, and the handlers that run *)

LEMMA PendingWaits == Pending = Waiting /\ Pending' = Waiting'
BY DEF Pending, Present, Waiting, Waits, Events, Filled

IsHandler(call) == call.call = "handler"

\* Running() goes by the handlers only.
LEMMA RunningSame ==
  ASSUME NEW calls, NEW q, DOMAIN q = DOMAIN calls,
         \A k \in DOMAIN calls : q[k].event = calls[k].event
                                 /\ (IsHandler(q[k]) <=> IsHandler(calls[k]))
  PROVE  Running(q) = Running(calls)
<1>1. [k \in DOMAIN q |-> q[k].event] = [k \in DOMAIN calls |-> calls[k].event]
      OBVIOUS
<1>2. {k \in DOMAIN q : q[k].call = "handler"} = {k \in DOMAIN calls : calls[k].call = "handler"}
      BY DEF IsHandler
<1>3. QED BY <1>1, <1>2 DEF Running

\* The events of some calls
LEMMA RunningEvents ==
  ASSUME NEW calls \in Seq(CallRecords)
  PROVE  LET s == [k \in DOMAIN calls |-> calls[k].event]
         IN  s \in Seq(Nat) /\ Len(s) = Len(calls) /\ \A k \in DOMAIN calls : s[k] = calls[k].event
<1> DEFINE s == [k \in DOMAIN calls |-> calls[k].event]
<1>1. DOMAIN calls = 1..Len(calls) /\ Len(calls) \in Nat
      BY LenProperties
<1>2. \A k \in DOMAIN calls : calls[k].event \in Nat
      BY CallFields
<1>3. s \in [1..Len(calls) -> Nat]
      BY <1>1, <1>2
<1>4. s \in Seq(Nat)
      BY <1>1, <1>3, SeqDef
<1>5. Len(s) = Len(calls)
      <2>1. DOMAIN s = 1..Len(s) /\ Len(s) \in Nat
            BY <1>4, LenProperties
      <2>2. DOMAIN s = 1..Len(calls)
            BY <1>1
      <2> HIDE DEF s
      <2> DEFINE n == Len(calls)
                 m == Len(s)
      <2>3. n \in Nat /\ m \in Nat /\ \A k \in Nat : k \in 1..m <=> k \in 1..n
            BY <1>1, <2>1, <2>2
      <2> HIDE DEF n, m
      <2>4. m <= n
            <3>1. m # 0 => m \in 1..m
                  BY <2>3
            <3>2. QED BY <2>3, <3>1
      <2>5. n <= m
            <3>1. n # 0 => n \in 1..n
                  BY <2>3
            <3>2. QED BY <2>3, <3>1
      <2>6. m = n
            BY <2>3, <2>4, <2>5
      <2>7. QED BY <2>6 DEF n, m
<1>6. QED BY <1>4, <1>5

\* One call more
LEMMA RunningMore ==
  ASSUME NEW calls \in Seq(CallRecords), NEW more \in Seq(CallRecords),
         Len(more) = Len(calls) + 1,
         \A k \in DOMAIN calls : more[k].event = calls[k].event
                                 /\ (IsHandler(more[k]) <=> IsHandler(calls[k]))
  PROVE  LET top == more[Len(more)]
         IN  /\ Running(calls) \in Seq(Nat)
             /\ Running(more) = IF IsHandler(top) THEN Append(Running(calls), top.event)
                                ELSE Running(calls)
<1> DEFINE s == [k \in DOMAIN calls |-> calls[k].event]
           r == [k \in DOMAIN more |-> more[k].event]
           K == {k \in DOMAIN calls : calls[k].call = "handler"}
           J == {k \in DOMAIN more : more[k].call = "handler"}
           n == Len(more)
<1>1. /\ DOMAIN calls = 1..Len(calls) /\ Len(calls) \in Nat
      /\ DOMAIN more = 1..n /\ n \in DOMAIN more
      BY LenProperties
<1>2. s \in Seq(Nat) /\ Len(s) = Len(calls) /\ \A k \in DOMAIN calls : s[k] = calls[k].event
      BY RunningEvents
<1>3. r \in Seq(Nat) /\ Len(r) = n /\ \A k \in DOMAIN more : r[k] = more[k].event
      BY RunningEvents
<1>4. DOMAIN s = DOMAIN calls
      OBVIOUS
<1>5. \A k \in DOMAIN s : s[k] = r[k] /\ (k \in K <=> k \in J)
      <2>1. \A k \in DOMAIN calls : k \in DOMAIN more
            BY <1>1
      <2>2. \A k \in DOMAIN calls : k \in K <=> k \in J
            BY <2>1 DEF IsHandler
      <2> HIDE DEF s, r, K, J, n
      <2>3. QED BY <1>2, <1>3, <1>4, <2>1, <2>2
<1>6. K \subseteq DOMAIN s
      BY <1>4
<1>7. n \in J <=> IsHandler(more[n])
      BY <1>1 DEF IsHandler
<1>8. Running(calls) = Selected(s, K) /\ Running(more) = Selected(r, J)
      BY DEF Running
<1> HIDE DEF s, r, K, J
<1>9. Selected(s, K) \in Seq(Nat)
      BY <1>2, <1>6, SelectedPicks
<1>10. Selected(r, J) = IF Len(r) \in J THEN Append(Selected(s, K), r[Len(r)])
                        ELSE Selected(s, K)
       <2>1. Len(r) = Len(s) + 1
             BY <1>2, <1>3
       <2>2. SameChoice(s, K, r, J)
             BY <1>5 DEF SameChoice
       <2> DEFINE S == Nat
       <2>3. s \in Seq(S) /\ r \in Seq(S)
             BY <1>2, <1>3
       <2> HIDE DEF S
       <2>4. QED BY <2>1, <2>2, <2>3, SelectedOneMore
<1>11. r[n] = more[n].event
       BY <1>1, <1>3
<1>12. QED BY <1>3, <1>7, <1>8, <1>9, <1>10, <1>11

\* A call of sendPostedEvents(), and the handler it has called
LEMMA RunningHandler ==
  ASSUME NEW calls \in Seq(CallRecords), NEW more \in Seq(CallRecords), NEW n,
         n = Len(calls), Len(more) = n + 2,
         \A k \in 1..n : more[k] = calls[k],
         more[n + 1].call = "send", more[n + 2].call = "handler"
  PROVE  /\ Running(calls) \in Seq(Nat) /\ more[n + 2].event \in Nat
         /\ Running(more) = Append(Running(calls), more[n + 2].event)
<1> DEFINE c == more[n + 1]
           mid == Append(calls, c)
<1>1. n \in Nat /\ DOMAIN calls = 1..n /\ DOMAIN more = 1..(n + 2)
      BY LenProperties
<1>2. n + 1 \in DOMAIN more /\ n + 2 \in DOMAIN more
      BY <1>1
<1>3. c \in CallRecords /\ more[n + 2].event \in Nat
      BY <1>2, CallFields
<1> HIDE DEF c
<1>4. /\ mid \in Seq(CallRecords) /\ Len(mid) = n + 1
      /\ \A k \in 1..n : mid[k] = calls[k]
      /\ mid[n + 1] = c
      BY <1>3, AppendProperties
<1> HIDE DEF mid
<1>5. DOMAIN mid = 1..(n + 1)
      BY <1>4, LenProperties
<1>6. Running(calls) \in Seq(Nat) /\ Running(mid) = Running(calls)
      <2>1. \A k \in DOMAIN calls : mid[k].event = calls[k].event
                                    /\ (IsHandler(mid[k]) <=> IsHandler(calls[k]))
            BY <1>1, <1>4
      <2>2. ~IsHandler(mid[Len(mid)])
            BY <1>4 DEF c, IsHandler
      <2>3. QED BY <1>4, <2>1, <2>2, RunningMore
<1>7. Running(more) = Append(Running(mid), more[n + 2].event)
      <2>1. \A k \in 1..(n + 1) : more[k] = mid[k]
            <3>1. \A k \in 1..(n + 1) : k \in 1..n \/ k = n + 1
                  BY <1>1
            <3>2. QED BY <1>4, <3>1 DEF c
      <2>2. \A k \in DOMAIN mid : more[k].event = mid[k].event
                                  /\ (IsHandler(more[k]) <=> IsHandler(mid[k]))
            BY <1>5, <2>1
      <2>3. Len(more) = Len(mid) + 1
            BY <1>1, <1>4
      <2>4. IsHandler(more[Len(more)])
            BY DEF IsHandler
      <2>5. Running(more) = Append(Running(mid), more[Len(more)].event)
            BY <1>4, <2>2, <2>3, <2>4, RunningMore
      <2>6. QED BY <2>5
<1>8. QED BY <1>3, <1>6, <1>7

LEMMA HandlingStep ==
  ASSUME IInv, NEW t \in Threads, NEW calls, stack' = [stack EXCEPT ![t] = calls]
  PROVE  Handling' = [Handling EXCEPT ![t] = Running(calls)] /\ Handling[t] = Running(stack[t])
<1>1. stack \in [Threads -> Seq(CallRecords)]
      BY DEF IInv, Types
<1>2. stack'[t] = calls /\ \A u \in Threads : u # t => stack'[u] = stack[u]
      BY <1>1
<1>3. Handling' = [u \in Threads |-> Running(stack'[u])]
      BY DEF Handling, Running
<1>4. Handling = [u \in Threads |-> Running(stack[u])]
      BY DEF Handling
<1>5. \A u \in Threads : Running(stack'[u]) = IF u = t THEN Running(calls) ELSE Handling[u]
      BY <1>2, <1>4
<1>6. Handling' = [u \in Threads |-> IF u = t THEN Running(calls) ELSE Handling[u]]
      BY <1>3, <1>5
<1>7. Handling = [u \in Threads |-> Handling[u]] /\ Handling[t] = Running(stack[t])
      BY <1>4
<1> HIDE DEF Handling
<1>8. QED BY <1>6, <1>7

\* The handler of thread t on top, and those below it
LEMMA TopRunning ==
  ASSUME IInv, NEW t \in Threads, Top(t).call = "handler"
  PROVE  LET calls == SubSeq(stack[t], 1, Len(stack[t]) - 2)
         IN  /\ Running(calls) \in Seq(Nat) /\ Top(t).event \in Nat
             /\ Handling[t] = Append(Running(calls), Top(t).event)
             /\ Handling[t] # <<>> /\ Front(Handling[t]) = Running(calls)
             /\ Last(Handling[t]) = Top(t).event
<1> DEFINE old == stack[t]
           n == Len(old)
           m == n - 2
           calls == SubSeq(old, 1, m)
           e == Top(t).event
<1>1. old # <<>>
      BY DEF Top, Call
<1>2. /\ old \in Seq(CallRecords) /\ Top(t) = old[n]
      BY <1>1, LastCall
<1>3. /\ n \in Nat /\ n >= 2 /\ old[n - 1].call = "send"
      /\ calls \in Seq(CallRecords) /\ Len(calls) = m
      /\ \A k \in 1..m : calls[k] = old[k]
      BY ReturnReady DEF IsSend
<1> HIDE DEF calls
<1>4. m \in Nat /\ m + 1 = n - 1 /\ m + 2 = n
      BY <1>3
<1> HIDE DEF m
<1>5. Running(calls) \in Seq(Nat) /\ e \in Nat /\ Running(old) = Append(Running(calls), e)
      <2>1. /\ Len(old) = m + 2 /\ \A k \in 1..m : old[k] = calls[k]
            /\ old[m + 1].call = "send" /\ old[m + 2].call = "handler" /\ old[m + 2].event = e
            BY <1>2, <1>3, <1>4
      <2>2. m = Len(calls)
            BY <1>3
      <2> HIDE DEF e, old, n
      <2>3. old \in Seq(CallRecords)
            BY <1>2
      <2>4. /\ Running(calls) \in Seq(Nat) /\ old[m + 2].event \in Nat
            /\ Running(old) = Append(Running(calls), old[m + 2].event)
            BY <1>3, <2>1, <2>2, <2>3, RunningHandler
      <2>5. QED BY <2>1, <2>4
<1>6. Handling[t] = Running(old)
      BY DEF Handling
<1> DEFINE s == Running(calls)
           r == Append(s, e)
<1>7. r # <<>> /\ Front(r) = s /\ Last(r) = e
      <2> HIDE DEF s, e
      <2>1. s \in Seq(Nat) /\ e \in Nat
            BY <1>5 DEF s
      <2>2. /\ r \in Seq(Nat) /\ r # <<>> /\ Len(r) = Len(s) + 1
            /\ \A i \in 1..Len(s) : r[i] = s[i]
            /\ r[Len(s) + 1] = e
            BY <2>1, AppendProperties
      <2>3. Len(s) \in Nat /\ \A i \in 1..Len(s) : s[i] \in Nat
            BY <2>1, LenProperties
      <2> HIDE DEF r
      <2> DEFINE k == Len(s)
                 f == SubSeq(r, 1, k)
      <2>4. Front(r) = f
            BY <2>2, <2>3 DEF Front
      <2>5. 1 \in Int /\ k \in Int /\ \A i \in 1..k : r[i] \in Nat
            BY <2>2, <2>3
      <2>6. /\ f \in Seq(Nat) /\ Len(f) = IF 1 <= k THEN k - 1 + 1 ELSE 0
            /\ \A i \in 1..(k - 1 + 1) : f[i] = r[1 + i - 1]
            BY <2>5, SubSeqProperties
      <2> HIDE DEF f
      <2>7. k - 1 + 1 = k /\ (~(1 <= k) => k = 0) /\ \A i \in 1..k : 1 + i - 1 = i
            BY <2>3
      <2>8. Len(f) = Len(s) /\ \A i \in 1..Len(f) : f[i] = s[i]
            BY <2>2, <2>6, <2>7
      <2>9. f = s
            BY <2>1, <2>6, <2>8, SeqEqual
      <2>10. Last(r) = e
             BY <2>2 DEF Last
      <2>11. QED BY <2>2, <2>4, <2>9, <2>10
<1>8. QED BY <1>5, <1>6, <1>7 DEF calls, m

MailStep == [Mailbox!Next]_<<posts, Pending, removed, Handling, home>>

LEMMA MailSame ==
  ASSUME Waiting' = Waiting, Handling' = Handling, UNCHANGED <<posts, removed, home>>
  PROVE  MailStep
BY PendingWaits DEF MailStep

LEMMA MailPosted ==
  ASSUME IInv, NEW o \in Objects, home[o] # NoThread, PostedFor(o),
         UNCHANGED <<stack, home, removed>>
  PROVE  MailStep
<1>1. Handling' = Handling
      BY DEF Handling, Running
<1>2. CASE posts' = posts /\ Waiting' = Waiting
      BY <1>1, <1>2, MailSame
<1>3. CASE ~(posts' = posts /\ Waiting' = Waiting)
      <2> DEFINE n == Len(posts)
      <2>1. PICK post \in PostRecords : post.receiver = o /\ posts' = Append(posts, post)
            BY <1>3 DEF PostedFor
      <2>2. Waiting' = Waiting \cup {n + 1}
            BY <1>3 DEF PostedFor
      <2>3. posts \in Seq(PostRecords)
            BY DEF IInv, Types
      <2>4. /\ n \in Nat /\ posts' \in Seq(PostRecords) /\ Len(posts') = n + 1
            /\ \A i \in 1..n : posts'[i] = posts[i]
            /\ posts'[n + 1] = post
            BY <2>1, <2>3, AppendProperties, LenProperties
      <2>5. SubSeq(posts, 1, n) = SubSeq(posts', 1, n)
            <3> DEFINE a == SubSeq(posts, 1, n)
                       b == SubSeq(posts', 1, n)
            <3>1. \A i \in 1..n : posts[i] \in PostRecords /\ posts'[i] \in PostRecords
                  BY <2>3, <2>4, LenProperties
            <3>2. 1 \in Int /\ n \in Int
                  BY <2>4
            <3>3. /\ a \in Seq(PostRecords) /\ Len(a) = IF 1 <= n THEN n - 1 + 1 ELSE 0
                  /\ \A i \in 1..(n - 1 + 1) : a[i] = posts[1 + i - 1]
                  BY <3>1, <3>2, SubSeqProperties
            <3>4. /\ b \in Seq(PostRecords) /\ Len(b) = IF 1 <= n THEN n - 1 + 1 ELSE 0
                  /\ \A i \in 1..(n - 1 + 1) : b[i] = posts'[1 + i - 1]
                  BY <3>1, <3>2, SubSeqProperties
            <3> HIDE DEF a, b
            <3>5. n - 1 + 1 = n /\ (~(1 <= n) => n = 0) /\ \A i \in 1..n : 1 + i - 1 = i
                  BY <2>4
            <3>6. Len(a) = Len(b) /\ \A i \in 1..Len(a) : a[i] = b[i]
                  BY <2>4, <3>3, <3>4, <3>5
            <3>7. a = b
                  BY <3>3, <3>4, <3>6, SeqEqual
            <3>8. QED BY <3>7 DEF a, b
      <2>6. n <= Len(posts')
            BY <2>4
      <2>7. Mailbox!Post
            <3>1. Mailbox!IsPrefix(posts, posts')
                  BY <2>5, <2>6 DEF Mailbox!IsPrefix
            <3>2. home[Mailbox!Last(posts').receiver] # NoThread
                  BY <2>1, <2>4 DEF Mailbox!Last
            <3>3. Pending' = Pending \cup {Len(posts')}
                  BY <2>2, <2>4, PendingWaits
            <3>4. QED BY <1>1, <2>4, <3>1, <3>2, <3>3 DEF Mailbox!Post
      <2>8. QED BY <2>7 DEF MailStep, Mailbox!Next
<1>4. QED BY <1>2, <1>3

LEMMA MailDelivered ==
  ASSUME NEW t \in Threads, NEW e \in Waiting, home[posts[e].receiver] = t,
         Waiting' = Waiting \ {e}, NEW calls,
         calls = Handling[t] \/ (Handling[t] # <<>> /\ calls = Front(Handling[t])),
         Handling' = [Handling EXCEPT ![t] = Append(calls, e)],
         UNCHANGED <<posts, removed, home>>
  PROVE  MailStep
<1>1. e \in Pending /\ Pending' = Pending \ {e}
      BY PendingWaits
<1>2. calls \in {Handling[t]} \cup {Mailbox!Front(r) : r \in {Handling[t]} \ {<<>>}}
      BY DEF Front, Mailbox!Front
<1>3. Mailbox!Deliver(t, e)
      BY <1>1, <1>2 DEF Mailbox!Deliver
<1>4. QED BY <1>1, <1>3 DEF MailStep, Mailbox!Next

LEMMA MailReturned ==
  ASSUME NEW t \in Threads, Handling[t] # <<>>, Waiting' = Waiting,
         Handling' = [Handling EXCEPT ![t] = Front(Handling[t])],
         UNCHANGED <<posts, removed, home>>
  PROVE  MailStep
<1>1. Mailbox!Return(t)
      BY PendingWaits DEF Mailbox!Return, Front, Mailbox!Front
<1>2. QED BY <1>1 DEF MailStep, Mailbox!Next

LEMMA DeliversMaps ==
  ASSUME IInv, NEW t \in Threads, NEW d, NEW calls, NEW send, NEW d2, NEW c,
         Delivers(t, d, calls, send, d2, c),
         \/ Running(calls) = Handling[t]
         \/ Handling[t] # <<>> /\ Running(calls) = Front(Handling[t])
  PROVE  MailStep
<1> DEFINE e == Current(d2, c).event
           n == Len(calls)
           more == stack'[t]
           r == Running(calls)
<1>1. /\ n \in Nat /\ calls \in Seq(CallRecords) /\ e \in Waits(t)
      /\ more \in Seq(CallRecords) /\ Len(more) = n + 2
      /\ \A k \in 1..n : more[k] = calls[k]
      /\ more[n + 1].call = "send" /\ more[n + 2].call = "handler" /\ more[n + 2].event = e
      BY DeliversFields
<1>2. /\ Ready(d, calls, send) /\ Delivery(t, d, calls, send, d2, c)
      /\ Below(calls, stack[t]) /\ UNCHANGED <<home, poster, posts, removed>>
      BY DEF Delivers
<1>3. Events(d.list) = Waits(t)
      BY DEF Delivers, Waits
<1>4. Waiting' = Waiting \ {e}
      BY <1>2, <1>3, DeliveryStep
<1>5. e \in Waiting /\ home[posts[e].receiver] = t
      BY <1>1 DEF Waiting, IInv, AtHome
<1>6. stack' = [stack EXCEPT ![t] = more]
      <2>1. stack \in [Threads -> Seq(CallRecords)]
            BY DEF IInv, Types
      <2>2. stack' = [stack EXCEPT ![t] = Called(calls, c, e)]
            BY <1>2 DEF Delivery
      <2>3. more = Called(calls, c, e)
            BY <2>1, <2>2
      <2> HIDE DEF more
      <2>4. QED BY <2>2, <2>3
<1> HIDE DEF e, more
<1>7. Running(more) = Append(r, e)
      <2>1. n = Len(calls)
            OBVIOUS
      <2> HIDE DEF n
      <2>2. Running(more) = Append(Running(calls), more[n + 2].event)
            BY <1>1, <2>1, RunningHandler
      <2>3. QED BY <1>1, <2>2
<1>8. Handling' = [Handling EXCEPT ![t] = Append(r, e)]
      BY <1>6, <1>7, HandlingStep
<1>9. r = Handling[t] \/ (Handling[t] # <<>> /\ r = Front(Handling[t]))
      OBVIOUS
<1> HIDE DEF r
<1>10. QED BY <1>2, <1>4, <1>5, <1>8, <1>9, MailDelivered

LEMMA EndsMaps ==
  ASSUME IInv, NEW t \in Threads, NEW d, NEW calls, NEW send, NEW d2, NEW c,
         Ends(t, d, calls, send, d2, c)
  PROVE  /\ Waiting' = Waiting /\ UNCHANGED <<home, posts, removed>>
         /\ Handling' = [Handling EXCEPT ![t] = Running(calls)]
<1> DEFINE after == AfterCall(calls, send)
<1>1. /\ Ready(d, calls, send) /\ Ending(t, d, calls, send, d2, c)
      /\ Below(calls, stack[t]) /\ UNCHANGED <<home, poster, posts, removed>>
      BY DEF Ends
<1>2. Events(d.list) = Waits(t)
      BY DEF Ends, Waits
<1>3. Waiting' = Waiting
      BY <1>1, <1>2, EndingStep
<1>4. calls \in Seq(CallRecords) /\ stack' = [stack EXCEPT ![t] = after]
      BY <1>1 DEF Ready, Ending
<1>5. Running(after) = Running(calls)
      <2>1. /\ DOMAIN after = DOMAIN calls
            /\ \A k \in DOMAIN calls : after[k].call = calls[k].call /\ after[k].event = calls[k].event
            BY <1>4, AfterCallFields
      <2> HIDE DEF after
      <2>2. \A k \in DOMAIN calls : after[k].event = calls[k].event
                                    /\ (IsHandler(after[k]) <=> IsHandler(calls[k]))
            BY <2>1 DEF IsHandler
      <2>3. QED BY <2>1, <2>2, RunningSame
<1> HIDE DEF after
<1>6. Handling' = [Handling EXCEPT ![t] = Running(calls)]
      BY <1>4, <1>5, HandlingStep
<1>7. QED BY <1>1, <1>3, <1>6

LEMMA SendMaps ==
  ASSUME IInv, NEW t \in Threads, NEW receiver \in Objects \cup {NoObject},
         NEW type \in {"any", "delete"}, sendPostedEvents(t, receiver, type)
  PROVE  MailStep
<1> DEFINE calls == Polled(stack[t])
<1>1. Running(calls) = Handling[t]
      <2> DEFINE old == stack[t]
      <2>1. old \in Seq(CallRecords) /\ Nested(old, posts)
            BY DEF IInv, ThreadGood
      <2>2. /\ DOMAIN calls = DOMAIN old
            /\ \A k \in DOMAIN old : /\ calls[k].event = old[k].event
                                     /\ calls[k].call = "handler" <=> old[k].call = "handler"
            BY <2>1, PolledFields
      <2> HIDE DEF old, calls
      <2>3. \A k \in DOMAIN old : calls[k].event = old[k].event
                                  /\ (IsHandler(calls[k]) <=> IsHandler(old[k]))
            BY <2>2 DEF IsHandler
      <2>4. Running(calls) = Running(old)
            BY <2>2, <2>3, RunningSame
      <2>5. QED BY <2>4 DEF Handling, old
<1>2. Handling = [Handling EXCEPT ![t] = Handling[t]]
      BY DEF Handling
<1> HIDE DEF calls
<1>3. CASE /\ stack' = [stack EXCEPT ![t] = calls]
           /\ data' = [data EXCEPT ![t].canWait = (data[t].list = <<>>)]
           /\ UNCHANGED <<home, postedEvents, poster, posts, removed>>
      <2>1. Handling' = Handling
            BY <1>1, <1>2, <1>3, HandlingStep
      <2>2. data \in [Threads -> DataRecords]
            BY DEF IInv, Types
      <2>3. \A u \in Threads : data'[u].list = data[u].list
            BY <1>3, <2>2 DEF DataRecords
      <2>4. Waiting' = Waiting
            BY <2>3 DEF Waiting, Waits
      <2>5. QED BY <1>3, <2>1, <2>4, MailSame
<1>4. ASSUME NEW d, NEW send, NEW d2, NEW c, Delivers(t, d, calls, send, d2, c) PROVE MailStep
      BY <1>1, <1>4, DeliversMaps
<1>5. ASSUME NEW d, NEW send, NEW d2, NEW c, Ends(t, d, calls, send, d2, c) PROVE MailStep
      <2>1. /\ Waiting' = Waiting /\ UNCHANGED <<home, posts, removed>>
            /\ Handling' = [Handling EXCEPT ![t] = Running(calls)]
            BY <1>5, EndsMaps
      <2>2. Handling' = Handling
            BY <1>1, <1>2, <2>1
      <2>3. QED BY <2>1, <2>2, MailSame
<1>6. QED BY <1>3, <1>4, <1>5, SendCases DEF calls

LEMMA ReturnMaps ==
  ASSUME IInv, NEW t \in Threads, Return(t)
  PROVE  MailStep
<1> DEFINE calls == SubSeq(stack[t], 1, Len(stack[t]) - 2)
<1>1. Handling[t] # <<>> /\ Running(calls) = Front(Handling[t])
      <2>1. Top(t).call = "handler"
            BY DEF Return
      <2>2. QED BY <2>1, TopRunning
<1>2. ASSUME NEW d, NEW send, NEW d2, NEW c, Delivers(t, d, calls, send, d2, c) PROVE MailStep
      <2> HIDE DEF calls
      <2>1. QED BY <1>1, <1>2, DeliversMaps
<1>3. ASSUME NEW d, NEW send, NEW d2, NEW c, Ends(t, d, calls, send, d2, c) PROVE MailStep
      <2> HIDE DEF calls
      <2>1. /\ Waiting' = Waiting /\ UNCHANGED <<home, posts, removed>>
            /\ Handling' = [Handling EXCEPT ![t] = Running(calls)]
            BY <1>3, EndsMaps
      <2>2. Handling' = [Handling EXCEPT ![t] = Front(Handling[t])]
            BY <1>1, <2>1
      <2>3. QED BY <1>1, <2>1, <2>2, MailReturned
<1>4. QED BY <1>2, <1>3, ReturnCases

LEMMA LoopMaps ==
  ASSUME IInv, NEW t \in Threads, EnterLoop(t) \/ LeaveLoop(t)
  PROVE  MailStep
<1> DEFINE old == stack[t]
<1>1. old \in Seq(CallRecords) /\ Handling = [Handling EXCEPT ![t] = Running(old)]
      BY DEF IInv, Types, Handling
<1>2. Waiting' = Waiting /\ UNCHANGED <<home, posts, removed>>
      <2>1. data' = data /\ UNCHANGED <<home, posts, removed>>
            BY DEF EnterLoop, LeaveLoop
      <2>2. QED BY <2>1 DEF Waiting, Waits
<1>3. ASSUME NEW calls, stack' = [stack EXCEPT ![t] = calls], Running(calls) = Running(old)
      PROVE  MailStep
      <2>1. Handling' = [Handling EXCEPT ![t] = Running(calls)]
            BY <1>3, HandlingStep
      <2>2. Handling' = Handling
            BY <1>1, <1>3, <2>1
      <2>3. QED BY <1>2, <2>2, MailSame
<1>4. CASE EnterLoop(t)
      <2> DEFINE loop == Call("loop")
                 more == Append(old, loop)
      <2>1. stack' = [stack EXCEPT ![t] = more]
            BY <1>4 DEF EnterLoop
      <2>2. loop \in CallRecords /\ ~IsHandler(loop)
            BY DEF Call, CallRecords, NoEvent, IsHandler
      <2> HIDE DEF loop, old
      <2>3. /\ more \in Seq(CallRecords) /\ Len(more) = Len(old) + 1
            /\ \A k \in 1..Len(old) : more[k] = old[k]
            /\ more[Len(old) + 1] = loop
            BY <1>1, <2>2, AppendProperties
      <2> HIDE DEF more
      <2>4. DOMAIN old = 1..Len(old)
            BY <1>1, LenProperties
      <2>5. /\ \A k \in DOMAIN old : more[k].event = old[k].event
                                     /\ (IsHandler(more[k]) <=> IsHandler(old[k]))
            /\ ~IsHandler(more[Len(more)])
            BY <2>2, <2>3, <2>4
      <2>6. Running(more) = Running(old)
            BY <1>1, <2>3, <2>5, RunningMore
      <2>7. QED BY <1>3, <2>1, <2>6
<1>5. CASE LeaveLoop(t)
      <2> DEFINE n == Len(old)
                 m == n - 1
                 less == SubSeq(old, 1, m)
      <2>1. old # <<>> /\ Top(t).call \in {"loop", "polled"}
            BY <1>5 DEF LeaveLoop, Top, Call
      <2>2. n \in Nat /\ n >= 1 /\ old[n].call \in {"loop", "polled"}
            BY <2>1, LastCall
      <2>3. stack' = [stack EXCEPT ![t] = less]
            BY <1>5 DEF LeaveLoop, Front
      <2>4. Nested(old, posts)
            BY DEF IInv, ThreadGood
      <2> HIDE DEF old, less
      <2>5. m \in Nat /\ m <= Len(old) /\ m + 1 = n
            BY <2>2
      <2>6. m < Len(old) => old[m + 1].call # "handler"
            BY <2>2, <2>5
      <2>7. /\ less \in Seq(CallRecords) /\ Len(less) = m /\ DOMAIN less = 1..m
            /\ \A k \in 1..m : less[k] = old[k]
            BY <1>1, <2>4, <2>5, <2>6, FirstCalls DEF less
      <2>8. Len(old) = Len(less) + 1
            BY <2>5, <2>7
      <2>9. /\ \A k \in DOMAIN less : old[k].event = less[k].event
                                      /\ (IsHandler(old[k]) <=> IsHandler(less[k]))
            /\ ~IsHandler(old[Len(old)])
            BY <2>2, <2>7 DEF IsHandler
      <2>10. Running(old) = Running(less)
             BY <1>1, <2>7, <2>8, <2>9, RunningMore
      <2>11. QED BY <1>3, <2>3, <2>10
<1>6. QED BY <1>4, <1>5

LEMMA PostMaps ==
  ASSUME IInv, NEW o \in Objects, NEW kind \in Kinds,
         \/ \E t \in Threads : PostHere(t, o, kind)
         \/ \E p \in Posters : PostThere(p, kind)
  PROVE  MailStep
<1>1. ASSUME NEW t \in Threads, PostHere(t, o, kind) PROVE MailStep
      <2>1. home[o] # NoThread /\ UNCHANGED <<stack, home, removed>>
            BY <1>1, EventsAssumption DEF PostHere
      <2>2. PostedFor(o)
            BY <1>1, PostHereStep
      <2>3. QED BY <2>1, <2>2, MailPosted
<1>2. ASSUME NEW p \in Posters, PostThere(p, kind) PROVE MailStep
      <2> DEFINE r == poster[p].receiver
      <2>1. poster[p] # Idle /\ UNCHANGED <<stack, home, removed>>
            BY <1>2 DEF PostThere
      <2>2. r \in Objects /\ home[r] # NoThread
            BY <2>1 DEF IInv, Addressed
      <2>3. PostedFor(r)
            BY <1>2, PostThereStep
      <2> HIDE DEF r
      <2>4. QED BY <2>1, <2>2, <2>3, MailPosted
<1>3. QED BY <1>1, <1>2

\* What is removed is the mail of the object, of the type that was asked for.
LEMMA GoneMail ==
  ASSUME IInv, NEW t \in Threads, NEW o \in Objects, home[o] = t,
         NEW type \in {"any", "ordinary", "delete"}
  PROVE  GoneEvents(data[t].list, o, type) =
           {e \in Mailbox!Of(o) : type \in {"any", posts[e].type}}
<1> DEFINE gone == GoneEvents(data[t].list, o, type)
           all == GoneEvents(data[t].list, o, "any")
<1>1. DataGood(data[t], posts)
      BY DEF IInv, ThreadGood
<1>2. gone \subseteq all /\ \A e \in all : e \in gone <=> type \in {"any", posts[e].type}
      <2>1. ASSUME NEW k \in Gone(data[t].list, o, "any"), NEW n \in Gone(data[t].list, o, type),
                   data[t].list[k].event = data[t].list[n].event
            PROVE  k = n
            BY <1>1, <2>1 DEF DataGood, ListGood, Gone, Taken, Filled
      <2>2. QED BY <2>1 DEF GoneEvents, Gone, Taken
<1>3. all = {e \in Waits(t) : posts[e].receiver = o}
      <2>1. data[t].list \in Seq(Entries) /\ ListGood(data[t].list, posts)
            BY <1>1, DataFields DEF DataGood
      <2>2. all \subseteq Waits(t) /\ \A e \in all : posts[e].receiver = o
            BY <2>1, GoneCounted DEF Waits
      <2>3. QED BY <2>2, MailGone
<1>4. \A e \in Waiting : posts[e].receiver = o => e \in Waits(t)
      BY DEF Waiting, IInv, AtHome
<1>5. Mailbox!Of(o) = {e \in Waiting : posts[e].receiver = o}
      BY PendingWaits DEF Mailbox!Of
<1>6. Mailbox!Of(o) = all
      BY <1>3, <1>4, <1>5 DEF Waiting
<1> HIDE DEF all, gone
<1>7. QED BY <1>2, <1>6 DEF gone

LEMMA RemoveMaps ==
  ASSUME IInv, NEW t \in Threads, NEW o \in Objects, NEW type \in {"any", "ordinary"},
         removePostedEvents(t, o, type)
  PROVE  MailStep
<1> DEFINE gone == GoneEvents(data[t].list, o, type)
<1>1. /\ home[o] = t /\ Removed(t, o, type)
      /\ UNCHANGED <<stack, home, poster, posts>>
      BY DEF removePostedEvents
<1>2. Waiting' = Waiting \ gone
      BY <1>1, RemovedParts
<1>3. removed' = removed \cup gone
      BY <1>1 DEF Removed, GoneEvents, Gone
<1>4. Handling' = Handling
      BY <1>1 DEF Handling, Running
<1>5. gone = {e \in Mailbox!Of(o) : type \in {"any", posts[e].type}}
      BY <1>1, GoneMail
<1>6. gone = Mailbox!Of(o) \/ gone = {e \in Mailbox!Of(o) : Mailbox!Ordinary(e)}
      <2>1. CASE type = "any"
            BY <1>5, <2>1
      <2>2. CASE type = "ordinary"
            BY <1>5, <2>2 DEF Mailbox!Ordinary
      <2>3. QED BY <2>1, <2>2
<1> HIDE DEF gone
<1>7. Mailbox!TakeBack(t, o, gone)
      BY <1>1, <1>2, <1>3, <1>4, PendingWaits DEF Mailbox!TakeBack
<1>8. QED BY <1>6, <1>7 DEF MailStep, Mailbox!Next

LEMMA DestroyMaps ==
  ASSUME IInv, NEW t \in Threads, Destroy(t)
  PROVE  MailStep
<1> DEFINE e == Top(t).event
           o == posts[e].receiver
           gone == GoneEvents(data[t].list, o, "any")
<1>1. /\ Top(t).call = "handler" /\ posts[e].type = "delete" /\ home[o] = t
      /\ Removed(t, o, "any") /\ home' = [home EXCEPT ![o] = NoThread]
      /\ UNCHANGED <<stack, poster, posts>>
      BY DEF Destroy
<1>2. Handling[t] # <<>> /\ Last(Handling[t]) = e
      BY <1>1, TopRunning
<1>3. o \in Objects
      <2>1. stack[t] # <<>>
            BY <1>1 DEF Top, Call
      <2>2. /\ Len(stack[t]) \in DOMAIN stack[t] /\ Top(t) = stack[t][Len(stack[t])]
            /\ ThreadGood(data[t], stack[t], posts)
            BY <2>1, LastCall
      <2>3. e \in DOMAIN posts
            BY <1>1, <2>2 DEF ThreadGood, Nested
      <2>4. QED BY <2>3, WaitingKnown
<1> HIDE DEF e
<1>4. Handling' = Handling
      BY <1>1 DEF Handling, Running
<1>5. Waiting' = Waiting \ gone
      <2> HIDE DEF o
      <2>1. QED BY <1>1, <1>3, RemovedParts
<1>6. removed' = removed \cup gone
      BY <1>1 DEF Removed, GoneEvents, Gone
<1>7. gone = Mailbox!Of(o)
      <2> HIDE DEF o
      <2> DEFINE type == "any"
      <2>1. type \in {"any", "ordinary", "delete"}
            OBVIOUS
      <2> HIDE DEF type
      <2>2. GoneEvents(data[t].list, o, type) =
              {f \in Mailbox!Of(o) : type \in {"any", posts[f].type}}
            BY <1>1, <1>3, <2>1, GoneMail
      <2>3. QED BY <2>2 DEF type
<1> HIDE DEF gone
<1>8. Mailbox!Last(Handling[t]) = e
      BY <1>2 DEF Last, Mailbox!Last
<1>9. Mailbox!Destroy(t)
      BY <1>1, <1>2, <1>4, <1>5, <1>6, <1>7, <1>8, PendingWaits
         DEF Mailbox!Destroy, Mailbox!Ordinary
<1>10. QED BY <1>9 DEF MailStep, Mailbox!Next

LEMMA MoveMaps ==
  ASSUME IInv, NEW t \in Threads, NEW o \in Objects, NEW u \in Threads, moveToThread(t, o, u)
  PROVE  MailStep
<1>1. /\ home[o] = t /\ home' = [home EXCEPT ![o] = u]
      /\ UNCHANGED <<stack, postedEvents, poster, posts, removed>>
      BY DEF moveToThread
<1>2. Waiting' = Waiting
      BY MoveStep
<1>3. Handling' = Handling
      BY <1>1 DEF Handling, Running
<1>4. Mailbox!Move(t, o, u)
      BY <1>1, <1>2, <1>3, PendingWaits DEF Mailbox!Move
<1>5. QED BY <1>4 DEF MailStep, Mailbox!Next

LEMMA StepMaps ==
  ASSUME IInv, [Next]_vars
  PROVE  MailStep
<1>1. CASE UNCHANGED vars
      <2>1. Waiting' = Waiting /\ Handling' = Handling
            BY <1>1 DEF vars, Waiting, Waits, Handling, Running
      <2>2. UNCHANGED <<posts, removed, home>>
            BY <1>1 DEF vars
      <2>3. QED BY <2>1, <2>2, MailSame
<1>2. ASSUME NEW t \in Threads, Sending(t) PROVE MailStep
      <2>1. ASSUME NEW receiver \in Objects, sendPostedEvents(t, receiver, "any") PROVE MailStep
            <3> DEFINE type == "any"
            <3>1. type \in {"any", "delete"} /\ sendPostedEvents(t, receiver, type)
                  BY <2>1
            <3> HIDE DEF type
            <3>2. QED BY <3>1, SendMaps
      <2>2. ASSUME NEW type \in {"any", "delete"}, sendPostedEvents(t, NoObject, type) PROVE MailStep
            <3> DEFINE receiver == NoObject
            <3>1. receiver \in Objects \cup {NoObject} /\ sendPostedEvents(t, receiver, type)
                  BY <2>2
            <3> HIDE DEF receiver
            <3>2. QED BY <3>1, SendMaps
      <2>3. QED BY <1>2, <2>1, <2>2, ReturnMaps DEF Sending
<1>3. ASSUME NEW t \in Threads, Code(t) PROVE MailStep
      <2>1. ASSUME NEW o \in Objects, NEW type \in {"any", "ordinary"}, removePostedEvents(t, o, type)
            PROVE  MailStep
            BY <2>1, RemoveMaps
      <2>2. ASSUME NEW o \in Objects, NEW kind \in Kinds, PostHere(t, o, kind) PROVE MailStep
            BY <2>2, PostMaps
      <2>3. ASSUME NEW o \in Objects, NEW u \in Threads, moveToThread(t, o, u) PROVE MailStep
            BY <2>3, MoveMaps
      <2>4. Destroy(t) \/ EnterLoop(t) \/ LeaveLoop(t) => MailStep
            BY DestroyMaps, LoopMaps
      <2>5. QED BY <1>3, <2>1, <2>2, <2>3, <2>4 DEF Code
<1>4. ASSUME NEW p \in Posters, Posting(p) PROVE MailStep
      <2>1. ASSUME (\E o \in Objects : ReadThreadData(p, o)) \/ Follow(p) PROVE MailStep
            <3>1. UNCHANGED <<data, stack, home, posts, removed>>
                  BY <2>1 DEF ReadThreadData, Follow
            <3>2. Waiting' = Waiting /\ Handling' = Handling
                  BY <3>1 DEF Waiting, Waits, Handling, Running
            <3>3. QED BY <3>1, <3>2, MailSame
      <2>2. ASSUME NEW kind \in Kinds, PostThere(p, kind) PROVE MailStep
            <3>1. poster[p].receiver \in Objects
                  BY <2>2 DEF PostThere, IInv, Addressed
            <3>2. QED BY <2>2, <3>1, PostMaps
      <2>3. QED BY <1>4, <2>1, <2>2 DEF Posting
<1>5. QED BY <1>1, <1>2, <1>3, <1>4 DEF Next

\* At first nothing waits, and no handler runs.
LEMMA InitMaps ==
  ASSUME Init
  PROVE  Mailbox!Init
<1>1. posts = <<>> /\ removed = {} /\ home \in [Objects -> Threads]
      BY DEF Init
<1>2. Pending = {}
      BY FirstThread, PendingWaits DEF Waiting
<1>3. ASSUME NEW calls \in Seq(CallRecords), \A k \in DOMAIN calls : ~IsHandler(calls[k])
      PROVE  Running(calls) = <<>>
      <2> DEFINE s == [k \in DOMAIN calls |-> calls[k].event]
                 K == {k \in DOMAIN calls : calls[k].call = "handler"}
                 q == Selected(s, K)
      <2>1. K = {}
            BY <1>3 DEF IsHandler
      <2>2. s \in Seq(Nat) /\ K \subseteq DOMAIN s
            BY <2>1, RunningEvents
      <2> HIDE DEF s, K
      <2>3. q \in Seq(Nat) /\ \E g : Picks(g, s, q, K)
            BY <2>2, SelectedPicks
      <2> HIDE DEF q
      <2>4. DOMAIN q = {}
            <3>1. PICK g : Picks(g, s, q, K)
                  BY <2>3
            <3>2. \A i \in DOMAIN q : g[i] \in K
                  BY <3>1 DEF Picks
            <3>3. QED BY <2>1, <3>2
      <2>5. Len(q) \in Nat /\ DOMAIN q = 1..Len(q)
            BY <2>3, LenProperties
      <2>6. Len(q) = 0
            BY <2>4, <2>5
      <2>7. q = <<>>
            BY <2>3, <2>6, EmptySeq
      <2>8. QED BY <2>7 DEF Running, q, s, K
<1>4. ASSUME NEW t \in Threads PROVE Running(stack[t]) = <<>>
      <2>1. stack[t] = IF t \in Programs THEN <<>> ELSE <<Call("loop")>>
            BY DEF Init
      <2> DEFINE loop == Call("loop")
      <2>2. loop \in CallRecords /\ ~IsHandler(loop)
            BY DEF Call, CallRecords, NoEvent, IsHandler
      <2> HIDE DEF loop
      <2>3. stack[t] \in Seq(CallRecords) /\ \A k \in DOMAIN stack[t] : ~IsHandler(stack[t][k])
            <3>1. <<loop>> \in Seq(CallRecords) /\ \A k \in DOMAIN <<loop>> : ~IsHandler(<<loop>>[k])
                  BY <2>2
            <3>2. <<>> \in Seq(CallRecords) /\ DOMAIN <<>> = {}
                  OBVIOUS
            <3>3. stack[t] = <<>> \/ stack[t] = <<loop>>
                  BY <2>1 DEF loop
            <3>4. QED BY <3>1, <3>2, <3>3
      <2>4. QED BY <1>3, <2>3
<1>5. Handling = [t \in Threads |-> <<>>]
      BY <1>4 DEF Handling
<1>6. QED BY <1>1, <1>2, <1>5 DEF Mailbox!Init

\* Each event is delivered once, in the thread of its receiver; none is lost, and what is
\* removed is what was asked for: every step maps to a step of MailboxSpec or to a stutter,
\* for every number of threads, objects, events and nested calls.
THEOREM RefinesMailbox == Spec => ImplementsMailbox
<1>1. Init => Mailbox!Init
      BY InitMaps
<1>2. IInv /\ [Next]_vars => [Mailbox!Next]_<<posts, Pending, removed, Handling, home>>
      BY StepMaps DEF MailStep
<1>3. QED BY <1>1, <1>2, InvariantHolds, PTL DEF Spec, ImplementsMailbox, Mailbox!Spec

=============================================================================
