------------------------- MODULE QThreadPool_proofs -------------------------
(***************************************************************************)
(* For any threads, tasks and clients, any limits and priorities, and any  *)
(* mix of calls: the pool counts its active threads right, executes what   *)
(* it is given, deletes no task too early, keeps to its limit, and leaves  *)
(* no thread behind when it is reset.                                      *)
(***************************************************************************)
EXTENDS QThreadPool, FiniteSetTheorems, SequenceTheorems, TLAPS

Ready == "runnableReady"
Idle  == "noActiveThreads"
Kinds == {Ready, Idle}

C == INSTANCE QWaitCondition_proofs WITH Conditions <- Kinds

Entries == [task : Tasks, priority : Priorities]

-----------------------------------------------------------------------------
(* Sequences with one element more or less *)

\* q is s with one element more, at position i.
Inserted(s, q, i) ==
  /\ Len(q) = Len(s) + 1 /\ i \in 1..Len(q)
  /\ \A k \in 1..Len(s) : s[k] = q[IF k < i THEN k ELSE k + 1]

\* The positions of s with an element of T
At(s, T) == {k \in DOMAIN s : s[k] \in T}

One(condition) == IF condition THEN 1 ELSE 0

\* One element more or less, counted
LEMMA CountInserted ==
  ASSUME NEW S, NEW s \in Seq(S), NEW q \in Seq(S), NEW i, Inserted(s, q, i), NEW T
  PROVE  /\ IsFiniteSet(At(s, T)) /\ Cardinality(At(s, T)) \in Nat
         /\ Cardinality(At(q, T)) = Cardinality(At(s, T)) + One(q[i] \in T)
<1> DEFINE A == At(s, T)
           B == At(q, T) \ {i}
           f == [k \in A |-> IF k < i THEN k ELSE k + 1]
<1>1. /\ Len(s) \in Nat /\ DOMAIN s = 1..Len(s)
      /\ Len(q) = Len(s) + 1 /\ DOMAIN q = 1..Len(q) /\ i \in 1..Len(q)
      BY LenProperties DEF Inserted
<1>2. A \subseteq 1..Len(s) /\ At(q, T) \subseteq 1..Len(q)
      BY <1>1 DEF At
<1>3. IsFiniteSet(A) /\ IsFiniteSet(At(q, T))
      <2>1. IsFiniteSet(1..Len(s)) /\ IsFiniteSet(1..Len(q))
            BY <1>1, FS_Interval
      <2> HIDE DEF A
      <2>2. QED BY <1>2, <2>1, FS_Subset
<1>4. f \in Bijection(A, B)
      <2>1. \A k \in A : f[k] \in B
            BY <1>1, <1>2 DEF At, Inserted
      <2>2. \A j, k \in A : f[j] = f[k] => j = k
            BY <1>1, <1>2
      <2>3. ASSUME NEW n \in B PROVE \E k \in A : f[k] = n
            <3>1. CASE n < i
                  <4>1. n \in 1..Len(q) /\ q[n] \in T
                        BY <1>1 DEF At
                  <4>2. n \in 1..Len(s) /\ s[n] = q[n]
                        BY <1>1, <3>1, <4>1 DEF Inserted
                  <4>3. n \in A /\ f[n] = n
                        BY <1>1, <3>1, <4>1, <4>2 DEF At
                  <4>4. QED BY <4>3
            <3>2. CASE n > i
                  <4>1. n - 1 \in 1..Len(s) /\ ~(n - 1 < i) /\ n - 1 + 1 = n
                        BY <1>1, <1>2, <3>2
                  <4>2. s[n - 1] = q[n]
                        BY <4>1 DEF Inserted
                  <4>3. n - 1 \in A
                        BY <1>1, <2>3, <4>1, <4>2 DEF At
                  <4>4. QED BY <4>1, <4>3
            <3>3. QED BY <1>1, <1>2, <3>1, <3>2
      <2>4. QED BY <2>1, <2>2, <2>3 DEF Bijection, Injection, Surjection, IsInjective
<1> HIDE DEF A, B, f
<1>5. Cardinality(A) \in Nat /\ Cardinality(B) = Cardinality(A)
      <2>1. ExistsBijection(A, B)
            BY <1>4 DEF ExistsBijection
      <2>2. QED BY <1>3, <2>1, FS_Bijection, FS_CardinalityType
<1>6. CASE q[i] \in T
      <2>1. i \in At(q, T)
            BY <1>1, <1>6 DEF At
      <2>2. Cardinality(B) = Cardinality(At(q, T)) - 1
            BY <1>3, <2>1, FS_RemoveElement DEF B
      <2>3. Cardinality(At(q, T)) \in Nat
            BY <1>3, FS_CardinalityType
      <2>4. QED BY <1>3, <1>5, <1>6, <2>2, <2>3 DEF One, A
<1>7. CASE q[i] \notin T
      <2>1. B = At(q, T)
            BY <1>7 DEF At, B
      <2>2. QED BY <1>3, <1>5, <1>7, <2>1 DEF One, A
<1>8. QED BY <1>6, <1>7

\* Elements are put into the queue ...
LEMMA InsertAtInserts ==
  ASSUME NEW S, NEW s \in Seq(S), NEW i \in 1..(Len(s) + 1), NEW e \in S
  PROVE  LET q == InsertAt(s, i, e)
         IN  q \in Seq(S) /\ Inserted(s, q, i) /\ q[i] = e
<1> DEFINE a == SubSeq(s, 1, i - 1)
           b == <<e>>
           c == SubSeq(s, i, Len(s))
           q == InsertAt(s, i, e)
<1>1. Len(s) \in Nat
      BY LenProperties
<1>2. /\ a \in Seq(S) /\ Len(a) = i - 1 /\ \A k \in 1..(i - 1) : a[k] = s[k]
      BY <1>1, SubSeqProperties
<1>3. /\ c \in Seq(S) /\ Len(c) = Len(s) - i + 1
      /\ \A k \in 1..(Len(s) - i + 1) : c[k] = s[i + k - 1]
      BY <1>1, SubSeqProperties
<1>4. b \in Seq(S) /\ Len(b) = 1 /\ b[1] = e
      OBVIOUS
<1> HIDE DEF a, b, c
<1>5. /\ (a \o b) \in Seq(S) /\ Len(a \o b) = i
      /\ \A k \in 1..(i - 1) : (a \o b)[k] = s[k]
      /\ (a \o b)[i] = e
      <2>1. a \o b \in Seq(S) /\ Len(a \o b) = Len(a) + Len(b)
            BY <1>2, <1>4, ConcatProperties
      <2>2. \A k \in 1..(Len(a) + Len(b)) : (a \o b)[k] = IF k <= Len(a) THEN a[k] ELSE b[k - Len(a)]
            BY <1>2, <1>4, ConcatProperties
      <2>3. QED BY <1>2, <1>4, <2>1, <2>2
<1> DEFINE d == a \o b
<1> HIDE DEF d
<1>6. d \in Seq(S) /\ Len(d) = i /\ (\A k \in 1..(i - 1) : d[k] = s[k]) /\ d[i] = e
      BY <1>5 DEF d
<1>7. q = d \o c
      BY DEF InsertAt, a, b, c, d
<1>8. /\ q \in Seq(S) /\ Len(q) = Len(s) + 1
      /\ \A k \in 1..i : q[k] = d[k]
      /\ \A k \in 1..(Len(s) - i + 1) : q[i + k] = c[k]
      BY <1>1, <1>3, <1>6, <1>7, ConcatProperties
<1>9. ASSUME NEW k \in 1..Len(s) PROVE s[k] = q[IF k < i THEN k ELSE k + 1]
      <2>1. CASE k < i
            BY <1>6, <1>8, <2>1
      <2>2. CASE ~(k < i)
            <3>1. k - i + 1 \in 1..(Len(s) - i + 1) /\ i + (k - i + 1) = k + 1
                  BY <1>1, <2>2
            <3>2. q[k + 1] = c[k - i + 1]
                  BY <1>8, <3>1
            <3>3. c[k - i + 1] = s[k]
                  BY <1>3, <3>1
            <3>4. QED BY <2>2, <3>2, <3>3
      <2>3. QED BY <2>1, <2>2
<1>10. QED BY <1>1, <1>6, <1>8, <1>9 DEF Inserted

\* ... and taken out of it.
LEMMA RemoveAtRemoves ==
  ASSUME NEW S, NEW q \in Seq(S), NEW i \in DOMAIN q
  PROVE  RemoveAt(q, i) \in Seq(S) /\ Inserted(RemoveAt(q, i), q, i)
<1> DEFINE a == SubSeq(q, 1, i - 1)
           c == SubSeq(q, i + 1, Len(q))
           s == RemoveAt(q, i)
<1>1. Len(q) \in Nat /\ i \in 1..Len(q)
      BY LenProperties
<1>2. /\ a \in Seq(S) /\ Len(a) = i - 1 /\ \A k \in 1..(i - 1) : a[k] = q[k]
      BY <1>1, SubSeqProperties
<1>3. /\ c \in Seq(S) /\ Len(c) = Len(q) - i
      /\ \A k \in 1..(Len(q) - i) : c[k] = q[i + k]
      BY <1>1, SubSeqProperties
<1> HIDE DEF a, c
<1>4. s = a \o c
      BY DEF RemoveAt, a, c
<1> HIDE DEF s
<1>5. /\ s \in Seq(S) /\ Len(s) = Len(q) - 1
      /\ \A k \in 1..(i - 1) : s[k] = a[k]
      /\ \A k \in 1..(Len(q) - i) : s[i - 1 + k] = c[k]
      <2>1. s \in Seq(S) /\ Len(s) = Len(a) + Len(c)
            BY <1>2, <1>3, <1>4, ConcatProperties
      <2>2. \A k \in 1..(Len(a) + Len(c)) :
              (a \o c)[k] = IF k <= Len(a) THEN a[k] ELSE c[k - Len(a)]
            BY <1>2, <1>3, ConcatProperties
      <2>3. Len(s) = Len(q) - 1 /\ Len(a) + Len(c) = Len(q) - 1
            BY <1>1, <1>2, <1>3, <2>1
      <2>4. \A k \in 1..(i - 1) : s[k] = a[k]
            BY <1>1, <1>2, <1>4, <2>2, <2>3
      <2>5. ASSUME NEW k \in 1..(Len(q) - i) PROVE s[i - 1 + k] = c[k]
            <3>1. PICK n \in Nat : n = i - 1 + k
                  BY <1>1
            <3>2. n \in 1..(Len(a) + Len(c)) /\ ~(n <= Len(a))
                  <4>1. Len(a) = i - 1
                        BY <1>2
                  <4>2. Len(c) = Len(q) - i
                        BY <1>3
                  <4>3. Len(q) \in Nat /\ i \in 1..Len(q)
                        BY <1>1
                  <4>4. Len(a) + Len(c) = Len(q) - 1
                        BY <4>1, <4>2, <4>3
                  <4>5. i <= n /\ n <= Len(q) - 1 /\ 1 <= i
                        BY <3>1, <4>3
                  <4>6. n \in 1..(Len(a) + Len(c))
                        BY <4>3, <4>4, <4>5
                  <4>7. ~(n <= Len(a))
                        BY <4>1, <4>3, <4>5
                  <4>8. QED BY <4>6, <4>7
            <3>3. n - Len(a) = k
                  <4>1. Len(a) = i - 1 /\ i \in Int
                        BY <1>1, <1>2
                  <4>2. QED BY <3>1, <4>1
            <3>4. s[n] = c[n - Len(a)]
                  BY <1>4, <2>2, <3>2
            <3>5. s[n] = c[k]
                  BY <3>3, <3>4
            <3>6. QED BY <3>1, <3>5
      <2>6. QED BY <2>1, <2>3, <2>4, <2>5
<1>6. ASSUME NEW k \in 1..Len(s) PROVE s[k] = q[IF k < i THEN k ELSE k + 1]
      <2>1. CASE k < i
            BY <1>2, <1>5, <2>1
      <2>2. CASE ~(k < i)
            <3>1. k - i + 1 \in 1..(Len(q) - i) /\ i - 1 + (k - i + 1) = k
                  BY <1>1, <1>5, <2>2
            <3>2. s[k] = c[k - i + 1]
                  BY <1>5, <3>1
            <3>3. c[k - i + 1] = q[i + (k - i + 1)]
                  BY <1>3, <3>1
            <3>4. QED BY <1>1, <2>2, <3>2, <3>3
      <2>3. QED BY <2>1, <2>2
<1>7. QED BY <1>1, <1>5, <1>6 DEF Inserted, s

\* Tail() takes out the first one, ...
LEMMA TailRemoves ==
  ASSUME NEW S, NEW q \in Seq(S), q # <<>>
  PROVE  Tail(q) \in Seq(S) /\ Inserted(Tail(q), q, 1) /\ Head(q) = q[1] /\ Head(q) \in S
BY HeadTailProperties, LenProperties DEF Inserted

\* ... and Append() puts one behind the last.
LEMMA AppendInserts ==
  ASSUME NEW S, NEW s \in Seq(S), NEW e \in S
  PROVE  /\ Append(s, e) \in Seq(S) /\ Inserted(s, Append(s, e), Len(s) + 1)
         /\ Append(s, e)[Len(s) + 1] = e
BY AppendProperties, LenProperties DEF Inserted

-----------------------------------------------------------------------------
(* The two loops: what std::upper_bound() and tryToStartMoreThreads() go through *)

Before == {x \in Nat \X Nat : x[1] < x[2]}

\* A set of natural numbers with 0 and the successor of each of its elements has them all.
LEMMA AllNumbers ==
  ASSUME NEW A, 0 \in A, \A n \in Nat : n \in A => n + 1 \in A
  PROVE  \A n \in Nat : n \in A
<1> SUFFICES ASSUME Nat \ A # {} PROVE FALSE
    OBVIOUS
<1>1. IsWellFoundedOn(Before, Nat)
      BY NatLessThanWellFounded, Zenon DEF OpToRel, Before
<1>2. PICK x \in Nat \ A : \A y \in Nat \ A : <<y, x>> \notin Before
      BY <1>1, WFMin, Zenon
<1>3. x # 0 /\ x - 1 \in Nat
      BY <1>2
<1>4. <<x - 1, x>> \in Before
      BY <1>2, <1>3 DEF Before
<1>5. x - 1 \in A
      BY <1>2, <1>3, <1>4
<1>6. x - 1 + 1 = x
      BY <1>2
<1>7. QED BY <1>2, <1>3, <1>5, <1>6

\* The search ends within the part of the queue it is given.
LEMMA UpperBoundWithin ==
  ASSUME NEW q, Len(q) \in Nat \ {0}, NEW priority
  PROVE  UpperBound(q, priority) \in 0..(Len(q) - 1)
<1> DEFINE N == Len(q)
           D == {x \in (0..N) \X (0..N) : x[1] + x[2] < N}
           Left(x) == <<x[1], x[2] \div 2>>
           Right(x) == <<x[1] + (x[2] \div 2) + 1, x[2] - (x[2] \div 2) - 1>>
           Less(x) == q[x[1] + (x[2] \div 2) + 1].priority < priority
           Then(f, x) == IF x[2] = 0 THEN x[1]
                         ELSE IF Less(x) THEN f[Left(x)] ELSE f[Right(x)]
           search == CHOOSE f : f = [x \in D |-> Then(f, x)]
           Small(k) == {x \in D : x[2] < k}
           Found(k) == \E f : f = [x \in Small(k) |-> Then(f, x)]
           A == {k \in Nat : Found(k)}
<1>1. UpperBound(q, priority) = search[<<0, N - 1>>]
      BY DEF UpperBound
<1>2. ASSUME NEW x \in D, x[2] # 0
      PROVE  /\ Left(x) \in D /\ Right(x) \in D
             /\ Left(x)[1] = x[1] /\ Left(x)[2] < x[2]
             /\ Right(x)[1] + Right(x)[2] = x[1] + x[2] /\ Right(x)[2] < x[2]
             /\ x[1] < Right(x)[1]
      <2> DEFINE from == x[1]
                 n == x[2]
                 half == n \div 2
      <2>1. from \in 0..N /\ n \in 0..N /\ from + n < N /\ n # 0
            BY <1>2
      <2>2. half \in Int /\ 0 <= half /\ half < n
            BY <2>1
      <2> DEFINE l == <<from, half>>
                 r == <<from + half + 1, n - half - 1>>
      <2>3. Left(x) = l /\ Right(x) = r
            OBVIOUS
      <2> HIDE DEF n, from, half
      <2>4. l \in D /\ r \in D
            BY <2>1, <2>2
      <2>5. /\ l[1] = from /\ l[2] < n
            /\ r[1] + r[2] = from + n /\ r[2] < n /\ from < r[1]
            BY <2>1, <2>2
      <2> HIDE DEF l, r
      <2>6. QED BY <2>3, <2>4, <2>5 DEF n, from
<1> HIDE DEF Left, Right, Less
<1>3. ASSUME NEW k \in Nat, NEW x \in Small(k + 1), x[2] # 0
      PROVE  Left(x) \in Small(k) /\ Right(x) \in Small(k)
      <2>1. x \in D /\ x[2] \in Nat /\ x[2] <= k
            OBVIOUS
      <2>2. /\ Left(x) \in D /\ Right(x) \in D /\ Left(x)[2] < x[2] /\ Right(x)[2] < x[2]
            BY <1>2, <1>3, <2>1
      <2>3. Left(x)[2] \in Int /\ Right(x)[2] \in Int
            BY <2>2
      <2>4. QED BY <2>1, <2>2, <2>3
<1>4. \A n \in Nat : n \in A
      <2>1. 0 \in A
            <3>1. Small(0) = {}
                  OBVIOUS
            <3>2. [x \in Small(0) |-> 0] = [x \in Small(0) |-> Then([y \in Small(0) |-> 0], x)]
                  BY <3>1
            <3>3. QED BY <3>2
      <2>2. ASSUME NEW k \in Nat, k \in A PROVE k + 1 \in A
            <3>1. PICK f : f = [x \in Small(k) |-> Then(f, x)]
                  BY <2>2
            <3> DEFINE g == [x \in Small(k + 1) |-> IF x \in Small(k) THEN f[x] ELSE Then(f, x)]
            <3>a. Small(k) \subseteq Small(k + 1)
                  <4>1. \A x \in D : x[2] \in Int
                        OBVIOUS
                  <4> HIDE DEF D
                  <4>2. QED BY <4>1
            <3>b. \A x \in Small(k) : f[x] = Then(f, x)
                  BY <3>1
            <3>2. ASSUME NEW x \in Small(k + 1) PROVE Then(g, x) = Then(f, x)
                  <4>1. CASE x[2] = 0
                        BY <4>1
                  <4>2. CASE x[2] # 0
                        <5>1. Left(x) \in Small(k) /\ Right(x) \in Small(k)
                              BY <1>3, <4>2
                        <5> HIDE DEF Small
                        <5>2. g[Left(x)] = f[Left(x)] /\ g[Right(x)] = f[Right(x)]
                              BY <3>a, <5>1
                        <5> HIDE DEF g
                        <5>3. QED BY <5>2
                  <4>3. QED BY <4>1, <4>2
            <3>3. \A x \in Small(k + 1) : g[x] = Then(f, x)
                  <4> HIDE DEF Small, Then
                  <4> QED BY <3>b
            <3>4. g = [x \in Small(k + 1) |-> Then(g, x)]
                  <4>1. \A x \in Small(k + 1) : g[x] = Then(g, x)
                        <5> HIDE DEF Small, Then, g
                        <5> QED BY <3>2, <3>3
                  <4>2. g = [x \in Small(k + 1) |-> g[x]]
                        <5> HIDE DEF Small, Then
                        <5> QED OBVIOUS
                  <4> HIDE DEF Small, Then, g
                  <4>3. [x \in Small(k + 1) |-> g[x]] = [x \in Small(k + 1) |-> Then(g, x)]
                        BY <4>1
                  <4>4. QED BY <4>2, <4>3
            <3>5. Found(k + 1)
                  <4> SUFFICES g = [x \in Small(k + 1) |-> Then(g, x)]
                      OBVIOUS
                  <4> HIDE DEF g, Small, Then
                  <4> QED BY <3>4
            <3> HIDE DEF Found
            <3>6. QED BY <3>5
      <2> HIDE DEF A
      <2>3. QED BY <2>1, <2>2, AllNumbers
<1>5. search = [x \in D |-> Then(search, x)]
      <2>1. Small(N + 1) = D
            OBVIOUS
      <2>2. N + 1 \in A
            <3> HIDE DEF A, N
            <3> QED BY <1>4 DEF N
      <2>3. \E f : f = [x \in D |-> Then(f, x)]
            BY <2>1, <2>2
      <2>4. QED BY <2>3
<1> DEFINE In(x) == search[x] \in x[1]..(x[1] + x[2])
           B == {k \in Nat : \A x \in Small(k) : In(x)}
<1> HIDE DEF search
<1>6. \A n \in Nat : n \in B
      <2>1. 0 \in B
            OBVIOUS
      <2>2. ASSUME NEW k \in Nat, k \in B PROVE k + 1 \in B
            <3>1. ASSUME NEW x \in Small(k + 1) PROVE In(x)
                  <4>1. search[x] = Then(search, x) /\ x[1] \in 0..N /\ x[2] \in 0..N
                        BY <1>5
                  <4>2. CASE x[2] = 0
                        BY <4>1, <4>2
                  <4>3. CASE x[2] # 0
                        <5>1. Left(x) \in Small(k) /\ Right(x) \in Small(k)
                              BY <1>3, <4>3
                        <5>2. In(Left(x)) /\ In(Right(x))
                              BY <2>2, <5>1
                        <5>3. search[x] \in {search[Left(x)], search[Right(x)]}
                              BY <4>1, <4>3
                        <5> DEFINE l == Left(x)
                                   r == Right(x)
                        <5>4. /\ l[1] = x[1] /\ l[2] < x[2] /\ r[1] + r[2] = x[1] + x[2]
                              /\ x[1] < r[1]
                              BY <1>2, <4>3
                        <5>5. /\ l[1] \in Int /\ l[2] \in Int /\ r[1] \in Int /\ r[2] \in Int
                              BY <5>1
                        <5> HIDE DEF l, r
                        <5>6. /\ search[l] \in l[1]..(l[1] + l[2])
                              /\ search[r] \in r[1]..(r[1] + r[2])
                              BY <5>2 DEF l, r
                        <5>7. search[x] \in {search[l], search[r]}
                              BY <5>3 DEF l, r
                        <5>8. search[x] \in x[1]..(x[1] + x[2])
                              <6>1. x[1] \in Int /\ x[2] \in Int
                                    BY <4>1
                              <6>2. CASE search[x] = search[l]
                                    BY <5>4, <5>5, <5>6, <6>1, <6>2
                              <6>3. CASE search[x] = search[r]
                                    BY <5>4, <5>5, <5>6, <6>1, <6>3
                              <6>4. QED BY <5>7, <6>2, <6>3
                        <5>9. QED BY <5>8
                  <4>4. QED BY <4>2, <4>3
            <3>2. QED BY <3>1
      <2> HIDE DEF B
      <2>3. QED BY <2>1, <2>2, AllNumbers
<1>7. <<0, N - 1>> \in Small(N)
      OBVIOUS
<1>8. In(<<0, N - 1>>)
      BY <1>6, <1>7
<1>9. QED BY <1>1, <1>8

\* A task is put somewhere in the queue, or behind it.
LEMMA QueuePlaceWithin ==
  ASSUME NEW q \in Seq(Entries), NEW priority
  PROVE  QueuePlace(q, priority) \in 0..Len(q)
<1>1. Len(q) \in Nat /\ (q # <<>> => Len(q) # 0)
      BY LenProperties, EmptySeq
<1>2. QED BY <1>1, UpperBoundWithin DEF QueuePlace

-----------------------------------------------------------------------------
(* The members of the pool *)

PoolRecords ==
  [allThreads : SUBSET PoolThreads, expiredThreads : Seq(PoolThreads),
   queue : Seq(Entries), isExiting : BOOLEAN, maxThreadCount : MaxCounts,
   reservedThreads : -MaxReserved..MaxReserved, waitingThreads : Int,
   activeThreads : Int, ref : [Tasks -> Int], deleted : SUBSET AutoDelete,
   runnable : [PoolThreads -> Tasks \cup {NoTask}], phase : [PoolThreads -> Phases]]

\* A thread that was started has a task; those that are in expiredThreads have none,
\* which startThread() and tryStart() assert (qthreadpool.cpp:187), and are there once.
ThreadsSound(p) ==
  /\ \A t \in PoolThreads :
       /\ p.phase[t] \in {"unused", "running", "waiting"} => p.runnable[t] = NoTask
       /\ p.phase[t] = "started" => p.runnable[t] # NoTask
  /\ \A i \in DOMAIN p.expiredThreads :
       /\ p.phase[p.expiredThreads[i]] \in {"ended", "finished", "deleted"}
       /\ p.runnable[p.expiredThreads[i]] = NoTask
       /\ \A j \in DOMAIN p.expiredThreads :
            p.expiredThreads[i] = p.expiredThreads[j] => i = j

Wellformed(p) == p \in PoolRecords /\ ThreadsSound(p)

\* The threads that have or were given a task, which activeThreads counts
Employed(p) ==
  {t \in PoolThreads : p.phase[t] \in {"started", "running"} \/ p.runnable[t] # NoTask}

Sound(p) == Wellformed(p) /\ p.activeThreads = Cardinality(Employed(p))

\* How often r is in a queue q, how many threads it is given to, and both.
InQueue(q, r)     == Cardinality({i \in DOMAIN q : q[i].task = r})
WithThreads(f, r) == Cardinality({t \in PoolThreads : f[t] = r})
Todo(p, r)        == InQueue(p.queue, r) + WithThreads(p.runnable, r)

\* What nobody but the threads themselves and reset() changes
Same(p, o) ==
  /\ o.deleted = p.deleted
  /\ \A t \in PoolThreads : /\ p.phase[t] = "running" <=> o.phase[t] = "running"
                            /\ p.phase[t] = "waiting" <=> o.phase[t] = "waiting"

\* The pool o has r once more to run than p; if r was the first in the queue, it is
\* again.
Adds(p, o, r) ==
  /\ Sound(o) /\ Same(p, o) /\ o.ref = Referenced(p.ref, r)
  /\ \A s \in Tasks : Todo(o, s) = Todo(p, s) + One(s = r)
  /\ p.queue # <<>> /\ Head(p.queue).task = r =>
       o.queue # <<>> /\ Head(o.queue).task = r

\* The pool o has as much to run as p.
Keeps(p, o) ==
  /\ Sound(o) /\ Same(p, o)
  /\ \A r \in AutoDelete : p.ref[r] <= o.ref[r]
  /\ \A s \in Tasks : Todo(o, s) = Todo(p, s)

\* Nobody is both a thread of the pool and a client, and all are finitely many.
LEMMA ThreadsFinite ==
  /\ IsFiniteSet(Threads) /\ IsFiniteSet(PoolThreads) /\ IsFiniteSet(Clients)
  /\ PoolThreads \cap Clients = {}
  /\ \A T : IsFiniteSet({t \in PoolThreads : t \in T})
BY PoolAssumption, FS_Union, FS_Subset DEF Threads

\* A task more in the queue
LEMMA QueueCount ==
  ASSUME NEW s \in Seq(Entries), NEW q \in Seq(Entries), NEW i, Inserted(s, q, i), NEW r
  PROVE  InQueue(s, r) \in Nat /\ InQueue(q, r) = InQueue(s, r) + One(q[i].task = r)
<1> DEFINE T == {e \in Entries : e.task = r}
<1>1. \A z \in Seq(Entries) : At(z, T) = {k \in DOMAIN z : z[k].task = r}
      BY DEF At
<1>2. i \in DOMAIN q
      BY LenProperties DEF Inserted
<1>3. q[i] \in T <=> q[i].task = r
      BY <1>2
<1> HIDE DEF T
<1>4. /\ Cardinality(At(s, T)) \in Nat
      /\ Cardinality(At(q, T)) = Cardinality(At(s, T)) + One(q[i] \in T)
      BY CountInserted
<1>5. InQueue(s, r) = Cardinality(At(s, T)) /\ InQueue(q, r) = Cardinality(At(q, T))
      BY <1>1 DEF InQueue
<1>6. QED BY <1>3, <1>4, <1>5 DEF One

\* The queue holds no more than finitely often what it holds.
LEMMA InQueueNat ==
  ASSUME NEW q \in Seq(Entries), NEW r
  PROVE  InQueue(q, r) \in Nat
<1>1. Len(q) \in Nat /\ DOMAIN q = 1..Len(q)
      BY LenProperties
<1> DEFINE A == {i \in DOMAIN q : q[i].task = r}
<1>2. A \subseteq 1..Len(q)
      BY <1>1
<1>3. IsFiniteSet(1..Len(q))
      BY <1>1, FS_Interval
<1> HIDE DEF A
<1>4. Cardinality(A) \in Nat
      BY <1>2, <1>3, FS_Subset, FS_CardinalityType
<1>5. QED BY <1>4 DEF InQueue, A

\* In g thread t has r, and in f it has nothing.
OneMore(f, g, t, r) ==
  f[t] = NoTask /\ g[t] = r /\ \A u \in PoolThreads \ {t} : f[u] = g[u]

\* A thread without a task is given one.
LEMMA GivenCount ==
  ASSUME NEW f, NEW g, NEW t \in PoolThreads, NEW r \in Tasks, OneMore(f, g, t, r),
         NEW s \in Tasks
  PROVE  /\ WithThreads(f, s) \in Nat
         /\ WithThreads(g, s) = WithThreads(f, s) + One(s = r)
<1> DEFINE A == {u \in PoolThreads : f[u] = s}
           B == {u \in PoolThreads : g[u] = s}
<1>1. IsFiniteSet(A) /\ A \subseteq PoolThreads
      BY ThreadsFinite, FS_Subset
<1>2. CASE s = r
      <2>1. B = A \cup {t} /\ t \notin A
            BY <1>2, PoolAssumption DEF OneMore
      <2> HIDE DEF A, B
      <2>2. Cardinality(B) = Cardinality(A) + 1 /\ Cardinality(A) \in Nat
            BY <1>1, <2>1, FS_AddElement, FS_CardinalityType
      <2>3. QED BY <1>2, <2>2 DEF A, B, One, WithThreads
<1>3. CASE s # r
      <2>1. B = A
            BY <1>3, PoolAssumption DEF OneMore
      <2> HIDE DEF A, B
      <2>2. Cardinality(A) \in Nat
            BY <1>1, FS_CardinalityType
      <2>3. QED BY <1>3, <2>1, <2>2 DEF A, B, One, WithThreads
<1>4. QED BY <1>2, <1>3

\* What is to be run is a number.
LEMMA TodoNat ==
  ASSUME NEW p \in PoolRecords, NEW r
  PROVE  /\ Todo(p, r) \in Nat
         /\ InQueue(p.queue, r) \in Nat /\ WithThreads(p.runnable, r) \in Nat
<1>1. InQueue(p.queue, r) \in Nat
      BY InQueueNat DEF PoolRecords
<1> DEFINE A == {t \in PoolThreads : p.runnable[t] = r}
<1>2. IsFiniteSet(A)
      BY ThreadsFinite, FS_Subset
<1>3. WithThreads(p.runnable, r) \in Nat
      <2> HIDE DEF A
      <2> QED BY <1>2, FS_CardinalityType DEF A, WithThreads
<1>4. QED BY <1>1, <1>3 DEF Todo

\* The threads with a task are finitely many.
LEMMA EmployedFinite ==
  ASSUME NEW p
  PROVE  /\ IsFiniteSet(Employed(p)) /\ Employed(p) \subseteq PoolThreads
         /\ Cardinality(Employed(p)) \in Nat
         /\ Cardinality(Employed(p)) <= Cardinality(PoolThreads)
         /\ Cardinality(PoolThreads) \in Nat
<1>1. Employed(p) \subseteq PoolThreads
      BY DEF Employed
<1>2. QED BY <1>1, ThreadsFinite, FS_Subset, FS_CardinalityType

-----------------------------------------------------------------------------
(* Starting tasks *)

\* A thread is restarted with a task.
LEMMA RestartedAdds ==
  ASSUME NEW p, Sound(p), NEW t \in PoolThreads, NEW r \in Tasks,
         p.runnable[t] = NoTask, p.phase[t] \in {"unused", "ended", "finished", "deleted"},
         \A i \in DOMAIN p.expiredThreads : p.expiredThreads[i] # t
  PROVE  Adds(p, Restarted(p, t, r), r)
<1> DEFINE o == Restarted(p, t, r)
           ph == IF p.phase[t] = "ended" THEN "ended" ELSE "started"
<1>1. p \in PoolRecords /\ p.phase \in [PoolThreads -> Phases]
      /\ p.runnable \in [PoolThreads -> Tasks \cup {NoTask}]
      /\ p.ref \in [Tasks -> Int] /\ p.activeThreads \in Int
      BY DEF Sound, Wellformed, PoolRecords
<1>2. ph \in Phases /\ ph \in {"ended", "started"}
      BY DEF Phases
<1>3. /\ o.allThreads = p.allThreads /\ o.expiredThreads = p.expiredThreads
      /\ o.queue = p.queue /\ o.isExiting = p.isExiting
      /\ o.maxThreadCount = p.maxThreadCount /\ o.reservedThreads = p.reservedThreads
      /\ o.waitingThreads = p.waitingThreads /\ o.deleted = p.deleted
      /\ o.activeThreads = p.activeThreads + 1 /\ o.ref = Referenced(p.ref, r)
      /\ o.runnable = [p.runnable EXCEPT ![t] = r]
      /\ o.phase = [p.phase EXCEPT ![t] = ph]
      BY <1>1 DEF Restarted, PoolRecords
<1>4. Referenced(p.ref, r) \in [Tasks -> Int]
      <2>1. p.ref[r] + 1 \in Int
            BY <1>1
      <2>2. QED BY <1>1, <2>1 DEF Referenced
<1>5. o \in PoolRecords
      <2>1. p.activeThreads + 1 \in Int
            BY <1>1
      <2>2. QED BY <1>1, <1>2, <1>4, <2>1 DEF Restarted, PoolRecords
<1> HIDE DEF o, ph
<1>6. ThreadsSound(o)
      BY <1>1, <1>2, <1>3, PoolAssumption DEF Sound, Wellformed, ThreadsSound, PoolRecords
<1>7. Employed(o) = Employed(p) \cup {t} /\ t \notin Employed(p)
      BY <1>1, <1>2, <1>3, PoolAssumption DEF Employed
<1>8. o.activeThreads = Cardinality(Employed(o))
      <2>1. p.activeThreads = Cardinality(Employed(p)) /\ IsFiniteSet(Employed(p))
            BY EmployedFinite DEF Sound
      <2>2. Cardinality(Employed(p) \cup {t}) = Cardinality(Employed(p)) + 1
            BY <1>7, <2>1, FS_AddElement
      <2>3. QED BY <1>3, <1>7, <2>1, <2>2
<1>9. \A s \in Tasks : Todo(o, s) = Todo(p, s) + One(s = r)
      <2> TAKE s \in Tasks
      <2>1. WithThreads(o.runnable, s) = WithThreads(p.runnable, s) + One(s = r)
            <3>1. OneMore(p.runnable, o.runnable, t, r)
                  BY <1>1, <1>3 DEF OneMore
            <3>2. QED BY <3>1, GivenCount
      <2>2. QED BY <1>1, <1>3, <2>1, TodoNat DEF Todo, One
<1>10. Same(p, o)
      BY <1>1, <1>2, <1>3 DEF Same
<1>11. QED BY <1>3, <1>5, <1>6, <1>8, <1>9, <1>10 DEF Adds, Sound, Wellformed, o

-----------------------------------------------------------------------------
(* The wait conditions: QWaitCondition_proofs says it of the threads *)

\* The same finite sets
LEMMA SameSets ==
  /\ \A S : C!IsFiniteSet(S) <=> IsFiniteSet(S)
  /\ C!IsFiniteSet(Threads) /\ IsFiniteSet(Threads)
BY ThreadsFinite DEF C!IsFiniteSet, IsFiniteSet

\* QThreadPool and QWaitCondition_proofs mean the same wait conditions.
LEMMA SameWaits ==
  /\ \A w, t, b, timed : W!AfterBegin(w, t, b, timed) = C!AfterBegin(w, t, b, timed)
  /\ \A w, b : W!AfterWakeOne(w, b) = C!AfterWakeOne(w, b)
  /\ \A w, b : W!AfterWakeAll(w, b) = C!AfterWakeAll(w, b)
  /\ \A w, t : W!AfterReturn(w, t) = C!AfterReturn(w, t)
  /\ W!Places = C!Places /\ W!Done = C!Done
<1>1. \A w, t, b, timed : W!AfterBegin(w, t, b, timed) = C!AfterBegin(w, t, b, timed)
      BY DEF W!AfterBegin, C!AfterBegin
<1>2. \A w, b : W!Asleep(w, b) = C!Asleep(w, b)
      BY DEF W!Asleep, C!Asleep, W!Inside, C!Inside, W!Unlocked, C!Unlocked
<1>3. \A w, b : W!AfterWakeOne(w, b) = C!AfterWakeOne(w, b)
      <2> TAKE w, b
      <2>1. W!Asleep(w, b) = C!Asleep(w, b)
            BY <1>2
      <2>2. QED BY <2>1, Zenon DEF W!AfterWakeOne, C!AfterWakeOne
<1>4. \A w, b : W!AfterWakeAll(w, b) = C!AfterWakeAll(w, b)
      <2> TAKE w, b
      <2>1. W!Asleep(w, b) = C!Asleep(w, b)
            BY <1>2
      <2>2. QED BY <2>1, Zenon DEF W!AfterWakeAll, C!AfterWakeAll
<1>5. \A w, t : W!AfterReturn(w, t) = C!AfterReturn(w, t)
      BY DEF W!AfterReturn, C!AfterReturn
<1>6. W!Places = C!Places /\ W!Done = C!Done
      BY DEF W!Places, C!Places, W!Done, C!Done, W!Unlocked, C!Unlocked
<1>7. QED BY <1>1, <1>3, <1>4, <1>5, <1>6

\* The steps of a thread inside wait() are the same.
LEMMA SameSteps ==
  ASSUME NEW t, W!Timeout(t) \/ W!SpuriousWakeup(t) \/ W!Proceed(t)
  PROVE  C!Timeout(t) \/ C!SpuriousWakeup(t) \/ C!Proceed(t)
<1>1. CASE W!Timeout(t)
      BY <1>1 DEF W!Timeout, C!Timeout
<1>2. CASE W!SpuriousWakeup(t)
      BY <1>2 DEF W!SpuriousWakeup, C!SpuriousWakeup
<1>3. CASE W!Proceed(t)
      BY <1>3 DEF W!Proceed, C!Proceed, W!LeaveTimedOut, C!LeaveTimedOut, W!LeaveWoken,
                  C!LeaveWoken, W!WaitAgain, C!WaitAgain
<1>4. QED BY <1>1, <1>2, <1>3

\* From w to x threads are woken up, and nothing else happens.
Wakes(w, x) ==
  /\ C!Sound(x) /\ C!Roused(w, x)
  /\ C!Promised(w) => C!Promised(x)

\* Waking up nobody, and some after others
LEMMA WakesComposes ==
  /\ \A w : C!Sound(w) => Wakes(w, w)
  /\ \A w, x, y : Wakes(w, x) /\ Wakes(x, y) => Wakes(w, y)
BY DEF Wakes, C!Roused

\* wakeOne() does, ...
LEMMA WakeOneWakes ==
  ASSUME NEW w, C!Sound(w), NEW x \in W!AfterWakeOne(w, "runnableReady")
  PROVE  Wakes(w, x)
<1>1. x \in C!AfterWakeOne(w, Ready) /\ Ready \in Kinds
      BY SameWaits DEF Ready, Kinds
<1>2. C!Sound(x) /\ C!Roused(w, x)
      BY <1>1, SameSets, C!WakeOneSound
<1>3. ASSUME C!Promised(w) PROVE C!Promised(x)
      BY <1>1, <1>3, SameSets, C!WakeOnePromised
<1>4. QED BY <1>2, <1>3 DEF Wakes

\* ... and so does wakeAll().
LEMMA WakeAllWakes ==
  ASSUME NEW w, C!Sound(w), NEW c \in Kinds
  PROVE  Wakes(w, W!AfterWakeAll(w, c))
<1> DEFINE x == C!AfterWakeAll(w, c)
<1>1. C!Sound(x) /\ C!Roused(w, x)
      BY SameSets, C!WakeAllSound
<1>2. ASSUME C!Promised(w) PROVE C!Promised(x)
      BY <1>2, SameSets, C!WakeAllPromised
<1>3. W!AfterWakeAll(w, c) = x
      BY SameWaits
<1> HIDE DEF x
<1>4. QED BY <1>1, <1>2, <1>3 DEF Wakes

\* A thread begins to wait ...
LEMMA BeginsToWait ==
  ASSUME NEW w, C!Sound(w), NEW t \in Threads, w.place[t] \notin C!Unlocked,
         NEW c \in Kinds, NEW timed \in BOOLEAN
  PROVE  LET x == W!AfterBegin(w, t, c, timed)
         IN  /\ C!Sound(x) /\ (C!Promised(w) => C!Promised(x))
             /\ x.place = [w.place EXCEPT ![t] = "asleep"]
<1> DEFINE x == C!AfterBegin(w, t, c, timed)
<1>0. C!Sound(x)
      BY SameSets, C!BeginSound, Zenon
<1>1. x.place = [w.place EXCEPT ![t] = "asleep"]
      BY DEF C!Sound, C!Shape, C!AfterBegin
<1>2. ASSUME C!Promised(w) PROVE C!Promised(x)
      BY <1>2, SameSets, C!BeginPromised, Zenon
<1>3. W!AfterBegin(w, t, c, timed) = x
      BY SameWaits, Zenon
<1> HIDE DEF x
<1>4. QED BY <1>0, <1>1, <1>2, <1>3

\* ... and comes back.
LEMMA ReturnsFromWait ==
  ASSUME NEW w, C!Sound(w), NEW t \in Threads, w.place[t] \in {"succeeded", "failed"}
  PROVE  LET x == W!AfterReturn(w, t)
         IN  /\ C!Sound(x) /\ (C!Promised(w) => C!Promised(x))
             /\ x.place = [w.place EXCEPT ![t] = "out"]
<1> DEFINE x == C!AfterReturn(w, t)
<1>0. w.place[t] \in C!Done
      BY DEF C!Done
<1>1. C!Sound(x) /\ x.place = [w.place EXCEPT ![t] = "out"]
      BY <1>0, C!ReturnSound
<1>2. ASSUME C!Promised(w) PROVE C!Promised(x)
      BY <1>0, <1>2, C!ReturnPromised
<1>3. W!AfterReturn(w, t) = x
      BY SameWaits
<1> HIDE DEF x
<1>4. QED BY <1>1, <1>2, <1>3

-----------------------------------------------------------------------------
(* tryStart(), enqueueTask() and tryToStartMoreThreads() *)

\* What a call may lead to: a pool with r once more to run, and woken threads
Started(p, w, r, o) == Adds(p, o[1], r) /\ Wakes(w, o[2])

\* The other members do not matter to what there is to be run.
LEMMA OtherMembers ==
  ASSUME NEW p, Sound(p), NEW q \in PoolRecords,
         q.phase = p.phase, q.runnable = p.runnable, q.queue = p.queue, q.ref = p.ref,
         q.deleted = p.deleted, q.activeThreads = p.activeThreads
  PROVE  /\ q.expiredThreads = p.expiredThreads => Sound(q)
         /\ \A o, r : Adds(q, o, r) => Adds(p, o, r)
         /\ \A o : Keeps(q, o) => Keeps(p, o)
<1>1. Employed(q) = Employed(p)
      BY DEF Employed
<1>2. q.expiredThreads = p.expiredThreads => Sound(q)
      BY <1>1 DEF Sound, Wellformed, ThreadsSound
<1>3. \A r : Todo(q, r) = Todo(p, r)
      BY DEF Todo
<1>4. \A o : Same(q, o) <=> Same(p, o)
      BY DEF Same
<1>5. \A o, r : Adds(q, o, r) => Adds(p, o, r)
      BY <1>3, <1>4 DEF Adds
<1>6. \A o : Keeps(q, o) => Keeps(p, o)
      BY <1>3, <1>4 DEF Keeps
<1>7. QED BY <1>2, <1>5, <1>6

\* A new thread is started.
LEMMA StartThreadStarts ==
  ASSUME NEW p, Sound(p), NEW w, C!Sound(w), NEW r \in Tasks, NEW o \in StartThread(p, w, r)
  PROVE  Started(p, w, r, o)
<1>1. PICK t \in PoolThreads :
        /\ p.phase[t] = "unused"
        /\ o = <<Restarted([p EXCEPT !.allThreads = @ \cup {t}], t, r), w>>
      BY DEF StartThread
<1> DEFINE q == [p EXCEPT !.allThreads = @ \cup {t}]
<1>2. /\ q \in PoolRecords /\ q.phase = p.phase /\ q.runnable = p.runnable
      /\ q.queue = p.queue /\ q.ref = p.ref /\ q.deleted = p.deleted
      /\ q.activeThreads = p.activeThreads /\ q.expiredThreads = p.expiredThreads
      BY DEF Sound, Wellformed, PoolRecords
<1>3. o[1] = Restarted(q, t, r) /\ o[2] = w
      BY <1>1
<1> HIDE DEF q
<1>4. Sound(q)
      BY <1>2, OtherMembers
<1>5. /\ p.runnable[t] = NoTask
      /\ \A i \in DOMAIN p.expiredThreads : p.expiredThreads[i] # t
      BY <1>1 DEF Sound, Wellformed, ThreadsSound
<1>6. Adds(q, Restarted(q, t, r), r)
      BY <1>1, <1>2, <1>4, <1>5, RestartedAdds
<1>7. Adds(p, o[1], r)
      BY <1>2, <1>3, <1>6, OtherMembers
<1>8. QED BY <1>3, <1>7, WakesComposes DEF Started

\* A thread that had left is restarted.
LEMMA RestartExpired ==
  ASSUME NEW p, Sound(p), NEW w, C!Sound(w), NEW r \in Tasks, p.expiredThreads # <<>>,
         NEW o, o = <<Restarted([p EXCEPT !.expiredThreads = Tail(@)],
                                Head(p.expiredThreads), r), w>>
  PROVE  Started(p, w, r, o)
<1> DEFINE left == Tail(p.expiredThreads)
           t == Head(p.expiredThreads)
           q == [p EXCEPT !.expiredThreads = left]
<1>1. p \in PoolRecords /\ p.expiredThreads \in Seq(PoolThreads)
      BY DEF Sound, Wellformed, PoolRecords
<1>2. /\ left \in Seq(PoolThreads) /\ Inserted(left, p.expiredThreads, 1)
      /\ t = p.expiredThreads[1] /\ t \in PoolThreads
      BY <1>1, TailRemoves
<1>3. /\ q \in PoolRecords /\ q.phase = p.phase /\ q.runnable = p.runnable
      /\ q.queue = p.queue /\ q.ref = p.ref /\ q.deleted = p.deleted
      /\ q.activeThreads = p.activeThreads /\ q.expiredThreads = left
      BY <1>1, <1>2 DEF PoolRecords
<1>4. o[1] = Restarted(q, t, r) /\ o[2] = w
      BY <1>1
<1> HIDE DEF q, left, t
<1>5. /\ Len(left) \in Nat /\ DOMAIN left = 1..Len(left)
      /\ DOMAIN p.expiredThreads = 1..(Len(left) + 1)
      /\ \A k \in 1..Len(left) : left[k] = p.expiredThreads[k + 1]
      BY <1>1, <1>2, LenProperties DEF Inserted
<1>6. ThreadsSound(p)
      BY DEF Sound, Wellformed
<1>7. ThreadsSound(q)
      <2>0. \A i, j \in DOMAIN p.expiredThreads :
              p.expiredThreads[i] = p.expiredThreads[j] => i = j
            BY <1>6 DEF ThreadsSound
      <2>1. \A k \in DOMAIN left : k + 1 \in DOMAIN p.expiredThreads
            BY <1>5
      <2>2. \A k \in DOMAIN left : left[k] = p.expiredThreads[k + 1]
            BY <1>5
      <2>3. ASSUME NEW j \in DOMAIN left, NEW k \in DOMAIN left, left[j] = left[k]
            PROVE  j = k
            <3>1. j + 1 = k + 1
                  BY <2>0, <2>1, <2>2, <2>3
            <3>2. QED BY <1>5, <3>1
      <2>4. \A k \in DOMAIN left : /\ p.phase[left[k]] \in {"ended", "finished", "deleted"}
                                   /\ p.runnable[left[k]] = NoTask
            BY <1>6, <2>1, <2>2 DEF ThreadsSound
      <2>5. QED BY <1>3, <1>6, <2>3, <2>4 DEF ThreadsSound
<1>8. Sound(q)
      <2>1. Employed(q) = Employed(p)
            BY <1>3 DEF Employed
      <2>2. QED BY <1>3, <1>7, <2>1 DEF Sound, Wellformed
<1>9. /\ q.runnable[t] = NoTask /\ q.phase[t] \in {"ended", "finished", "deleted"}
      /\ \A k \in DOMAIN q.expiredThreads : q.expiredThreads[k] # t
      <2>1. 1 \in DOMAIN p.expiredThreads
            BY <1>5
      <2>2. ASSUME NEW k \in DOMAIN left, left[k] = t PROVE FALSE
            <3>1. k + 1 \in DOMAIN p.expiredThreads /\ k + 1 # 1
                  BY <1>5
            <3>2. p.expiredThreads[k + 1] = p.expiredThreads[1]
                  BY <1>2, <1>5, <2>2
            <3>3. QED BY <1>6, <2>1, <3>1, <3>2 DEF ThreadsSound
      <2>3. QED BY <1>2, <1>3, <1>6, <2>1, <2>2 DEF ThreadsSound
<1>10. Adds(q, Restarted(q, t, r), r)
      BY <1>2, <1>8, <1>9, RestartedAdds
<1>11. Adds(p, o[1], r)
      BY <1>3, <1>4, <1>10, OtherMembers
<1>12. QED BY <1>4, <1>11, WakesComposes DEF Started

\* A task is put into the queue.
LEMMA EnqueueTaskStarts ==
  ASSUME NEW p, Sound(p), NEW w, C!Sound(w), NEW r \in Tasks, NEW priority \in Priorities,
         NEW o \in EnqueueTask(p, w, r, priority)
  PROVE  Started(p, w, r, o)
<1> DEFINE entry == [task |-> r, priority |-> priority]
           i == QueuePlace(p.queue, priority) + 1
           s == InsertAt(p.queue, i, entry)
           ref == Referenced(p.ref, r)
           q == [p EXCEPT !.ref = ref, !.queue = s]
<1>1. /\ p \in PoolRecords /\ p.queue \in Seq(Entries) /\ p.ref \in [Tasks -> Int]
      /\ Len(p.queue) \in Nat
      BY LenProperties DEF Sound, Wellformed, PoolRecords
<1>2. i \in 1..(Len(p.queue) + 1)
      BY <1>1, QueuePlaceWithin
<1>3. entry \in Entries /\ entry.task = r
      BY DEF Entries
<1>4. ref \in [Tasks -> Int]
      <2>1. p.ref[r] + 1 \in Int
            BY <1>1
      <2>2. QED BY <1>1, <2>1 DEF Referenced
<1>5. o[1] = q /\ o[2] \in W!AfterWakeOne(w, "runnableReady")
      BY <1>1 DEF EnqueueTask
<1> HIDE DEF entry, i, ref
<1>6. s \in Seq(Entries) /\ Inserted(p.queue, s, i) /\ s[i] = entry
      BY <1>1, <1>2, <1>3, InsertAtInserts
<1> HIDE DEF s
<1>7. /\ q \in PoolRecords /\ q.phase = p.phase /\ q.runnable = p.runnable
      /\ q.queue = s /\ q.ref = ref /\ q.deleted = p.deleted
      /\ q.activeThreads = p.activeThreads /\ q.expiredThreads = p.expiredThreads
      BY <1>1, <1>4, <1>6 DEF PoolRecords
<1> HIDE DEF q
<1>8. Sound(q)
      <2>1. Employed(q) = Employed(p)
            BY <1>7 DEF Employed
      <2>2. QED BY <1>7, <2>1 DEF Sound, Wellformed, ThreadsSound
<1>9. \A t \in Tasks : Todo(q, t) = Todo(p, t) + One(t = r)
      <2> TAKE t \in Tasks
      <2>1. InQueue(s, t) = InQueue(p.queue, t) + One(s[i].task = t)
            BY <1>1, <1>6, QueueCount
      <2>2. s[i].task = r
            BY <1>3, <1>6
      <2>3. Todo(q, t) = InQueue(s, t) + WithThreads(p.runnable, t)
            BY <1>7 DEF Todo
      <2>4. /\ Todo(p, t) = InQueue(p.queue, t) + WithThreads(p.runnable, t)
            /\ InQueue(p.queue, t) \in Nat /\ WithThreads(p.runnable, t) \in Nat
            BY <1>1, TodoNat DEF Todo
      <2>5. One(s[i].task = t) = One(t = r) /\ One(t = r) \in Nat
            BY <2>2 DEF One
      <2>6. QED BY <2>1, <2>3, <2>4, <2>5
<1>10. ASSUME p.queue # <<>>, Head(p.queue).task = r
       PROVE  s # <<>> /\ Head(s).task = r
      <2>1. /\ Head(p.queue) = p.queue[1] /\ 1 \in 1..Len(p.queue)
            BY <1>1, <1>10
      <2>2. Len(s) = Len(p.queue) + 1 /\ p.queue[1] = s[IF 1 < i THEN 1 ELSE 1 + 1]
            BY <2>1, <1>6 DEF Inserted
      <2>3. s # <<>> /\ Head(s) = s[1]
            BY <1>1, <1>6, <2>2
      <2>4. s[1].task = r
            BY <1>2, <1>3, <1>6, <1>10, <2>1, <2>2
      <2>5. QED BY <2>3, <2>4
<1>11. Same(p, q)
      BY <1>7 DEF Same
<1>12. Adds(p, q, r)
      BY <1>7, <1>8, <1>9, <1>10, <1>11 DEF Adds, ref
<1>13. QED BY <1>5, <1>12, WakeOneWakes DEF Started

\* tryStart() does one of the three.
LEMMA TryStartTaskStarts ==
  ASSUME NEW p, Sound(p), NEW w, C!Sound(w), NEW r \in Tasks, NEW o \in TryStartTask(p, w, r)
  PROVE  Started(p, w, r, o)
<1> DEFINE q == [p EXCEPT !.waitingThreads = @ - 1]
<1>1. \/ o \in StartThread(p, w, r)
      \/ o \in EnqueueTask(q, w, r, 0)
      \/ /\ p.expiredThreads # <<>>
         /\ o = <<Restarted([p EXCEPT !.expiredThreads = Tail(@)],
                            Head(p.expiredThreads), r), w>>
      BY DEF TryStartTask
<1>2. /\ q \in PoolRecords /\ q.phase = p.phase /\ q.runnable = p.runnable
      /\ q.queue = p.queue /\ q.ref = p.ref /\ q.deleted = p.deleted
      /\ q.activeThreads = p.activeThreads /\ q.expiredThreads = p.expiredThreads
      <2>1. p \in PoolRecords /\ p.waitingThreads - 1 \in Int
            BY DEF Sound, Wellformed, PoolRecords
      <2>2. QED BY <2>1 DEF PoolRecords
<1> HIDE DEF q
<1>3. ASSUME o \in EnqueueTask(q, w, r, 0) PROVE Started(p, w, r, o)
      <2>1. Sound(q)
            BY <1>2, OtherMembers
      <2>2. 0 \in Priorities
            BY PoolAssumption
      <2>3. Started(q, w, r, o)
            BY <1>3, <2>1, <2>2, EnqueueTaskStarts
      <2>4. QED BY <1>2, <2>3, OtherMembers DEF Started
<1>4. QED BY <1>1, <1>3, StartThreadStarts, RestartExpired

-----------------------------------------------------------------------------
(* How many threads there are to run tasks: those that have not left *)

Limit == Max({1} \cup MaxCounts) + MaxReserved

\* A finite set of numbers has a greatest one, ...
LEMMA Greatest ==
  ASSUME NEW S \in SUBSET Int, IsFiniteSet(S), S # {}
  PROVE  Max(S) \in S /\ \A y \in S : y <= Max(S)
<1> DEFINE Has(T) == \E x \in T : \A y \in T : y <= x
           Good(k) == \A T \in SUBSET Int : IsFiniteSet(T) /\ Cardinality(T) = k + 1 => Has(T)
           A == {k \in Nat : Good(k)}
<1>1. 0 \in A
      <2>1. ASSUME NEW T \in SUBSET Int, IsFiniteSet(T), Cardinality(T) = 0 + 1 PROVE Has(T)
            <3>1. IsFiniteSet(T) /\ Cardinality(T) = 1
                  BY <2>1
            <3>2. PICK x : T = {x}
                  <4> HIDE DEF Has, A
                  <4> QED BY <3>1, FS_Singleton
            <3>3. QED BY <3>2
      <2>2. QED BY <2>1
<1>2. ASSUME NEW k \in Nat, k \in A PROVE k + 1 \in A
      <2>1. ASSUME NEW T \in SUBSET Int, IsFiniteSet(T), Cardinality(T) = (k + 1) + 1
            PROVE  Has(T)
            <3>0. IsFiniteSet(T) /\ Cardinality(T) # 0
                  BY <2>1
            <3>1. PICK z \in T : TRUE
                  <4>1. T # {}
                        <5> HIDE DEF Has, A
                        <5> QED BY <3>0, FS_EmptySet
                  <4>2. QED BY <4>1
            <3>2. IsFiniteSet(T \ {z}) /\ Cardinality(T \ {z}) = Cardinality(T) - 1
                  BY <2>1, <3>1, FS_RemoveElement
            <3>3. Cardinality(T \ {z}) = k + 1 /\ T \ {z} \in SUBSET Int
                  BY <2>1, <3>2
            <3>4. Has(T \ {z})
                  <4> HIDE DEF Has
                  <4> QED BY <1>2, <3>2, <3>3
            <3>5. PICK x \in T \ {z} : \A y \in T \ {z} : y <= x
                  BY <3>4
            <3>6. x \in Int /\ z \in Int /\ \A y \in T : y \in Int
                  BY <3>1, <3>5
            <3>7. CASE z <= x
                  BY <3>5, <3>6, <3>7
            <3>8. CASE ~(z <= x)
                  <4>1. \A y \in T : y <= z
                        BY <3>5, <3>6, <3>8
                  <4>2. QED BY <3>1, <4>1
            <3>9. QED BY <3>7, <3>8
      <2>2. QED BY <2>1
<1> HIDE DEF A
<1>3. \A k \in Nat : k \in A
      BY <1>1, <1>2, AllNumbers
<1>4. Cardinality(S) \in Nat /\ Cardinality(S) # 0
      BY FS_CardinalityType, FS_EmptySet
<1>5. Cardinality(S) - 1 \in A /\ (Cardinality(S) - 1) + 1 = Cardinality(S)
      BY <1>3, <1>4
<1>6. Has(S)
      <2> HIDE DEF Has
      <2> QED BY <1>5 DEF A
<1>7. \E x \in S : \A y \in S : x >= y
      BY <1>6
<1>8. QED BY <1>7 DEF Max

\* ... and that is what is used of the limit.
LEMMA LimitBound ==
  Limit \in Int /\ Limit >= 1 /\ \A max \in MaxCounts : max + MaxReserved <= Limit
<1> DEFINE S == {1} \cup MaxCounts
<1>1. S \in SUBSET Int /\ IsFiniteSet(S) /\ S # {} /\ MaxReserved \in Nat
      <2>1. IsFiniteSet({1} \cup MaxCounts)
            BY PoolAssumption, FS_Singleton, FS_Union
      <2>2. QED BY <2>1, PoolAssumption
<1>2. 1 \in S /\ MaxCounts \subseteq S /\ Limit = Max(S) + MaxReserved
      BY DEF Limit
<1> HIDE DEF S
<1>3. Max(S) \in Int /\ \A y \in S : y \in Int /\ y <= Max(S)
      BY <1>1, Greatest
<1>4. QED BY <1>1, <1>2, <1>3

\* The threads that left are threads of the pool, and the others are no more than the
\* limit.
Staffed(p) ==
  /\ \A i \in DOMAIN p.expiredThreads : p.expiredThreads[i] \in p.allThreads
  /\ Cardinality(p.allThreads) - Len(p.expiredThreads) <= Limit

There(p, t) == p.phase[t] \notin {"unused", "deleted"}

\* Threads are added to the pool p, within the limit.
Hires(p, o) ==
  /\ Staffed(o) /\ p.allThreads \subseteq o.allThreads
  /\ \A t \in PoolThreads : There(o, t) => There(p, t) \/ t \in o.allThreads

\* None is added, and twice some are.
LEMMA HiresComposes ==
  /\ \A p, o : Staffed(p) /\ o.allThreads = p.allThreads /\ o.phase = p.phase
                 /\ o.expiredThreads = p.expiredThreads => Hires(p, o)
  /\ \A p, o, m : Hires(p, o) /\ Hires(o, m) => Hires(p, m)
BY DEF Hires, Staffed, There

\* How many threads of the pool have not left
LEMMA StaffNumber ==
  ASSUME NEW p \in PoolRecords
  PROVE  /\ IsFiniteSet(p.allThreads) /\ p.allThreads \subseteq PoolThreads
         /\ Cardinality(p.allThreads) \in Nat /\ Len(p.expiredThreads) \in Nat
         /\ p.expiredThreads \in Seq(PoolThreads)
<1>1. p.allThreads \subseteq PoolThreads /\ p.expiredThreads \in Seq(PoolThreads)
      BY DEF PoolRecords
<1>2. IsFiniteSet(p.allThreads)
      BY <1>1, ThreadsFinite, FS_Subset
<1>3. Cardinality(p.allThreads) \in Nat
      BY <1>2, FS_CardinalityType
<1>4. QED BY <1>1, <1>2, <1>3, LenProperties

\* What a restart leaves alone
LEMMA RestartedFields ==
  ASSUME NEW p \in PoolRecords, NEW t \in PoolThreads, NEW r
  PROVE  LET o == Restarted(p, t, r)
         IN  /\ o.allThreads = p.allThreads /\ o.expiredThreads = p.expiredThreads
             /\ \A u \in PoolThreads \ {t} : o.phase[u] = p.phase[u]
BY DEF Restarted, PoolRecords

\* A new thread, if there is room for one
LEMMA StartThreadHires ==
  ASSUME NEW p \in PoolRecords, Staffed(p), NEW w, NEW r,
         NEW o \in StartThread(p, w, r),
         Cardinality(p.allThreads) - Len(p.expiredThreads) + 1 <= Limit
  PROVE  Hires(p, o[1])
<1>1. PICK t \in PoolThreads :
        o = <<Restarted([p EXCEPT !.allThreads = @ \cup {t}], t, r), w>>
      BY DEF StartThread
<1> DEFINE q == [p EXCEPT !.allThreads = @ \cup {t}]
           x == Restarted(q, t, r)
<1>2. /\ q \in PoolRecords /\ q.phase = p.phase /\ q.allThreads = p.allThreads \cup {t}
      /\ q.expiredThreads = p.expiredThreads
      BY DEF PoolRecords
<1>3. o[1] = x
      BY <1>1
<1> HIDE DEF q
<1>4. /\ x.allThreads = p.allThreads \cup {t} /\ x.expiredThreads = p.expiredThreads
      /\ \A u \in PoolThreads \ {t} : x.phase[u] = p.phase[u]
      BY <1>2, RestartedFields
<1> HIDE DEF x
<1>5. Cardinality(x.allThreads) - Len(x.expiredThreads) <= Limit
      <2>1. /\ IsFiniteSet(p.allThreads) /\ Cardinality(p.allThreads) \in Nat
            /\ Len(p.expiredThreads) \in Nat
            BY StaffNumber
      <2>2. /\ Cardinality(p.allThreads \cup {t}) <= Cardinality(p.allThreads) + 1
            /\ Cardinality(p.allThreads \cup {t}) \in Nat
            <3>1. CASE t \in p.allThreads
                  <4>1. p.allThreads \cup {t} = p.allThreads
                        BY <3>1
                  <4>2. Cardinality(p.allThreads \cup {t}) = Cardinality(p.allThreads)
                        BY <4>1
                  <4>3. QED BY <2>1, <4>2
            <3>2. CASE t \notin p.allThreads
                  <4>1. Cardinality(p.allThreads \cup {t}) = Cardinality(p.allThreads) + 1
                        BY <2>1, <3>2, FS_AddElement
                  <4>2. QED BY <2>1, <4>1
            <3>3. QED BY <3>1, <3>2
      <2>3. Limit \in Int
            BY LimitBound
      <2>4. QED BY <1>4, <2>1, <2>2, <2>3
<1>6. Staffed(x)
      BY <1>4, <1>5 DEF Staffed
<1>7. \A u \in PoolThreads : There(x, u) => There(p, u) \/ u \in x.allThreads
      BY <1>4 DEF There
<1>8. QED BY <1>3, <1>4, <1>6, <1>7 DEF Hires

\* A thread that had left
LEMMA RestartExpiredHires ==
  ASSUME NEW p \in PoolRecords, Staffed(p), NEW w, NEW r,
         p.expiredThreads # <<>>,
         Cardinality(p.allThreads) - Len(p.expiredThreads) + 1 <= Limit,
         NEW o, o = Restarted([p EXCEPT !.expiredThreads = Tail(@)],
                              Head(p.expiredThreads), r)
  PROVE  Hires(p, o)
<1> DEFINE left == Tail(p.expiredThreads)
           t == Head(p.expiredThreads)
           q == [p EXCEPT !.expiredThreads = left]
<1>1. /\ p.expiredThreads \in Seq(PoolThreads) /\ Cardinality(p.allThreads) \in Nat
      BY StaffNumber
<1>2. /\ left \in Seq(PoolThreads) /\ Inserted(left, p.expiredThreads, 1)
      /\ t = p.expiredThreads[1] /\ t \in PoolThreads
      BY <1>1, TailRemoves
<1>3. /\ q \in PoolRecords /\ q.phase = p.phase /\ q.allThreads = p.allThreads
      /\ q.expiredThreads = left
      BY <1>2 DEF PoolRecords
<1> DEFINE x == Restarted(q, t, r)
<1>4. o = x
      OBVIOUS
<1> HIDE DEF q, left, t
<1>5. /\ Len(left) \in Nat /\ DOMAIN left = 1..Len(left)
      /\ Len(p.expiredThreads) = Len(left) + 1
      /\ DOMAIN p.expiredThreads = 1..(Len(left) + 1)
      /\ \A k \in 1..Len(left) : left[k] = p.expiredThreads[k + 1]
      BY <1>1, <1>2, LenProperties DEF Inserted
<1>6. /\ o.allThreads = p.allThreads /\ o.expiredThreads = left
      /\ \A u \in PoolThreads \ {t} : o.phase[u] = p.phase[u]
      <2>1. /\ x.allThreads = p.allThreads /\ x.expiredThreads = left
            /\ \A u \in PoolThreads \ {t} : x.phase[u] = p.phase[u]
            BY <1>2, <1>3, RestartedFields
      <2> HIDE DEF x
      <2>2. QED BY <1>4, <2>1
<1>7. t \in p.allThreads
      <2>1. 1 \in DOMAIN p.expiredThreads
            BY <1>5
      <2>2. QED BY <1>2, <2>1 DEF Staffed
<1>8. Cardinality(o.allThreads) - Len(o.expiredThreads) <= Limit
      <2>1. Limit \in Int
            BY LimitBound
      <2>2. QED BY <1>1, <1>5, <1>6, <2>1
<1>9. \A i \in DOMAIN o.expiredThreads : o.expiredThreads[i] \in o.allThreads
      <2>1. ASSUME NEW i \in 1..Len(left) PROVE left[i] \in p.allThreads
            <3>1. i + 1 \in DOMAIN p.expiredThreads /\ left[i] = p.expiredThreads[i + 1]
                  BY <1>5
            <3>2. QED BY <3>1 DEF Staffed
      <2>2. QED BY <1>5, <1>6, <2>1
<1>10. \A u \in PoolThreads : There(o, u) => There(p, u) \/ u \in o.allThreads
       BY <1>6, <1>7 DEF There
<1>11. QED BY <1>6, <1>8, <1>9, <1>10 DEF Hires, Staffed

\* A task in the queue is no thread.
LEMMA EnqueueTaskHires ==
  ASSUME NEW p \in PoolRecords, Staffed(p), NEW w, NEW r, NEW priority,
         NEW o \in EnqueueTask(p, w, r, priority)
  PROVE  Hires(p, o[1])
<1>1. /\ o[1].allThreads = p.allThreads /\ o[1].phase = p.phase
      /\ o[1].expiredThreads = p.expiredThreads
      <2> DEFINE entry == [task |-> r, priority |-> priority]
                 queue == InsertAt(p.queue, QueuePlace(p.queue, priority) + 1, entry)
                 ref == Referenced(p.ref, r)
      <2>1. o[1] = [p EXCEPT !.ref = ref, !.queue = queue]
            BY DEF EnqueueTask, PoolRecords
      <2> HIDE DEF queue, ref
      <2>2. QED BY <2>1 DEF PoolRecords
<1>2. PICK x : x = o[1]
      OBVIOUS
<1>3. Hires(p, x)
      BY <1>1, <1>2, HiresComposes
<1>4. QED BY <1>2, <1>3

\* tryStart() keeps to the limit.
LEMMA TryStartTaskHires ==
  ASSUME NEW p \in PoolRecords, Staffed(p), NEW w, NEW r,
         NEW o \in TryStartTask(p, w, r)
  PROVE  Hires(p, o[1])
<1> DEFINE n == Cardinality(p.allThreads) - Len(p.expiredThreads)
           q == [p EXCEPT !.waitingThreads = @ - 1]
<1>1. /\ Cardinality(p.allThreads) \in Nat /\ Len(p.expiredThreads) \in Nat
      /\ p.waitingThreads \in Int /\ p.reservedThreads \in -MaxReserved..MaxReserved
      /\ p.maxThreadCount \in MaxCounts /\ p.maxThreadCount \in Int /\ MaxReserved \in Nat
      BY StaffNumber, PoolAssumption DEF PoolRecords
<1>2. /\ Limit \in Int /\ Limit >= 1
      /\ p.maxThreadCount + MaxReserved <= Limit
      BY <1>1, LimitBound
<1>3. CASE p.allThreads = {}
      <2>1. n + 1 <= Limit
            <3>1. Cardinality(p.allThreads) = 0
                  BY <1>3, FS_EmptySet
            <3>2. QED BY <1>1, <1>2, <3>1
      <2>2. o \in StartThread(p, w, r)
            BY <1>3 DEF TryStartTask
      <2>3. QED BY <2>1, <2>2, StartThreadHires
<1>4. CASE p.allThreads # {}
      <2>1. ~(ActiveThreadCount(p) >= p.maxThreadCount)
            BY <1>4 DEF TryStartTask
      <2>2. n - p.waitingThreads + p.reservedThreads < p.maxThreadCount
            BY <1>1, <2>1 DEF ActiveThreadCount
      <2>3. CASE p.waitingThreads > 0
            <3>1. o \in EnqueueTask(q, w, r, 0)
                  BY <1>4, <2>1, <2>3 DEF TryStartTask
            <3>2. /\ q \in PoolRecords /\ q.allThreads = p.allThreads /\ q.phase = p.phase
                  /\ q.expiredThreads = p.expiredThreads
                  <4>1. p.waitingThreads - 1 \in Int
                        BY <1>1
                  <4>2. QED BY <4>1 DEF PoolRecords
            <3> HIDE DEF q
            <3>3. Hires(p, q) /\ Staffed(q)
                  BY <3>2, HiresComposes DEF Hires
            <3>4. Hires(q, o[1])
                  BY <3>1, <3>2, <3>3, EnqueueTaskHires
            <3>5. QED BY <3>3, <3>4, HiresComposes
      <2>4. CASE ~(p.waitingThreads > 0)
            <3>1. n + 1 <= Limit
                  <4>1. n \in Int /\ p.waitingThreads <= 0
                        BY <1>1, <2>4
                  <4> HIDE DEF n
                  <4>2. n + p.reservedThreads < p.maxThreadCount /\ -p.reservedThreads <= MaxReserved
                        BY <1>1, <2>2, <4>1
                  <4>3. QED BY <1>1, <1>2, <4>1, <4>2
            <3>2. CASE p.expiredThreads # <<>>
                  <4>1. o[1] = Restarted([p EXCEPT !.expiredThreads = Tail(@)],
                                         Head(p.expiredThreads), r)
                        BY <1>4, <2>1, <2>4, <3>2 DEF TryStartTask
                  <4>2. QED BY <3>1, <3>2, <4>1, RestartExpiredHires
            <3>3. CASE p.expiredThreads = <<>>
                  <4>1. o \in StartThread(p, w, r)
                        BY <1>4, <2>1, <2>4, <3>3 DEF TryStartTask
                  <4>2. QED BY <3>1, <4>1, StartThreadHires
            <3>4. QED BY <3>2, <3>3
      <2>5. QED BY <2>3, <2>4
<1>5. QED BY <1>3, <1>4

-----------------------------------------------------------------------------
(* tryToStartMoreThreads() *)

\* The same to run, woken threads, and new ones within the limit
Kept(p, w, o) ==
  Keeps(p, o[1]) /\ Wakes(w, o[2]) /\ (Staffed(p) => Hires(p, o[1]))

\* Nothing done, and two things done
LEMMA KeptComposes ==
  /\ \A p, w : Sound(p) /\ C!Sound(w) => Kept(p, w, <<p, w>>)
  /\ \A p, w, o, m :
       Sound(p) /\ Kept(p, w, o) /\ Kept(o[1], o[2], m) => Kept(p, w, m)
<1>1. ASSUME NEW p, Sound(p) PROVE Keeps(p, p)
      BY <1>1, PoolAssumption DEF Sound, Wellformed, PoolRecords, Keeps, Same
<1>2. ASSUME NEW p, NEW q, NEW s, p.ref \in [Tasks -> Int], Keeps(p, q), Keeps(q, s)
      PROVE  Keeps(p, s)
      <2>1. /\ q.ref \in [Tasks -> Int] /\ s.ref \in [Tasks -> Int]
            BY <1>2 DEF Keeps, Sound, Wellformed, PoolRecords
      <2>2. ASSUME NEW r \in AutoDelete PROVE p.ref[r] <= s.ref[r]
            <3>1. r \in Tasks
                  BY PoolAssumption
            <3>2. p.ref[r] \in Int /\ q.ref[r] \in Int /\ s.ref[r] \in Int
                  BY <1>2, <2>1, <3>1
            <3>3. p.ref[r] <= q.ref[r] /\ q.ref[r] <= s.ref[r]
                  BY <1>2 DEF Keeps
            <3>4. QED BY <3>2, <3>3
      <2>3. Same(p, s)
            BY <1>2 DEF Keeps, Same
      <2>4. QED BY <1>2, <2>2, <2>3 DEF Keeps
<1>3. ASSUME NEW p, NEW w, NEW o, NEW m, Sound(p), Kept(p, w, o), Kept(o[1], o[2], m)
      PROVE  Kept(p, w, m)
      <2>1. p.ref \in [Tasks -> Int]
            BY <1>3 DEF Sound, Wellformed, PoolRecords
      <2>2. Keeps(p, m[1])
            BY <1>2, <1>3, <2>1 DEF Kept
      <2>3. ASSUME Staffed(p) PROVE Hires(p, m[1])
            <3>1. Hires(p, o[1])
                  BY <1>3, <2>3 DEF Kept
            <3>2. Hires(o[1], m[1])
                  BY <1>3, <2>3, <3>1 DEF Kept, Hires
            <3>3. QED BY <3>1, <3>2, HiresComposes
      <2>4. QED BY <1>3, <2>2, <2>3, WakesComposes DEF Kept
<1>4. ASSUME NEW p, NEW w, Sound(p), C!Sound(w) PROVE Kept(p, w, <<p, w>>)
      <2>1. Staffed(p) => Hires(p, p)
            BY HiresComposes
      <2>2. QED BY <1>1, <1>4, <2>1, WakesComposes DEF Kept
<1>5. QED BY <1>3, <1>4

\* A round of the loop takes out of the queue what it puts somewhere else.
LEMMA PushedKeeps ==
  ASSUME NEW o, Sound(o[1]), C!Sound(o[2]), o = <<o[1], o[2]>>, NEW m \in Pushed(o)
  PROVE  Kept(o[1], o[2], m) /\ m = <<m[1], m[2]>>
<1> DEFINE p == o[1]
           r == Head(p.queue).task
<1>1. CASE m = o
      BY <1>1, KeptComposes
<1>2. CASE m # o
      <2>1. PICK n \in TryStartTask(o[1], o[2], r) :
              p.queue # <<>> /\ m = <<[n[1] EXCEPT !.queue = Tail(@)], n[2]>>
            BY <1>2 DEF Pushed
      <2> DEFINE n1 == n[1]
                 s == Tail(n1.queue)
                 q == [n1 EXCEPT !.queue = s]
      <2>2. p \in PoolRecords /\ p.queue \in Seq(Entries) /\ p.ref \in [Tasks -> Int]
            BY DEF Sound, Wellformed, PoolRecords
      <2>3. r \in Tasks
            <3>1. Head(p.queue) \in Entries
                  BY <2>1, <2>2, TailRemoves
            <3>2. QED BY <3>1 DEF Entries
      <2>4. Started(p, o[2], r, n)
            BY <2>1, <2>3, TryStartTaskStarts
      <2>5. /\ Adds(p, n1, r) /\ Sound(n1) /\ n1 \in PoolRecords /\ n1.queue \in Seq(Entries)
            /\ n1.queue # <<>> /\ Head(n1.queue).task = r
            BY <2>1, <2>4 DEF Started, Adds, Sound, Wellformed, PoolRecords
      <2>6. m[1] = q /\ m[2] = n[2] /\ m = <<m[1], m[2]>>
            BY <2>1
      <2> HIDE DEF n1, p, r
      <2>7. /\ s \in Seq(Entries) /\ Inserted(s, n1.queue, 1) /\ n1.queue[1].task = r
            BY <2>5, TailRemoves
      <2> HIDE DEF s
      <2>8. /\ q \in PoolRecords /\ q.phase = n1.phase /\ q.runnable = n1.runnable
            /\ q.queue = s /\ q.ref = n1.ref /\ q.deleted = n1.deleted
            /\ q.activeThreads = n1.activeThreads /\ q.expiredThreads = n1.expiredThreads
            BY <2>5, <2>7 DEF PoolRecords
      <2> HIDE DEF q
      <2>9. Sound(q)
            <3>1. Employed(q) = Employed(n1)
                  BY <2>8 DEF Employed
            <3>2. QED BY <2>5, <2>8, <3>1 DEF Sound, Wellformed, ThreadsSound
      <2>10. \A t \in Tasks : Todo(q, t) = Todo(p, t)
            <3> TAKE t \in Tasks
            <3>1. /\ InQueue(n1.queue, t) = InQueue(s, t) + One(n1.queue[1].task = t)
                  /\ InQueue(s, t) \in Nat
                  BY <2>5, <2>7, QueueCount
            <3>2. /\ One(n1.queue[1].task = t) = One(t = r) /\ One(t = r) \in Nat
                  BY <2>7 DEF One
            <3>3. Todo(q, t) = InQueue(s, t) + WithThreads(n1.runnable, t)
                  BY <2>8 DEF Todo
            <3>4. /\ Todo(n1, t) = InQueue(n1.queue, t) + WithThreads(n1.runnable, t)
                  /\ WithThreads(n1.runnable, t) \in Nat
                  BY <2>5, TodoNat DEF Todo
            <3>5. Todo(n1, t) = Todo(p, t) + One(t = r)
                  BY <2>5 DEF Adds
            <3>6. Todo(p, t) \in Nat
                  BY <2>2, TodoNat
            <3>7. QED BY <3>1, <3>2, <3>3, <3>4, <3>5, <3>6
      <2>11. \A t \in AutoDelete : p.ref[t] <= q.ref[t]
            <3>1. q.ref = Referenced(p.ref, r)
                  BY <2>5, <2>8 DEF Adds
            <3>2. QED BY <2>2, <3>1, PoolAssumption DEF Referenced
      <2>12. Same(p, q)
            BY <2>5, <2>8 DEF Adds, Same
      <2>13. Keeps(p, q)
            BY <2>9, <2>10, <2>11, <2>12 DEF Keeps
      <2>14. ASSUME Staffed(p) PROVE Hires(p, q)
             <3>1. n \in TryStartTask(p, o[2], r)
                   BY <2>1 DEF p, r
             <3>2. Hires(p, n1)
                   BY <2>2, <2>14, <3>1, TryStartTaskHires DEF n1
             <3>3. q.allThreads = n1.allThreads
                   BY <2>5, <2>7 DEF PoolRecords, q
             <3>4. Hires(n1, q)
                   BY <2>8, <3>2, <3>3, HiresComposes DEF Hires
             <3>5. QED BY <3>2, <3>4, HiresComposes
      <2>15. QED BY <2>4, <2>6, <2>13, <2>14 DEF Started, Kept, p
<1>3. QED BY <1>1, <1>2

\* All rounds together leave as much to run as there was.
LEMMA MoreThreadsKeep ==
  ASSUME NEW p, Sound(p), NEW w, C!Sound(w), NEW o \in TryToStartMoreThreads(p, w)
  PROVE  Kept(p, w, o)
<1> DEFINE enough == Len(p.queue) + (IF p.waitingThreads > 0 THEN p.waitingThreads ELSE 0)
           Round(f, n) == IF n = 0 THEN {<<p, w>>} ELSE UNION {Pushed(m) : m \in f[n - 1]}
           rounds == CHOOSE f : f = [n \in 0..enough |-> Round(f, n)]
           Found(k) == \E f : f = [n \in 0..k |-> Round(f, n)]
           A == {k \in Nat : Found(k)}
<1>1. TryToStartMoreThreads(p, w) = rounds[enough]
      BY DEF TryToStartMoreThreads
<1>2. enough \in Nat
      BY LenProperties DEF Sound, Wellformed, PoolRecords
<1> HIDE DEF enough
<1>3. \A k \in Nat : k \in A
      <2>1. 0 \in A
            <3> DEFINE g == [n \in 0..0 |-> {<<p, w>>}]
            <3>1. \A n \in 0..0 : n = 0
                  OBVIOUS
            <3>2. g = [n \in 0..0 |-> Round(g, n)]
                  BY <3>1
            <3> HIDE DEF g
            <3>3. Found(0)
                  <4> SUFFICES g = [n \in 0..0 |-> Round(g, n)]
                      OBVIOUS
                  <4> HIDE DEF Round
                  <4> QED BY <3>2
            <3> HIDE DEF Found
            <3>4. QED BY <3>3
      <2>2. ASSUME NEW k \in Nat, k \in A PROVE k + 1 \in A
            <3>1. PICK f : f = [n \in 0..k |-> Round(f, n)]
                  BY <2>2
            <3> DEFINE g == [n \in 0..(k + 1) |-> IF n \in 0..k THEN f[n] ELSE Round(f, n)]
            <3>2. \A n \in 0..k : f[n] = Round(f, n) /\ g[n] = f[n]
                  <4> HIDE DEF Round
                  <4> QED BY <3>1
            <3>3. \A n \in 0..(k + 1) : g[n] = Round(f, n)
                  <4> HIDE DEF Round
                  <4> QED BY <3>2
            <3>4. \A n \in 0..(k + 1) : Round(g, n) = Round(f, n)
                  <4> TAKE n \in 0..(k + 1)
                  <4> HIDE DEF g
                  <4>1. CASE n = 0
                        BY <4>1
                  <4>2. CASE n # 0
                        <5>1. n - 1 \in 0..k
                              BY <4>2
                        <5>2. g[n - 1] = f[n - 1]
                              BY <3>2, <5>1
                        <5>3. QED BY <5>2
                  <4>3. QED BY <4>1, <4>2
            <3>5. g = [n \in 0..(k + 1) |-> Round(g, n)]
                  <4> HIDE DEF Round
                  <4>1. g = [n \in 0..(k + 1) |-> g[n]]
                        OBVIOUS
                  <4> HIDE DEF g
                  <4>2. [n \in 0..(k + 1) |-> g[n]] = [n \in 0..(k + 1) |-> Round(g, n)]
                        BY <3>3, <3>4
                  <4>3. QED BY <4>1, <4>2
            <3> HIDE DEF g
            <3>6. Found(k + 1)
                  <4> SUFFICES g = [n \in 0..(k + 1) |-> Round(g, n)]
                      OBVIOUS
                  <4> HIDE DEF Round
                  <4> QED BY <3>5
            <3> HIDE DEF Found
            <3>7. QED BY <3>6
      <2> HIDE DEF A
      <2>3. QED BY <2>1, <2>2, AllNumbers
<1>4. rounds = [n \in 0..enough |-> Round(rounds, n)]
      <2>1. Found(enough)
            <3> HIDE DEF Found
            <3> QED BY <1>2, <1>3
      <2>2. QED BY <2>1
<1> DEFINE Fine(n) == n <= enough =>
             \A m \in rounds[n] : Kept(p, w, m) /\ m = <<m[1], m[2]>>
           B == {n \in Nat : Fine(n)}
<1> HIDE DEF rounds
<1>5. \A n \in Nat : n \in B
      <2>1. 0 \in B
            <3>1. rounds[0] = {<<p, w>>}
                  BY <1>2, <1>4
            <3>2. QED BY <3>1, KeptComposes
      <2>2. ASSUME NEW n \in Nat, n \in B, n + 1 <= enough, NEW m \in rounds[n + 1]
            PROVE  Kept(p, w, m) /\ m = <<m[1], m[2]>>
            <3>1. rounds[n + 1] = UNION {Pushed(l) : l \in rounds[n + 1 - 1]}
                  <4>1. n + 1 \in 0..enough /\ n + 1 # 0
                        BY <1>2, <2>2
                  <4>2. rounds[n + 1] = Round(rounds, n + 1)
                        <5> HIDE DEF Round
                        <5> QED BY <1>4, <4>1
                  <4>3. QED BY <4>1, <4>2
            <3>2. n + 1 - 1 = n /\ n <= enough
                  BY <1>2, <2>2
            <3>3. PICK l \in rounds[n] : m \in Pushed(l)
                  BY <2>2, <3>1, <3>2
            <3>4. Kept(p, w, l) /\ l = <<l[1], l[2]>>
                  BY <2>2, <3>2
            <3>5. Sound(l[1]) /\ C!Sound(l[2])
                  BY <3>4 DEF Kept, Keeps, Wakes
            <3>6. Kept(l[1], l[2], m) /\ m = <<m[1], m[2]>>
                  BY <3>3, <3>4, <3>5, PushedKeeps
            <3>7. QED BY <3>4, <3>6, KeptComposes
      <2>3. ASSUME NEW n \in Nat, n \in B PROVE n + 1 \in B
            BY <2>2, <2>3
      <2> HIDE DEF B
      <2>4. QED BY <2>1, <2>3, AllNumbers
<1>6. QED BY <1>1, <1>2, <1>5

-----------------------------------------------------------------------------
(* The invariant: what the variables hold *)

\* How many threads run r, if f are their phases and j their tasks
Number(f, j, r) == Cardinality({t \in PoolThreads : f[t] = "running" /\ j[t] = r})

\* Who waits is inside wait(), and only a running thread needs a task.
Members ==
  /\ Sound(pool)
  /\ job \in [PoolThreads -> Tasks \cup {NoTask}]
  /\ \A t \in PoolThreads : pool.phase[t] = "running" => job[t] \in Tasks
  /\ client \in [Clients -> {"out", "waiting", "done", "joining"}]
  /\ doomed \in [Clients -> SUBSET PoolThreads]
  /\ starts \in [Tasks -> Nat]
  /\ C!Sound(waits)
  /\ \A t \in PoolThreads : pool.phase[t] = "waiting" <=> waits.place[t] # "out"
  /\ \A c \in Clients : client[c] = "waiting" <=> waits.place[c] # "out"
  /\ ~SpuriousWakeups => C!Promised(waits)

\* Nobody who was signalled goes back to sleep.
StayAwake == \A t \in Threads : waits.place[t] = "signalled" => waits'.place[t] # "asleep"

Told == {c \in Clients : client[c] \in {"done", "joining"}}

(* What a step does with a task *)

TodoSame    == \A s \in Tasks : Todo(pool', s) = Todo(pool, s)
NumbersSame == \A s \in Tasks : Number(pool'.phase, job', s) = Number(pool.phase, job, s)
Uncalled    == starts' = starts /\ stolen' = stolen
BooksSame   == pool'.ref = pool.ref /\ pool'.deleted = pool.deleted /\ Uncalled

\* It is given to the pool, ...
Gives(r) ==
  /\ \A s \in Tasks : Todo(pool', s) = Todo(pool, s) + One(s = r)
  /\ NumbersSame /\ Told' = Told
  /\ pool'.ref = Referenced(pool.ref, r) /\ pool'.deleted = pool.deleted
  /\ r \notin pool.deleted
  /\ starts' = [starts EXCEPT ![r] = @ + 1] /\ stolen' = stolen

Taken(r) == \A s \in Tasks : Todo(pool, s) = Todo(pool', s) + One(s = r)

\* ... begun, ...
Begins(r) == Taken(r) /\ BooksSame /\ Told' = Told
             /\ \A s \in Tasks : Number(pool'.phase, job', s) =
                                   Number(pool.phase, job, s) + One(s = r)

\* (somebody is done with it, and may have to delete it)
Released(r) ==
  /\ pool'.ref = (IF r \in AutoDelete THEN [pool.ref EXCEPT ![r] = @ - 1] ELSE pool.ref)
  /\ pool'.deleted = (IF r \in AutoDelete /\ pool.ref[r] = 1 THEN pool.deleted \cup {r}
                                                            ELSE pool.deleted)
  /\ starts' = starts /\ Told' = Told

\* ... taken back before, ...
TakesBack(r) ==
  Taken(r) /\ Released(r) /\ NumbersSame /\ stolen' = [stolen EXCEPT ![r] = @ + 1]

\* ... or ended, and then the thread may begin the next one.
Ends(r) == TodoSame /\ Released(r) /\ stolen' = stolen
           /\ \A s \in Tasks : Number(pool.phase, job, s) =
                                 Number(pool'.phase, job', s) + One(s = r)

EndsAndBegins(r, n) ==
  /\ Taken(n) /\ Released(r) /\ stolen' = stolen /\ Number(pool.phase, job, r) # 0
  /\ \A s \in Tasks : Number(pool'.phase, job', s) + One(s = r) =
                        Number(pool.phase, job, s) + One(s = n)

\* A client is told that all is done, if it is.
Tells(c) ==
  /\ \A s \in Tasks : Todo(pool, s) = 0 /\ Number(pool.phase, job, s) = 0
  /\ Told' = Told \cup {c}

Talks ==
  /\ TodoSame /\ NumbersSame /\ BooksSame
  /\ Told' = Told \/ \E c \in Clients : Tells(c) \/ Told' = Told \ {c}

\* The limit changes, and tasks may move from the queue to threads.
Moves ==
  /\ TodoSame /\ NumbersSame /\ Told' = Told
  /\ \A r \in AutoDelete : pool.ref[r] <= pool'.ref[r]
  /\ pool'.deleted = pool.deleted /\ Uncalled
  /\ MaxCounts = {FirstMaxCount} /\ MaxReserved = 0 => pool'.ref = pool.ref

Effect ==
  \/ \E r \in Tasks : Gives(r) \/ Begins(r) \/ TakesBack(r) \/ Ends(r)
  \/ \E r, n \in Tasks : EndsAndBegins(r, n)
  \/ Talks \/ Moves

-----------------------------------------------------------------------------
(* Counting the threads that run a task *)

\* The threads of T run the same.
Alike(T, f, j, g, k) ==
  \A u \in T : /\ f[u] = "running" <=> g[u] = "running"
               /\ f[u] = "running" => j[u] = k[u]

\* A thread more that runs a task
LEMMA NumberCount ==
  ASSUME NEW f, NEW j, NEW g, NEW k, NEW t \in PoolThreads, NEW r \in Tasks,
         Alike(PoolThreads \ {t}, f, j, g, k),
         f[t] # "running", g[t] = "running", k[t] = r, NEW s \in Tasks
  PROVE  /\ Number(f, j, s) \in Nat
         /\ Number(g, k, s) = Number(f, j, s) + One(s = r)
<1> DEFINE A == {u \in PoolThreads : f[u] = "running" /\ j[u] = s}
           B == {u \in PoolThreads : g[u] = "running" /\ k[u] = s}
<1>1. IsFiniteSet(A)
      BY ThreadsFinite, FS_Subset
<1>2. CASE s = r
      <2>1. B = A \cup {t} /\ t \notin A
            BY <1>2 DEF Alike
      <2> HIDE DEF A, B
      <2>2. Cardinality(B) = Cardinality(A) + 1 /\ Cardinality(A) \in Nat
            BY <1>1, <2>1, FS_AddElement, FS_CardinalityType
      <2>3. QED BY <1>2, <2>2 DEF A, B, One, Number
<1>3. CASE s # r
      <2>1. B = A
            BY <1>3 DEF Alike
      <2> HIDE DEF A, B
      <2>2. Cardinality(A) \in Nat
            BY <1>1, FS_CardinalityType
      <2>3. Number(f, j, s) = Cardinality(A) /\ Number(g, k, s) = Cardinality(B)
            BY DEF A, B, Number
      <2>4. QED BY <1>3, <2>1, <2>2, <2>3 DEF One
<1>4. QED BY <1>2, <1>3

\* Only who runs counts.
LEMMA NumberSame ==
  ASSUME NEW f, NEW j, NEW g, NEW k, Alike(PoolThreads, f, j, g, k), NEW s
  PROVE  Number(f, j, s) = Number(g, k, s)
<1> DEFINE A == {u \in PoolThreads : f[u] = "running" /\ j[u] = s}
           B == {u \in PoolThreads : g[u] = "running" /\ k[u] = s}
<1>1. A = B
      BY DEF Alike
<1> HIDE DEF A, B
<1>2. QED BY <1>1 DEF A, B, Number

\* How many threads run a task is a number, and nobody runs one when none is employed.
LEMMA NumberNat ==
  ASSUME NEW p, NEW j, NEW s
  PROVE  /\ Number(p.phase, j, s) \in Nat
         /\ Employed(p) = {} => Number(p.phase, j, s) = 0
<1> DEFINE A == {u \in PoolThreads : p.phase[u] = "running" /\ j[u] = s}
<1>1. IsFiniteSet(A) /\ (Employed(p) = {} => A = {})
      BY ThreadsFinite, FS_Subset DEF Employed
<1> HIDE DEF A
<1>2. Cardinality(A) \in Nat /\ (Employed(p) = {} => Cardinality(A) = 0)
      BY <1>1, FS_CardinalityType, FS_EmptySet
<1>3. QED BY <1>2 DEF A, Number

\* Who runs a task is one of those who do.
LEMMA NumberNotZero ==
  ASSUME NEW f, NEW j, NEW t \in PoolThreads, f[t] = "running"
  PROVE  Number(f, j, j[t]) # 0
<1> DEFINE A == {u \in PoolThreads : f[u] = "running" /\ j[u] = j[t]}
<1>1. IsFiniteSet(A) /\ A # {}
      BY ThreadsFinite, FS_Subset
<1> HIDE DEF A
<1>2. Cardinality(A) # 0
      BY <1>1, FS_EmptySet
<1>3. QED BY <1>2 DEF A, Number

-----------------------------------------------------------------------------
(* The functions of QThreadPool *)

\* A call leaves the threads where they are.
LEMMA CallMembers ==
  ASSUME Members, Sound(pool'), Same(pool, pool'), Wakes(waits, waits'),
         UNCHANGED <<job, client, doomed>>, starts' \in [Tasks -> Nat]
  PROVE  Members' /\ StayAwake /\ NumbersSame /\ Told' = Told
<1>1. \A t \in Threads : waits.place[t] # "out" <=> waits'.place[t] # "out"
      BY DEF Wakes, C!Roused
<1>2. PoolThreads \subseteq Threads /\ Clients \subseteq Threads
      BY DEF Threads
<1>3. /\ C!Sound(waits') /\ (~SpuriousWakeups => C!Promised(waits'))
      BY DEF Members, Wakes
<1>4. \A t \in PoolThreads : pool'.phase[t] = "waiting" <=> waits'.place[t] # "out"
      BY <1>1, <1>2 DEF Members, Same
<1>5. \A c \in Clients : client'[c] = "waiting" <=> waits'.place[c] # "out"
      BY <1>1, <1>2 DEF Members
<1>6. \A t \in PoolThreads : pool'.phase[t] = "running" => job'[t] \in Tasks
      BY DEF Members, Same
<1>7. Members'
      BY <1>3, <1>4, <1>5, <1>6 DEF Members
<1>8. NumbersSame
      <2>1. Alike(PoolThreads, pool.phase, job, pool'.phase, job')
            BY DEF Same, Alike
      <2>2. QED BY <2>1, NumberSame DEF NumbersSame
<1>9. StayAwake
      BY DEF Wakes, C!Roused, StayAwake
<1>10. QED BY <1>7, <1>8, <1>9 DEF Told

\* start() and tryStart()
LEMMA StartEffect ==
  ASSUME Members, NEW r \in Tasks,
         (\E priority \in Priorities : Start(r, priority)) \/ TryStart(r)
  PROVE  Members' /\ StayAwake /\ Gives(r)
<1>1. Sound(pool) /\ C!Sound(waits)
      BY DEF Members
<1>2. PICK o : Started(pool, waits, r, o) /\ pool' = o[1] /\ waits' = o[2]
      <2>1. CASE TryStart(r)
            <3>1. PICK o \in TryStartTask(pool, waits, r) : pool' = o[1] /\ waits' = o[2]
                  BY <2>1 DEF TryStart, Outcome
            <3>2. QED BY <1>1, <3>1, TryStartTaskStarts
      <2>2. CASE \E priority \in Priorities : Start(r, priority)
            <3>1. PICK priority \in Priorities : Start(r, priority)
                  BY <2>2
            <3>2. PICK o \in TryStartTask(pool, waits, r) \cup
                               EnqueueTask(pool, waits, r, priority) :
                    pool' = o[1] /\ waits' = o[2]
                  BY <3>1 DEF Start, Outcome
            <3>3. QED BY <1>1, <3>2, TryStartTaskStarts, EnqueueTaskStarts
      <2>3. QED BY <2>1, <2>2
<1>3. Adds(pool, pool', r) /\ Wakes(waits, waits')
      BY <1>2 DEF Started
<1>4. /\ starts' = [starts EXCEPT ![r] = @ + 1] /\ starts' \in [Tasks -> Nat]
      /\ UNCHANGED <<job, client, doomed, stolen>> /\ r \notin pool.deleted
      <2>1. /\ starts' = [starts EXCEPT ![r] = @ + 1]
            /\ UNCHANGED <<job, client, doomed, stolen>> /\ r \notin pool.deleted
            BY DEF Start, TryStart, MayStart
      <2>2. starts \in [Tasks -> Nat] /\ starts[r] + 1 \in Nat
            BY DEF Members
      <2>3. QED BY <2>1, <2>2
<1>5. Sound(pool') /\ Same(pool, pool')
      BY <1>3 DEF Adds
<1>6. Members' /\ StayAwake /\ NumbersSame /\ Told' = Told
      BY <1>3, <1>4, <1>5, CallMembers
<1>7. QED BY <1>3, <1>4, <1>6 DEF Adds, Gives, Same

\* setMaxThreadCount() and releaseThread() have tryToStartMoreThreads() called for a pool
\* with another limit.
LEMMA MoreThreadsEffect ==
  ASSUME Members, NEW p, Sound(p), p.phase = pool.phase, p.runnable = pool.runnable,
         p.queue = pool.queue, p.ref = pool.ref, p.deleted = pool.deleted,
         p.activeThreads = pool.activeThreads, p.expiredThreads = pool.expiredThreads,
         Outcome(TryToStartMoreThreads(p, waits)),
         UNCHANGED <<job, client, doomed, starts, stolen>>,
         MaxCounts # {FirstMaxCount} \/ MaxReserved # 0
  PROVE  Members' /\ StayAwake /\ Moves
<1>1. Sound(pool) /\ C!Sound(waits) /\ starts \in [Tasks -> Nat]
      BY DEF Members
<1>2. PICK o \in TryToStartMoreThreads(p, waits) : pool' = o[1] /\ waits' = o[2]
      BY DEF Outcome
<1>3. Kept(p, waits, o)
      BY <1>1, <1>2, MoreThreadsKeep
<1>4. Keeps(p, pool') /\ Wakes(waits, waits')
      BY <1>2, <1>3 DEF Kept
<1>5. p \in PoolRecords
      BY DEF Sound, Wellformed
<1>6. Keeps(pool, pool')
      <2>1. PICK x : x = pool'
            OBVIOUS
      <2>2. Keeps(pool, x)
            BY <1>1, <1>4, <1>5, <2>1, OtherMembers
      <2>3. QED BY <2>1, <2>2
<1>7. Sound(pool') /\ Same(pool, pool')
      BY <1>6 DEF Keeps
<1>8. Members' /\ StayAwake /\ NumbersSame /\ Told' = Told
      BY <1>1, <1>4, <1>7, CallMembers
<1>9. QED BY <1>6, <1>8 DEF Keeps, Moves, TodoSame, Same, Uncalled

\* With one limit only and no reserved threads, they do not happen.
LEMMA ResizeEffect ==
  ASSUME Members, (\E max \in MaxCounts : SetMaxThreadCount(max)) \/ ReleaseThread
  PROVE  Members' /\ StayAwake /\ Moves
<1>0. /\ Sound(pool) /\ pool \in PoolRecords /\ pool.maxThreadCount \in MaxCounts
      /\ pool.reservedThreads \in -MaxReserved..MaxReserved /\ MaxReserved \in Nat
      BY PoolAssumption DEF Members, Sound, Wellformed, PoolRecords
<1>1. ASSUME NEW max \in MaxCounts, SetMaxThreadCount(max) PROVE Members' /\ StayAwake /\ Moves
      <2> DEFINE p == [pool EXCEPT !.maxThreadCount = max]
      <2>1. /\ p \in PoolRecords /\ p.phase = pool.phase /\ p.runnable = pool.runnable
            /\ p.queue = pool.queue /\ p.ref = pool.ref /\ p.deleted = pool.deleted
            /\ p.activeThreads = pool.activeThreads
            /\ p.expiredThreads = pool.expiredThreads
            BY <1>0 DEF PoolRecords
      <2>2. /\ Outcome(TryToStartMoreThreads(p, waits))
            /\ UNCHANGED <<job, client, doomed, starts, stolen>> /\ MaxCounts # {FirstMaxCount}
            BY <1>0, <1>1 DEF SetMaxThreadCount
      <2> HIDE DEF p
      <2>3. Sound(p)
            BY <1>0, <2>1, OtherMembers
      <2>4. QED BY <2>1, <2>2, <2>3, MoreThreadsEffect
<1>2. ASSUME ReleaseThread PROVE Members' /\ StayAwake /\ Moves
      <2> DEFINE p == [pool EXCEPT !.reservedThreads = @ - 1]
      <2>1. pool.reservedThreads - 1 \in -MaxReserved..MaxReserved /\ MaxReserved # 0
            BY <1>0, <1>2 DEF ReleaseThread
      <2>2. /\ p \in PoolRecords /\ p.phase = pool.phase /\ p.runnable = pool.runnable
            /\ p.queue = pool.queue /\ p.ref = pool.ref /\ p.deleted = pool.deleted
            /\ p.activeThreads = pool.activeThreads
            /\ p.expiredThreads = pool.expiredThreads
            BY <1>0, <2>1 DEF PoolRecords
      <2>3. /\ Outcome(TryToStartMoreThreads(p, waits))
            /\ UNCHANGED <<job, client, doomed, starts, stolen>>
            BY <1>2 DEF ReleaseThread
      <2> HIDE DEF p
      <2>4. Sound(p)
            BY <1>0, <2>2, OtherMembers
      <2>5. QED BY <2>1, <2>2, <2>3, <2>4, MoreThreadsEffect
<1>3. QED BY <1>1, <1>2

\* reserveThread()
LEMMA ReserveThreadEffect ==
  ASSUME Members, ReserveThread
  PROVE  Members' /\ StayAwake /\ Moves
<1>1. /\ Sound(pool) /\ pool \in PoolRecords /\ C!Sound(waits) /\ starts \in [Tasks -> Nat]
      /\ pool.reservedThreads \in -MaxReserved..MaxReserved /\ MaxReserved \in Nat
      /\ pool.ref \in [Tasks -> Int]
      BY PoolAssumption DEF Members, Sound, Wellformed, PoolRecords
<1>2. /\ pool.reservedThreads + 1 \in -MaxReserved..MaxReserved
      /\ pool' = [pool EXCEPT !.reservedThreads = @ + 1]
      /\ UNCHANGED <<job, client, doomed, starts, stolen, waits>>
      BY <1>1 DEF ReserveThread
<1>3. /\ pool' \in PoolRecords /\ pool'.phase = pool.phase /\ pool'.runnable = pool.runnable
      /\ pool'.queue = pool.queue /\ pool'.ref = pool.ref /\ pool'.deleted = pool.deleted
      /\ pool'.activeThreads = pool.activeThreads
      /\ pool'.expiredThreads = pool.expiredThreads
      BY <1>1, <1>2 DEF PoolRecords
<1>4. PICK q : q = pool'
      OBVIOUS
<1>5. Sound(pool')
      BY <1>1, <1>3, <1>4, OtherMembers
<1>6. Same(pool, pool') /\ TodoSame /\ Wakes(waits, waits')
      BY <1>1, <1>2, <1>3, WakesComposes DEF Same, TodoSame, Todo
<1>7. Members' /\ StayAwake /\ NumbersSame /\ Told' = Told
      BY <1>1, <1>2, <1>5, <1>6, CallMembers
<1>8. \A r \in AutoDelete : pool.ref[r] <= pool'.ref[r]
      BY <1>1, <1>3, PoolAssumption
<1>9. QED BY <1>2, <1>3, <1>6, <1>7, <1>8 DEF Moves, Uncalled

\* stealRunnable()
LEMMA StealRunnableEffect ==
  ASSUME Members, NEW r \in Tasks, StealRunnable(r)
  PROVE  Members' /\ StayAwake /\ TakesBack(r)
<1> DEFINE ref == IF r \in AutoDelete THEN [pool.ref EXCEPT ![r] = @ - 1] ELSE pool.ref
           deleted == IF r \in AutoDelete /\ pool.ref[r] = 1 THEN pool.deleted \cup {r}
                                                           ELSE pool.deleted
<1>1. /\ Sound(pool) /\ pool \in PoolRecords /\ C!Sound(waits) /\ starts \in [Tasks -> Nat]
      /\ pool.queue \in Seq(Entries) /\ pool.ref \in [Tasks -> Int]
      /\ pool.deleted \subseteq AutoDelete
      BY DEF Members, Sound, Wellformed, PoolRecords
<1>2. PICK i \in DOMAIN pool.queue :
        /\ pool.queue[i].task = r
        /\ pool' = [pool EXCEPT !.queue = RemoveAt(@, i),
             !.ref[r] = IF r \in AutoDelete THEN @ - 1 ELSE @,
             !.deleted = IF r \in AutoDelete /\ pool.ref[r] = 1 THEN @ \cup {r} ELSE @]
      BY DEF StealRunnable
<1> DEFINE s == RemoveAt(pool.queue, i)
<1>3. s \in Seq(Entries) /\ Inserted(s, pool.queue, i)
      BY <1>1, RemoveAtRemoves
<1>4. ref \in [Tasks -> Int] /\ deleted \in SUBSET AutoDelete
      <2>1. pool.ref[r] - 1 \in Int
            BY <1>1
      <2>2. QED BY <1>1, <2>1
<1>5. /\ pool'.queue = s /\ pool'.ref = ref /\ pool'.deleted = deleted
      /\ pool'.phase = pool.phase /\ pool'.runnable = pool.runnable
      /\ pool'.activeThreads = pool.activeThreads
      /\ pool'.expiredThreads = pool.expiredThreads
      BY <1>1, <1>2 DEF PoolRecords
<1>6. pool' \in PoolRecords
      <2>1. pool' = [pool EXCEPT !.queue = s, !.ref = ref, !.deleted = deleted]
            BY <1>1, <1>2 DEF PoolRecords
      <2> HIDE DEF s, ref, deleted
      <2>2. QED BY <1>1, <1>3, <1>4, <2>1 DEF PoolRecords
<1> HIDE DEF s
<1>7. Sound(pool')
      <2>1. Employed(pool') = Employed(pool)
            BY <1>5 DEF Employed
      <2>2. QED BY <1>1, <1>5, <1>6, <2>1 DEF Sound, Wellformed, ThreadsSound
<1>8. Taken(r)
      <2>1. ASSUME NEW t \in Tasks PROVE Todo(pool, t) = Todo(pool', t) + One(t = r)
            <3>1. /\ InQueue(pool.queue, t) = InQueue(s, t) + One(pool.queue[i].task = t)
                  /\ InQueue(s, t) \in Nat
                  BY <1>1, <1>3, QueueCount
            <3>2. One(pool.queue[i].task = t) = One(t = r) /\ One(t = r) \in Nat
                  BY <1>2 DEF One
            <3>3. /\ Todo(pool, t) = InQueue(pool.queue, t) + WithThreads(pool.runnable, t)
                  /\ Todo(pool', t) = InQueue(s, t) + WithThreads(pool.runnable, t)
                  /\ WithThreads(pool.runnable, t) \in Nat
                  BY <1>1, <1>5, TodoNat DEF Todo
            <3>4. QED BY <3>1, <3>2, <3>3
      <2>2. QED BY <2>1 DEF Taken
<1>9. \A t \in PoolThreads : /\ pool.phase[t] = "running" <=> pool'.phase[t] = "running"
                             /\ pool.phase[t] = "waiting" <=> pool'.phase[t] = "waiting"
      BY <1>5
<1>10. UNCHANGED <<job, client, doomed, starts, waits>> /\ stolen' = [stolen EXCEPT ![r] = @ + 1]
       BY DEF StealRunnable
<1>11. Members' /\ StayAwake /\ NumbersSame /\ Told' = Told
       <2>1. NumbersSame
             BY <1>5, <1>10 DEF NumbersSame
       <2>2. Members'
             BY <1>7, <1>9, <1>10 DEF Members
       <2>3. QED BY <1>10, <2>1, <2>2 DEF Told, StayAwake
<1>12. Released(r)
       BY <1>5, <1>10, <1>11 DEF Released
<1>13. QED BY <1>8, <1>10, <1>11, <1>12 DEF TakesBack

-----------------------------------------------------------------------------
(* The loop of the threads *)

\* A thread that leaves run() is in expiredThreads once, if at all.
LEMMA LeavesSound ==
  ASSUME NEW p, Wellformed(p), NEW t \in PoolThreads, p.phase[t] \in {"running", "waiting"},
         NEW q \in PoolRecords, q.phase = [p.phase EXCEPT ![t] = "ended"],
         q.runnable = p.runnable,
         q.expiredThreads = p.expiredThreads \/ q.expiredThreads = Append(p.expiredThreads, t)
  PROVE  /\ Wellformed(q)
         /\ t \notin Employed(q) /\ Employed(p) \cup {t} = Employed(q) \cup {t}
<1>1. /\ p \in PoolRecords /\ ThreadsSound(p) /\ p.expiredThreads \in Seq(PoolThreads)
      /\ p.phase \in [PoolThreads -> Phases]
      BY DEF Wellformed, PoolRecords
<1>2. p.runnable[t] = NoTask
      BY <1>1 DEF ThreadsSound
<1>3. t \notin Employed(q) /\ Employed(p) \cup {t} = Employed(q) \cup {t}
      BY <1>1, <1>2 DEF Employed
<1> DEFINE s == p.expiredThreads
           e == q.expiredThreads
<1>4. \A i \in DOMAIN s : s[i] \in PoolThreads /\ s[i] # t
      BY <1>1 DEF ThreadsSound
<1>5. /\ \A i \in DOMAIN s : /\ q.phase[s[i]] \in {"ended", "finished", "deleted"}
                             /\ q.runnable[s[i]] = NoTask
      /\ \A i, j \in DOMAIN s : s[i] = s[j] => i = j
      BY <1>1, <1>4 DEF ThreadsSound
<1>6. /\ q.phase[t] = "ended" /\ q.runnable[t] = NoTask
      BY <1>1, <1>2
<1>7. \A u \in PoolThreads :
        /\ q.phase[u] \in {"unused", "running", "waiting"} => q.runnable[u] = NoTask
        /\ q.phase[u] = "started" => q.runnable[u] # NoTask
      BY <1>1, <1>2 DEF ThreadsSound
<1>8. CASE e = s
      <2> HIDE DEF s
      <2>1. ThreadsSound(q)
            BY <1>5, <1>7, <1>8 DEF ThreadsSound
      <2>2. QED BY <1>3, <2>1 DEF Wellformed
<1>9. CASE e = Append(s, t)
      <2>1. /\ Len(s) \in Nat /\ DOMAIN s = 1..Len(s) /\ DOMAIN e = 1..(Len(s) + 1)
            /\ \A i \in 1..Len(s) : e[i] = s[i]
            /\ e[Len(s) + 1] = t
            BY <1>1, <1>9, LenProperties, AppendProperties
      <2> HIDE DEF s, e
      <2>2. \A i \in DOMAIN e :
              \/ i \in DOMAIN s /\ e[i] = s[i]
              \/ i = Len(s) + 1 /\ e[i] = t
            BY <2>1
      <2>3. \A i \in DOMAIN e : /\ q.phase[e[i]] \in {"ended", "finished", "deleted"}
                                /\ q.runnable[e[i]] = NoTask
            BY <1>5, <1>6, <2>2
      <2>4. \A i, j \in DOMAIN e : e[i] = e[j] => i = j
            BY <1>4, <1>5, <2>2
      <2>5. ThreadsSound(q)
            BY <1>7, <2>3, <2>4 DEF ThreadsSound, e
      <2>6. QED BY <1>3, <2>5 DEF Wellformed
<1>10. QED BY <1>8, <1>9

\* registerTheadInactive(), of a thread that is not employed any more
LEMMA InactiveSound ==
  ASSUME NEW p, Wellformed(p), NEW t \in PoolThreads, t \notin Employed(p),
         p.activeThreads = Cardinality(Employed(p) \cup {t}), NEW w, C!Sound(w)
  PROVE  LET o == Inactive(p, w)
         IN  /\ Sound(o[1]) /\ Wakes(w, o[2])
             /\ o[1].phase = p.phase /\ o[1].ref = p.ref /\ o[1].deleted = p.deleted
             /\ \A r : Todo(o[1], r) = Todo(p, r)
<1> DEFINE o == Inactive(p, w)
           q == [p EXCEPT !.activeThreads = @ - 1]
           x == IF p.activeThreads = 1 THEN W!AfterWakeAll(w, "noActiveThreads") ELSE w
<1>1. o[1] = q /\ o[2] = x
      BY DEF Inactive
<1>2. Cardinality(Employed(p) \cup {t}) = Cardinality(Employed(p)) + 1
      BY EmployedFinite, FS_AddElement
<1>3. p \in PoolRecords /\ p.activeThreads - 1 \in Int
      BY DEF Wellformed, PoolRecords
<1>4. /\ q \in PoolRecords /\ q.phase = p.phase /\ q.runnable = p.runnable
      /\ q.queue = p.queue /\ q.ref = p.ref /\ q.deleted = p.deleted
      /\ q.activeThreads = p.activeThreads - 1 /\ q.expiredThreads = p.expiredThreads
      BY <1>3 DEF PoolRecords
<1> HIDE DEF q
<1>5. Employed(q) = Employed(p) /\ ThreadsSound(q)
      BY <1>4 DEF Employed, Wellformed, ThreadsSound
<1>6. Sound(q)
      BY <1>2, <1>4, <1>5, EmployedFinite DEF Sound, Wellformed
<1>7. Wakes(w, x)
      <2>1. "noActiveThreads" \in Kinds
            BY DEF Kinds, Idle
      <2>2. QED BY <2>1, WakeAllWakes, WakesComposes
<1>8. \A r : Todo(q, r) = Todo(p, r)
      BY <1>4 DEF Todo
<1> HIDE DEF o, x
<1>9. QED BY <1>1, <1>4, <1>6, <1>7, <1>8 DEF o

\* What a thread t that looks for work makes of p, w and the jobs
Moved(p, w, t) ==
  /\ Sound(pool') /\ C!Sound(waits') /\ (C!Promised(w) => C!Promised(waits'))
  /\ pool'.ref = p.ref /\ pool'.deleted = p.deleted
  /\ \A u \in PoolThreads \ {t} : pool'.phase[u] = p.phase[u]
  /\ pool'.phase[t] = "waiting" <=> waits'.place[t] # "out"
  /\ \A u \in Threads \ {t} : \/ waits'.place[u] = w.place[u]
                              \/ w.place[u] = "asleep" /\ waits'.place[u] = "signalled"

FindsWork(p, t, r) ==
  /\ pool'.phase[t] = "running" /\ job' = [job EXCEPT ![t] = r]
  /\ \A s \in Tasks : Todo(p, s) = Todo(pool', s) + One(s = r)

FindsNone(p, t) ==
  /\ pool'.phase[t] # "running" /\ job' = [job EXCEPT ![t] = NoTask]
  /\ \A s \in Tasks : Todo(pool', s) = Todo(p, s)

TakenFrom(p, t) == [p EXCEPT !.queue = Tail(@), !.phase[t] = "running"]

\* A thread takes the first task of the queue.
LEMMA TakesTask ==
  ASSUME NEW p, Wellformed(p), NEW t \in PoolThreads, p.phase[t] \in {"running", "waiting"},
         p.activeThreads = Cardinality(Employed(p) \cup {t}),
         p.queue # <<>>, NEW r, r = Head(p.queue).task,
         NEW q, q = TakenFrom(p, t)
  PROVE  /\ Sound(q) /\ r \in Tasks /\ q.ref = p.ref /\ q.deleted = p.deleted
         /\ q.phase[t] = "running" /\ \A u \in PoolThreads \ {t} : q.phase[u] = p.phase[u]
         /\ \A s \in Tasks : Todo(p, s) = Todo(q, s) + One(s = r)
<1> DEFINE s == Tail(p.queue)
<1>1. /\ p \in PoolRecords /\ p.queue \in Seq(Entries) /\ p.phase \in [PoolThreads -> Phases]
      /\ ThreadsSound(p) /\ p.runnable[t] = NoTask
      BY DEF Wellformed, PoolRecords, ThreadsSound
<1>2. /\ s \in Seq(Entries) /\ Inserted(s, p.queue, 1) /\ p.queue[1] = Head(p.queue)
      /\ Head(p.queue) \in Entries
      BY <1>1, TailRemoves
<1>3. r \in Tasks /\ p.queue[1].task = r
      BY <1>2 DEF Entries
<1> HIDE DEF s
<1>4. /\ q \in PoolRecords /\ q.phase = [p.phase EXCEPT ![t] = "running"]
      /\ q.runnable = p.runnable /\ q.queue = s /\ q.ref = p.ref /\ q.deleted = p.deleted
      /\ q.activeThreads = p.activeThreads /\ q.expiredThreads = p.expiredThreads
      <2> DEFINE phase == [p.phase EXCEPT ![t] = "running"]
      <2>1. q = [p EXCEPT !.queue = s, !.phase = phase]
            BY <1>1 DEF s, PoolRecords, TakenFrom
      <2>2. phase \in [PoolThreads -> Phases]
            BY <1>1 DEF Phases
      <2> HIDE DEF phase
      <2>3. QED BY <1>1, <1>2, <2>1, <2>2 DEF PoolRecords, phase
<1>5. Employed(q) = Employed(p) \cup {t}
      BY <1>1, <1>4 DEF Employed
<1>6. ThreadsSound(q)
      <2>1. \A i \in DOMAIN p.expiredThreads : p.expiredThreads[i] # t
            BY <1>1 DEF ThreadsSound
      <2>2. QED BY <1>1, <1>4, <2>1 DEF ThreadsSound
<1>7. \A u \in Tasks : Todo(p, u) = Todo(q, u) + One(u = r)
      <2> TAKE u \in Tasks
      <2>1. InQueue(p.queue, u) = InQueue(s, u) + One(p.queue[1].task = u)
            BY <1>1, <1>2, QueueCount
      <2>2. One(p.queue[1].task = u) = One(u = r) /\ One(u = r) \in Nat
            BY <1>3 DEF One
      <2>3. /\ Todo(p, u) = InQueue(p.queue, u) + WithThreads(p.runnable, u)
            /\ Todo(q, u) = InQueue(s, u) + WithThreads(p.runnable, u)
            BY <1>4 DEF Todo
      <2>4. InQueue(s, u) \in Nat /\ WithThreads(p.runnable, u) \in Nat
            BY <1>1, <1>2, InQueueNat, TodoNat
      <2>5. QED BY <2>1, <2>2, <2>3, <2>4
<1>8. q.phase[t] = "running" /\ \A u \in PoolThreads \ {t} : q.phase[u] = p.phase[u]
      BY <1>1, <1>4
<1>9. QED BY <1>3, <1>4, <1>5, <1>6, <1>7, <1>8 DEF Sound, Wellformed

\* A thread that looks for work takes a task, leaves or waits.
LEMMA LookForWorkMoves ==
  ASSUME NEW p, Wellformed(p), NEW t \in PoolThreads, p.phase[t] \in {"running", "waiting"},
         p.activeThreads = Cardinality(Employed(p) \cup {t}),
         NEW w, C!Sound(w), w.place[t] = "out", LookForWork(p, w, t)
  PROVE  Moved(p, w, t) /\ (FindsNone(p, t) \/ \E r \in Tasks : FindsWork(p, t, r))
<1>1. /\ p \in PoolRecords /\ p.phase \in [PoolThreads -> Phases] /\ t \in Threads
      /\ p.expiredThreads \in Seq(PoolThreads)
      BY DEF Wellformed, PoolRecords, Threads
<1>2. CASE /\ ~TooManyThreadsActive(p) /\ p.queue # <<>>
           /\ pool' = [p EXCEPT !.queue = Tail(@), !.phase[t] = "running"]
           /\ job' = [job EXCEPT ![t] = Head(p.queue).task]
           /\ waits' = w
      <2>1. PICK q, r : q = pool' /\ r = Head(p.queue).task
            OBVIOUS
      <2>a. q = TakenFrom(p, t) /\ p.queue # <<>> /\ r = Head(p.queue).task
            BY <1>2, <2>1 DEF TakenFrom
      <2>2. /\ Sound(q) /\ r \in Tasks /\ q.ref = p.ref /\ q.deleted = p.deleted
            /\ q.phase[t] = "running" /\ \A u \in PoolThreads \ {t} : q.phase[u] = p.phase[u]
            /\ \A s \in Tasks : Todo(p, s) = Todo(q, s) + One(s = r)
            BY <2>a, TakesTask
      <2>3. Moved(p, w, t)
            BY <1>1, <1>2, <2>1, <2>2 DEF Moved
      <2>4. FindsWork(p, t, r)
            BY <1>1, <1>2, <2>1, <2>2 DEF FindsWork
      <2>5. QED BY <2>2, <2>3, <2>4
<1>3. CASE /\ LET left == [p EXCEPT !.phase[t] = "ended",
                             !.expiredThreads = IF p.isExiting THEN @ ELSE Append(@, t)]
              IN  Outcome({Inactive(left, w)})
           /\ job' = [job EXCEPT ![t] = NoTask]
      <2> DEFINE phase == [p.phase EXCEPT ![t] = "ended"]
                 expired == IF p.isExiting THEN p.expiredThreads ELSE Append(p.expiredThreads, t)
                 q == [p EXCEPT !.phase = phase, !.expiredThreads = expired]
      <2>1. pool' = Inactive(q, w)[1] /\ waits' = Inactive(q, w)[2]
            <3>1. q = [p EXCEPT !.phase[t] = "ended",
                         !.expiredThreads = IF p.isExiting THEN @ ELSE Append(@, t)]
                  BY <1>1 DEF PoolRecords
            <3> HIDE DEF q
            <3>2. Outcome({Inactive(q, w)})
                  BY <1>3, <3>1
            <3>3. QED BY <3>2 DEF Outcome
      <2>2. phase \in [PoolThreads -> Phases] /\ expired \in Seq(PoolThreads)
            BY <1>1, AppendProperties DEF Phases
      <2>3. /\ phase[t] = "ended" /\ \A u \in PoolThreads \ {t} : phase[u] = p.phase[u]
            /\ expired = p.expiredThreads \/ expired = Append(p.expiredThreads, t)
            BY <1>1
      <2>4. /\ q \in PoolRecords /\ q.phase = phase /\ q.expiredThreads = expired
            /\ q.runnable = p.runnable /\ q.queue = p.queue /\ q.ref = p.ref
            /\ q.deleted = p.deleted /\ q.activeThreads = p.activeThreads
            <3> HIDE DEF phase, expired
            <3> QED BY <1>1, <2>2 DEF PoolRecords
      <2> HIDE DEF q, expired
      <2>5. /\ Wellformed(q) /\ t \notin Employed(q)
            /\ Employed(p) \cup {t} = Employed(q) \cup {t}
            BY <2>3, <2>4, LeavesSound
      <2> HIDE DEF phase
      <2>6. q.activeThreads = Cardinality(Employed(q) \cup {t})
            BY <2>4, <2>5
      <2>7. /\ Sound(pool') /\ Wakes(w, waits')
            /\ pool'.phase = phase /\ pool'.ref = p.ref /\ pool'.deleted = p.deleted
            /\ \A r : Todo(pool', r) = Todo(q, r)
            BY <2>1, <2>4, <2>5, <2>6, InactiveSound
      <2>8. \A r : Todo(q, r) = Todo(p, r)
            BY <2>4 DEF Todo
      <2>9. waits'.place[t] = "out"
            BY <1>1, <2>7 DEF Wakes, C!Roused
      <2>10. Moved(p, w, t)
            BY <2>3, <2>7, <2>9 DEF Moved, Wakes, C!Roused
      <2>11. FindsNone(p, t)
            BY <1>3, <2>3, <2>7, <2>8 DEF FindsNone
      <2>12. QED BY <2>10, <2>11
<1>4. CASE /\ LET idle == Inactive([p EXCEPT !.waitingThreads = @ + 1,
                                             !.phase[t] = "waiting"], w)
              IN  /\ pool' = idle[1]
                  /\ waits' = W!AfterBegin(idle[2], t, "runnableReady", Expiry)
           /\ job' = [job EXCEPT ![t] = NoTask]
      <2> DEFINE phase == [p.phase EXCEPT ![t] = "waiting"]
                 n == p.waitingThreads + 1
                 q == [p EXCEPT !.waitingThreads = n, !.phase = phase]
                 x == Inactive(q, w)[2]
      <2>1. pool' = Inactive(q, w)[1] /\ waits' = W!AfterBegin(x, t, "runnableReady", Expiry)
            <3>1. q = [p EXCEPT !.waitingThreads = @ + 1, !.phase[t] = "waiting"]
                  BY <1>1 DEF PoolRecords
            <3> HIDE DEF q
            <3>2. QED BY <1>4, <3>1
      <2>2. phase \in [PoolThreads -> Phases] /\ n \in Int
            BY <1>1 DEF Phases, PoolRecords
      <2>3. phase[t] = "waiting" /\ \A u \in PoolThreads \ {t} : phase[u] = p.phase[u]
            BY <1>1
      <2>4. /\ q \in PoolRecords /\ q.phase = phase /\ q.expiredThreads = p.expiredThreads
            /\ q.runnable = p.runnable /\ q.queue = p.queue /\ q.ref = p.ref
            /\ q.deleted = p.deleted /\ q.activeThreads = p.activeThreads
            <3> HIDE DEF phase, n
            <3> QED BY <1>1, <2>2 DEF PoolRecords
      <2> HIDE DEF q, phase
      <2>5. p.runnable[t] = NoTask /\ \A i \in DOMAIN p.expiredThreads : p.expiredThreads[i] # t
            BY DEF Wellformed, ThreadsSound
      <2>6. t \notin Employed(q) /\ Employed(p) \cup {t} = Employed(q) \cup {t}
            BY <2>3, <2>4, <2>5 DEF Employed
      <2>7. Wellformed(q)
            <3>1. ThreadsSound(p)
                  BY DEF Wellformed
            <3>2. \A u \in PoolThreads :
                    /\ q.phase[u] \in {"unused", "running", "waiting"} => q.runnable[u] = NoTask
                    /\ q.phase[u] = "started" => q.runnable[u] # NoTask
                  BY <2>3, <2>4, <2>5, <3>1 DEF ThreadsSound
            <3>3. \A i \in DOMAIN p.expiredThreads : p.expiredThreads[i] \in PoolThreads \ {t}
                  BY <1>1, <2>5
            <3>4. ThreadsSound(q)
                  BY <2>3, <2>4, <3>1, <3>2, <3>3 DEF ThreadsSound
            <3>5. QED BY <2>4, <3>4 DEF Wellformed
      <2>8. q.activeThreads = Cardinality(Employed(q) \cup {t})
            BY <2>4, <2>6
      <2>9. /\ Sound(pool') /\ Wakes(w, x)
            /\ pool'.phase = phase /\ pool'.ref = p.ref /\ pool'.deleted = p.deleted
            /\ \A r : Todo(pool', r) = Todo(q, r)
            BY <2>1, <2>4, <2>6, <2>7, <2>8, InactiveSound
      <2>10. \A r : Todo(q, r) = Todo(p, r)
            BY <2>4 DEF Todo
      <2> HIDE DEF x
      <2>11. /\ C!Sound(x) /\ x.place[t] = "out" /\ x.place[t] \notin C!Unlocked
             /\ C!Promised(w) => C!Promised(x)
            BY <1>1, <2>9 DEF Wakes, C!Roused, C!Unlocked
      <2>12. "runnableReady" \in Kinds /\ Expiry \in BOOLEAN
            BY PoolAssumption DEF Kinds, Ready
      <2>13. /\ C!Sound(waits') /\ (C!Promised(x) => C!Promised(waits'))
             /\ waits'.place = [x.place EXCEPT ![t] = "asleep"]
            <3> DEFINE y == W!AfterBegin(x, t, "runnableReady", Expiry)
            <3>1. /\ C!Sound(y) /\ (C!Promised(x) => C!Promised(y))
                  /\ y.place = [x.place EXCEPT ![t] = "asleep"]
                  BY <1>1, <2>11, <2>12, BeginsToWait
            <3> HIDE DEF y
            <3>2. waits' = y
                  BY <2>1 DEF y
            <3>3. QED BY <3>1, <3>2
      <2>14. x.place \in [Threads -> C!Places]
            BY <2>11 DEF C!Sound, C!Shape
      <2>15. /\ waits'.place[t] = "asleep"
             /\ \A u \in Threads \ {t} : waits'.place[u] = x.place[u]
            BY <1>1, <2>13, <2>14
      <2>16. Moved(p, w, t)
            BY <2>3, <2>9, <2>11, <2>13, <2>15 DEF Moved, Wakes, C!Roused
      <2>17. FindsNone(p, t)
            BY <1>4, <2>3, <2>9, <2>10 DEF FindsNone
      <2>18. QED BY <2>16, <2>17
<1>5. QED BY <1>2, <1>3, <1>4 DEF LookForWork

\* Only t has moved, and it waits if it is inside wait().
LEMMA MovedMembers ==
  ASSUME Members, NEW t \in PoolThreads, NEW p, NEW w, Moved(p, w, t), p.phase = pool.phase,
         \A u \in Threads \ {t} : w.place[u] = waits.place[u],
         w.place[t] # "signalled", waits.place[t] # "signalled",
         C!Promised(waits) => C!Promised(w),
         NEW r \in Tasks \cup {NoTask}, job' = [job EXCEPT ![t] = r],
         pool'.phase[t] = "running" => r \in Tasks,
         UNCHANGED <<client, doomed, starts, stolen>>
  PROVE  Members' /\ StayAwake /\ Told' = Told
<1>1. PoolThreads \subseteq Threads /\ Clients \subseteq Threads \ {t}
      BY ThreadsFinite DEF Threads
<1>2. \A u \in Threads \ {t} : waits'.place[u] = "out" <=> waits.place[u] = "out"
      BY DEF Moved
<1>3. \A u \in PoolThreads : pool'.phase[u] = "waiting" <=> waits'.place[u] # "out"
      BY <1>1, <1>2 DEF Moved, Members
<1>4. \A c \in Clients : client'[c] = "waiting" <=> waits'.place[c] # "out"
      BY <1>1, <1>2 DEF Members
<1>5. /\ job' \in [PoolThreads -> Tasks \cup {NoTask}]
      /\ \A u \in PoolThreads : pool'.phase[u] = "running" => job'[u] \in Tasks
      BY DEF Members, Moved
<1>6. Sound(pool') /\ C!Sound(waits') /\ (~SpuriousWakeups => C!Promised(waits'))
      BY DEF Members, Moved
<1>7. Members'
      BY <1>3, <1>4, <1>5, <1>6 DEF Members
<1>8. StayAwake
      BY DEF Moved, StayAwake
<1>9. QED BY <1>7, <1>8 DEF Told

OnlyMoves(t, r) ==
  /\ \A u \in PoolThreads \ {t} : pool'.phase[u] = pool.phase[u] /\ job'[u] = job[u]
  /\ job'[t] = r

\* Who runs what, when t has ended one task or has none, and has begun another or none.
LEMMA MovedNumbers ==
  ASSUME Members, NEW t \in PoolThreads, NEW r \in Tasks \cup {NoTask},
         OnlyMoves(t, r), NEW s \in Tasks
  PROVE  /\ pool.phase[t] # "running" /\ pool'.phase[t] # "running" =>
              Number(pool'.phase, job', s) = Number(pool.phase, job, s)
         /\ pool.phase[t] = "running" /\ pool'.phase[t] # "running" =>
              Number(pool.phase, job, s) = Number(pool'.phase, job', s) + One(s = job[t])
         /\ pool.phase[t] # "running" /\ pool'.phase[t] = "running" /\ r \in Tasks =>
              Number(pool'.phase, job', s) = Number(pool.phase, job, s) + One(s = r)
         /\ pool.phase[t] = "running" /\ pool'.phase[t] = "running" /\ r \in Tasks =>
              Number(pool'.phase, job', s) + One(s = job[t]) =
                Number(pool.phase, job, s) + One(s = r)
<1>1. PICK f, g, j, k, h : /\ f = pool.phase /\ g = pool'.phase /\ j = job /\ k = job'
                           /\ h = [pool.phase EXCEPT ![t] = "ended"]
      OBVIOUS
<1>2. /\ \A u \in PoolThreads \ {t} : f[u] = g[u] /\ j[u] = k[u] /\ h[u] = f[u]
      /\ h[t] = "ended" /\ k[t] = r /\ (f[t] = "running" => j[t] \in Tasks)
      BY <1>1 DEF Members, Sound, Wellformed, PoolRecords, OnlyMoves
<1>3. ASSUME f[t] # "running", g[t] # "running" PROVE Number(g, k, s) = Number(f, j, s)
      <2>1. Alike(PoolThreads, f, j, g, k)
            BY <1>2, <1>3 DEF Alike
      <2>2. QED BY <2>1, NumberSame
<1>4. ASSUME f[t] = "running", g[t] # "running"
      PROVE  Number(f, j, s) = Number(g, k, s) + One(s = j[t])
      <2>1. Alike(PoolThreads \ {t}, g, k, f, j) /\ j[t] \in Tasks
            BY <1>2, <1>4 DEF Alike
      <2>2. QED BY <1>4, <2>1, NumberCount
<1>5. ASSUME f[t] # "running", g[t] = "running", r \in Tasks
      PROVE  Number(g, k, s) = Number(f, j, s) + One(s = r)
      <2>1. PICK n \in Tasks : n = r
            BY <1>5
      <2>2. Alike(PoolThreads \ {t}, f, j, g, k) /\ k[t] = n
            BY <1>2, <2>1 DEF Alike
      <2>3. Number(g, k, s) = Number(f, j, s) + One(s = n)
            BY <1>5, <2>2, NumberCount
      <2>4. QED BY <2>1, <2>3
<1>6. ASSUME f[t] = "running", g[t] = "running", r \in Tasks
      PROVE  Number(g, k, s) + One(s = j[t]) = Number(f, j, s) + One(s = r)
      <2>1. /\ Alike(PoolThreads \ {t}, h, j, f, j) /\ Alike(PoolThreads \ {t}, h, j, g, k)
            /\ h[t] # "running" /\ j[t] \in Tasks /\ k[t] = r
            BY <1>2, <1>6 DEF Alike
      <2>2. /\ Number(f, j, s) = Number(h, j, s) + One(s = j[t])
            /\ Number(h, j, s) \in Nat
            BY <1>6, <2>1, NumberCount
      <2>3. Number(g, k, s) = Number(h, j, s) + One(s = r)
            <3>1. PICK n \in Tasks : n = r
                  BY <1>6
            <3>2. /\ Alike(PoolThreads \ {t}, h, j, g, k)
                  /\ h[t] # "running" /\ g[t] = "running" /\ k[t] = n
                  BY <1>6, <2>1, <3>1
            <3>3. Number(g, k, s) = Number(h, j, s) + One(s = n)
                  BY <3>2, NumberCount
            <3>4. QED BY <3>1, <3>3
      <2>4. One(s = j[t]) \in Nat /\ One(s = r) \in Nat
            BY DEF One
      <2>5. QED BY <2>2, <2>3, <2>4
<1>7. QED BY <1>1, <1>3, <1>4, <1>5, <1>6

\* A thread that was started begins its task.
LEMMA BeginRunEffect ==
  ASSUME Members, NEW t \in PoolThreads, BeginRun(t)
  PROVE  Members' /\ StayAwake /\ \E r \in Tasks : Begins(r)
<1> DEFINE r == pool.runnable[t]
           phase == [pool.phase EXCEPT ![t] = "running"]
           runnable == [pool.runnable EXCEPT ![t] = NoTask]
<1>1. /\ Sound(pool) /\ pool \in PoolRecords /\ pool.phase \in [PoolThreads -> Phases]
      /\ pool.runnable \in [PoolThreads -> Tasks \cup {NoTask}] /\ ThreadsSound(pool)
      /\ job \in [PoolThreads -> Tasks \cup {NoTask}]
      BY DEF Members, Sound, Wellformed, PoolRecords
<1>2. /\ pool.phase[t] = "started"
      /\ pool' = [pool EXCEPT !.runnable = runnable, !.phase = phase]
      /\ job' = [job EXCEPT ![t] = r]
      /\ UNCHANGED <<client, doomed, starts, stolen, waits>>
      BY <1>1 DEF BeginRun, PoolRecords
<1>3. r \in Tasks
      BY <1>1, <1>2 DEF ThreadsSound
<1>4. phase \in [PoolThreads -> Phases] /\ runnable \in [PoolThreads -> Tasks \cup {NoTask}]
      BY <1>1 DEF Phases
<1>5. /\ phase[t] = "running" /\ \A u \in PoolThreads \ {t} : phase[u] = pool.phase[u]
      /\ runnable[t] = NoTask /\ \A u \in PoolThreads \ {t} : runnable[u] = pool.runnable[u]
      BY <1>1
<1> HIDE DEF phase, runnable
<1>6. /\ pool' \in PoolRecords /\ pool'.phase = phase /\ pool'.runnable = runnable
      /\ pool'.queue = pool.queue /\ pool'.ref = pool.ref /\ pool'.deleted = pool.deleted
      /\ pool'.activeThreads = pool.activeThreads
      /\ pool'.expiredThreads = pool.expiredThreads
      BY <1>1, <1>2, <1>4 DEF PoolRecords
<1>7. Employed(pool') = Employed(pool)
      BY <1>2, <1>5, <1>6 DEF Employed
<1>8. ThreadsSound(pool')
      <2>1. \A i \in DOMAIN pool.expiredThreads : pool.expiredThreads[i] \in PoolThreads \ {t}
            BY <1>1, <1>2 DEF ThreadsSound, PoolRecords
      <2>2. \A u \in PoolThreads :
              /\ phase[u] \in {"unused", "running", "waiting"} => runnable[u] = NoTask
              /\ phase[u] = "started" => runnable[u] # NoTask
            BY <1>1, <1>5 DEF ThreadsSound
      <2>3. QED BY <1>1, <1>5, <1>6, <2>1, <2>2 DEF ThreadsSound
<1>9. Sound(pool')
      BY <1>1, <1>6, <1>7, <1>8 DEF Sound, Wellformed
<1>10. Moved(pool, waits, t)
       BY <1>2, <1>5, <1>6, <1>9 DEF Moved, Members
<1>11. Members' /\ StayAwake /\ Told' = Told
       <2>1. waits.place[t] = "out"
             BY <1>2 DEF Members, Threads, C!Sound, C!Shape
       <2>2. QED BY <1>2, <1>3, <1>10, <2>1, MovedMembers
<1>12. Taken(r)
       <2>1. ASSUME NEW s \in Tasks PROVE Todo(pool, s) = Todo(pool', s) + One(s = r)
             <3>1. /\ WithThreads(runnable, s) \in Nat
                   /\ WithThreads(pool.runnable, s) = WithThreads(runnable, s) + One(s = r)
                   <4>1. OneMore(runnable, pool.runnable, t, r)
                        BY <1>5 DEF OneMore
                  <4>2. QED BY <1>3, <4>1, GivenCount
             <3>2. /\ Todo(pool', s) = InQueue(pool.queue, s) + WithThreads(runnable, s)
                   /\ InQueue(pool.queue, s) \in Nat
                   BY <1>1, <1>6, TodoNat DEF Todo
             <3>3. One(s = r) \in Nat
                   BY DEF One
             <3>4. QED BY <3>1, <3>2, <3>3 DEF Todo
       <2>2. QED BY <2>1 DEF Taken
<1>13. \A s \in Tasks : Number(pool'.phase, job', s) = Number(pool.phase, job, s) + One(s = r)
       <2>1. OnlyMoves(t, r)
             BY <1>1, <1>2, <1>5, <1>6 DEF OnlyMoves
       <2>2. pool.phase[t] # "running" /\ pool'.phase[t] = "running"
             BY <1>2, <1>5, <1>6
       <2>3. QED BY <1>3, <2>1, <2>2, MovedNumbers
<1>14. BooksSame
       BY <1>2, <1>6 DEF BooksSame, Uncalled
<1>15. QED BY <1>3, <1>11, <1>12, <1>13, <1>14 DEF Begins

\* A thread that ends its task begins another one, leaves or waits.
LEMMA EndTaskEffect ==
  ASSUME Members, NEW t \in PoolThreads, EndTask(t)
  PROVE  /\ Members' /\ StayAwake
         /\ \E r \in Tasks : Ends(r) \/ \E n \in Tasks : EndsAndBegins(r, n)
<1> DEFINE r == job[t]
           ref == IF r \in AutoDelete THEN [pool.ref EXCEPT ![r] = @ - 1] ELSE pool.ref
           deleted == IF r \in AutoDelete /\ pool.ref[r] = 1 THEN pool.deleted \cup {r}
                                                           ELSE pool.deleted
           p == [pool EXCEPT !.ref = ref, !.deleted = deleted]
<1>1. /\ Sound(pool) /\ pool \in PoolRecords /\ ThreadsSound(pool) /\ C!Sound(waits)
      /\ pool.ref \in [Tasks -> Int] /\ pool.deleted \subseteq AutoDelete
      /\ pool.phase[t] = "running" /\ r \in Tasks /\ job \in [PoolThreads -> Tasks \cup {NoTask}]
      BY DEF Members, Sound, Wellformed, PoolRecords, EndTask
<1>2. waits.place[t] = "out"
      BY <1>1 DEF Members
<1>3. LookForWork(p, waits, t) /\ UNCHANGED <<client, doomed, starts, stolen>>
      <2>1. p = [pool EXCEPT
              !.ref[r] = IF r \in AutoDelete THEN @ - 1 ELSE @,
              !.deleted = IF r \in AutoDelete /\ pool.ref[r] = 1 THEN @ \cup {r} ELSE @]
            BY <1>1 DEF PoolRecords
      <2> HIDE DEF p
      <2>2. QED BY <2>1 DEF EndTask
<1>4. ref \in [Tasks -> Int] /\ deleted \in SUBSET AutoDelete
      <2>1. pool.ref[r] - 1 \in Int
            BY <1>1
      <2>2. QED BY <1>1, <2>1
<1>5. /\ p \in PoolRecords /\ p.phase = pool.phase /\ p.runnable = pool.runnable
      /\ p.queue = pool.queue /\ p.ref = ref /\ p.deleted = deleted
      /\ p.activeThreads = pool.activeThreads /\ p.expiredThreads = pool.expiredThreads
      <2> HIDE DEF ref, deleted
      <2> QED BY <1>1, <1>4 DEF PoolRecords
<1> HIDE DEF p
<1>6. Wellformed(p) /\ \A s : Todo(p, s) = Todo(pool, s)
      BY <1>1, <1>5 DEF Wellformed, ThreadsSound, Todo
<1>7. p.activeThreads = Cardinality(Employed(p) \cup {t})
      <2>1. Employed(p) = Employed(pool) /\ t \in Employed(pool)
            BY <1>1, <1>5 DEF Employed
      <2>2. Employed(p) \cup {t} = Employed(pool)
            BY <2>1
      <2>3. QED BY <1>1, <1>5, <2>2 DEF Sound
<1>8. Moved(p, waits, t) /\ (FindsNone(p, t) \/ \E n \in Tasks : FindsWork(p, t, n))
      BY <1>1, <1>2, <1>3, <1>5, <1>6, <1>7, LookForWorkMoves
<1>9. PICK n \in Tasks \cup {NoTask} :
        /\ job' = [job EXCEPT ![t] = n] /\ (pool'.phase[t] = "running" <=> n \in Tasks)
        /\ n \in Tasks => FindsWork(p, t, n)
        /\ n \notin Tasks => FindsNone(p, t)
      BY <1>8, PoolAssumption DEF FindsNone, FindsWork
<1>10. Members' /\ StayAwake /\ Told' = Told
       BY <1>2, <1>3, <1>5, <1>8, <1>9, MovedMembers
<1>11. OnlyMoves(t, n)
       BY <1>1, <1>5, <1>8, <1>9 DEF OnlyMoves, Moved
<1>12. Released(r)
       BY <1>3, <1>5, <1>8, <1>10 DEF Released, Moved
<1>13. CASE n \in Tasks
       <2>1. Taken(n)
             BY <1>6, <1>9, <1>13 DEF FindsWork, Taken
       <2>2. ASSUME NEW s \in Tasks
             PROVE  Number(pool'.phase, job', s) + One(s = r) =
                      Number(pool.phase, job, s) + One(s = n)
             BY <1>1, <1>9, <1>11, <1>13, MovedNumbers
       <2>3. Number(pool.phase, job, r) # 0
             BY <1>1, NumberNotZero
       <2>4. QED BY <1>1, <1>3, <1>10, <1>12, <1>13, <2>1, <2>2, <2>3 DEF EndsAndBegins
<1>14. CASE n \notin Tasks
       <2>1. TodoSame
             BY <1>6, <1>9, <1>14 DEF FindsNone, TodoSame
       <2>2. ASSUME NEW s \in Tasks
             PROVE  Number(pool.phase, job, s) = Number(pool'.phase, job', s) + One(s = r)
             <3>1. pool.phase[t] = "running" /\ pool'.phase[t] # "running"
                   BY <1>1, <1>9, <1>14
             <3>2. QED BY <1>11, <3>1, MovedNumbers
       <2>3. QED BY <1>1, <1>3, <1>10, <1>12, <2>1, <2>2 DEF Ends
<1>15. QED BY <1>13, <1>14

\* A thread that was waiting for work finds some, leaves or waits again.
LEMMA WakeForWorkEffect ==
  ASSUME Members, NEW t \in PoolThreads, WakeForWork(t)
  PROVE  Members' /\ StayAwake /\ (Talks \/ \E r \in Tasks : Begins(r))
<1> DEFINE a == pool.activeThreads + 1
           p == [pool EXCEPT !.activeThreads = a]
           w == W!AfterReturn(waits, t)
<1>1. /\ Sound(pool) /\ pool \in PoolRecords /\ ThreadsSound(pool) /\ C!Sound(waits)
      /\ a \in Int /\ waits.place[t] = "succeeded" /\ pool.phase[t] = "waiting"
      /\ waits.place \in [Threads -> C!Places]
      /\ job \in [PoolThreads -> Tasks \cup {NoTask}] /\ t \in Threads
      BY DEF Members, Sound, Wellformed, PoolRecords, WakeForWork, C!Sound, C!Shape, Threads
<1>2. LookForWork(p, w, t) /\ UNCHANGED <<client, doomed, starts, stolen>>
      BY DEF WakeForWork
<1>3. /\ p \in PoolRecords /\ p.phase = pool.phase /\ p.runnable = pool.runnable
      /\ p.queue = pool.queue /\ p.ref = pool.ref /\ p.deleted = pool.deleted
      /\ p.activeThreads = pool.activeThreads + 1 /\ p.expiredThreads = pool.expiredThreads
      <2> HIDE DEF a
      <2> QED BY <1>1 DEF PoolRecords, a
<1> HIDE DEF p
<1>4. Wellformed(p) /\ \A s : Todo(p, s) = Todo(pool, s)
      BY <1>1, <1>3 DEF Wellformed, ThreadsSound, Todo
<1>5. p.activeThreads = Cardinality(Employed(p) \cup {t})
      <2>1. Employed(p) = Employed(pool) /\ t \notin Employed(pool)
            BY <1>1, <1>3 DEF Employed, ThreadsSound
      <2>2. Cardinality(Employed(pool) \cup {t}) = Cardinality(Employed(pool)) + 1
            BY <2>1, EmployedFinite, FS_AddElement
      <2>3. QED BY <1>1, <1>3, <2>1, <2>2 DEF Sound
<1>6. /\ C!Sound(w) /\ (C!Promised(waits) => C!Promised(w))
      /\ w.place = [waits.place EXCEPT ![t] = "out"]
      BY <1>1, ReturnsFromWait
<1> HIDE DEF w
<1>7. w.place[t] = "out" /\ \A u \in Threads \ {t} : w.place[u] = waits.place[u]
      BY <1>1, <1>6
<1>8. Moved(p, w, t) /\ (FindsNone(p, t) \/ \E n \in Tasks : FindsWork(p, t, n))
      BY <1>1, <1>2, <1>3, <1>4, <1>5, <1>6, <1>7, LookForWorkMoves
<1>9. PICK n \in Tasks \cup {NoTask} :
        /\ job' = [job EXCEPT ![t] = n] /\ (pool'.phase[t] = "running" <=> n \in Tasks)
        /\ n \in Tasks => FindsWork(p, t, n)
        /\ n \notin Tasks => FindsNone(p, t)
      BY <1>8, PoolAssumption DEF FindsNone, FindsWork
<1>10. Members' /\ StayAwake /\ Told' = Told
       BY <1>1, <1>2, <1>3, <1>6, <1>7, <1>8, <1>9, MovedMembers
<1>11. OnlyMoves(t, n)
       BY <1>1, <1>3, <1>8, <1>9 DEF OnlyMoves, Moved
<1>12. BooksSame
       BY <1>2, <1>3, <1>8 DEF BooksSame, Moved, Uncalled
<1>13. CASE n \in Tasks
       <2>1. Taken(n)
             BY <1>4, <1>9, <1>13 DEF FindsWork, Taken
       <2>2. ASSUME NEW s \in Tasks
             PROVE  Number(pool'.phase, job', s) = Number(pool.phase, job, s) + One(s = n)
             <3>1. pool.phase[t] # "running" /\ pool'.phase[t] = "running" /\ n \in Tasks
                   BY <1>1, <1>9, <1>13
             <3>2. QED BY <1>11, <3>1, MovedNumbers
       <2>3. QED BY <1>10, <1>12, <1>13, <2>1, <2>2 DEF Begins
<1>14. CASE n \notin Tasks
       <2>1. TodoSame
             BY <1>4, <1>9, <1>14 DEF FindsNone, TodoSame
       <2>2. ASSUME NEW s \in Tasks
             PROVE  Number(pool'.phase, job', s) = Number(pool.phase, job, s)
             <3>1. pool.phase[t] # "running" /\ pool'.phase[t] # "running"
                   BY <1>1, <1>9, <1>14
             <3>2. QED BY <1>11, <3>1, MovedNumbers
       <2>3. QED BY <1>10, <1>12, <2>1, <2>2 DEF Talks, NumbersSame
<1>15. QED BY <1>13, <1>14

\* A thread whose time is over is counted twice, once up and once down, and leaves.
LEMMA ExpireEffect ==
  ASSUME Members, NEW t \in PoolThreads, Expire(t)
  PROVE  Members' /\ StayAwake /\ Talks
<1> DEFINE a == pool.activeThreads + 1
           n == pool.waitingThreads - 1
           e == Append(pool.expiredThreads, t)
           phase == [pool.phase EXCEPT ![t] = "ended"]
           p == [pool EXCEPT !.activeThreads = a, !.waitingThreads = n,
                             !.expiredThreads = e, !.phase = phase]
           w == W!AfterReturn(waits, t)
<1>1. /\ Sound(pool) /\ pool \in PoolRecords /\ ThreadsSound(pool) /\ C!Sound(waits)
      /\ Wellformed(pool)
      /\ a \in Int /\ n \in Int /\ pool.expiredThreads \in Seq(PoolThreads)
      /\ waits.place[t] = "failed" /\ pool.phase[t] = "waiting"
      /\ pool.phase \in [PoolThreads -> Phases]
      /\ waits.place \in [Threads -> C!Places]
      /\ job \in [PoolThreads -> Tasks \cup {NoTask}] /\ t \in Threads
      BY DEF Members, Sound, Wellformed, PoolRecords, Expire, C!Sound, C!Shape, Threads
<1>2. /\ pool' = Inactive(p, w)[1] /\ waits' = Inactive(p, w)[2]
      /\ UNCHANGED <<job, client, doomed, starts, stolen>>
      <2>1. p = [pool EXCEPT !.activeThreads = @ + 1, !.waitingThreads = @ - 1,
                   !.expiredThreads = Append(@, t), !.phase[t] = "ended"]
            BY <1>1 DEF PoolRecords
      <2> HIDE DEF p, w
      <2>2. Outcome({Inactive(p, w)})
            BY <2>1 DEF Expire, w
      <2>3. QED BY <2>2 DEF Outcome, Expire
<1>3. /\ phase \in [PoolThreads -> Phases] /\ e \in Seq(PoolThreads)
      /\ phase[t] = "ended" /\ \A u \in PoolThreads \ {t} : phase[u] = pool.phase[u]
      BY <1>1, AppendProperties DEF Phases
<1>4. /\ p \in PoolRecords /\ p.phase = phase /\ p.runnable = pool.runnable
      /\ p.queue = pool.queue /\ p.ref = pool.ref /\ p.deleted = pool.deleted
      /\ p.activeThreads = pool.activeThreads + 1 /\ p.expiredThreads = e
      <2> HIDE DEF a, n, e, phase
      <2> QED BY <1>1, <1>3 DEF PoolRecords, a
<1> HIDE DEF p
<1>5. /\ Wellformed(p)
      /\ t \notin Employed(p) /\ Employed(pool) \cup {t} = Employed(p) \cup {t}
      BY <1>1, <1>4, LeavesSound
<1>6. p.activeThreads = Cardinality(Employed(p) \cup {t})
      <2>1. t \notin Employed(pool)
            BY <1>1 DEF Employed, ThreadsSound
      <2>2. Cardinality(Employed(pool) \cup {t}) = Cardinality(Employed(pool)) + 1
            BY <2>1, EmployedFinite, FS_AddElement
      <2>3. QED BY <1>1, <1>4, <1>5, <2>2 DEF Sound
<1>7. /\ C!Sound(w) /\ (C!Promised(waits) => C!Promised(w))
      /\ w.place = [waits.place EXCEPT ![t] = "out"]
      BY <1>1, ReturnsFromWait
<1> HIDE DEF w, phase
<1>8. w.place[t] = "out" /\ \A u \in Threads \ {t} : w.place[u] = waits.place[u]
      BY <1>1, <1>7
<1>9. /\ Sound(pool') /\ Wakes(w, waits')
      /\ pool'.phase = phase /\ pool'.ref = pool.ref /\ pool'.deleted = pool.deleted
      /\ \A s : Todo(pool', s) = Todo(p, s)
      BY <1>2, <1>4, <1>5, <1>6, <1>7, InactiveSound
<1>10. \A s : Todo(p, s) = Todo(pool, s)
       BY <1>4 DEF Todo
<1>11. Moved(pool, w, t)
       <2>1. waits'.place[t] = "out"
             BY <1>1, <1>8, <1>9 DEF Wakes, C!Roused
       <2>2. QED BY <1>3, <1>9, <2>1 DEF Moved, Wakes, C!Roused
<1>12. PICK r \in Tasks \cup {NoTask} : r = job[t]
       BY <1>1
<1>13. job' = [job EXCEPT ![t] = r] /\ pool'.phase[t] # "running"
       BY <1>1, <1>2, <1>3, <1>9, <1>12
<1>14. Members' /\ StayAwake /\ Told' = Told
       BY <1>1, <1>2, <1>7, <1>8, <1>11, <1>13, MovedMembers
<1>15. NumbersSame
       <2>1. Alike(PoolThreads, pool.phase, job, pool'.phase, job')
             BY <1>1, <1>2, <1>3, <1>9 DEF Alike
       <2>2. QED BY <2>1, NumberSame DEF NumbersSame
<1>16. TodoSame /\ BooksSame
       BY <1>2, <1>9, <1>10 DEF TodoSame, BooksSame, Uncalled
<1>17. QED BY <1>14, <1>15, <1>16 DEF Talks

-----------------------------------------------------------------------------
(* finish(), and the clients *)

\* The pools p and q differ in nothing that a task could notice.
Quiet(p, q) ==
  /\ Sound(q) /\ q.queue = p.queue /\ q.runnable = p.runnable /\ q.ref = p.ref
  /\ q.deleted = p.deleted
  /\ \A t \in PoolThreads : /\ p.phase[t] = "running" <=> q.phase[t] = "running"
                            /\ p.phase[t] = "waiting" <=> q.phase[t] = "waiting"

\* A step of nobody who has a task changes nothing for the tasks.
LEMMA QuietMembers ==
  ASSUME Members, Quiet(pool, pool'), UNCHANGED <<job, starts, stolen>>,
         client' \in [Clients -> {"out", "waiting", "done", "joining"}],
         doomed' \in [Clients -> SUBSET PoolThreads],
         C!Sound(waits'), ~SpuriousWakeups => C!Promised(waits'),
         \A t \in PoolThreads : waits.place[t] # "out" <=> waits'.place[t] # "out",
         \A c \in Clients : client'[c] = "waiting" <=> waits'.place[c] # "out"
  PROVE  Members' /\ TodoSame /\ NumbersSame /\ BooksSame
<1>1. TodoSame /\ BooksSame
      BY DEF Quiet, TodoSame, BooksSame, Uncalled, Todo
<1>2. NumbersSame
      <2>1. Alike(PoolThreads, pool.phase, job, pool'.phase, job')
            BY DEF Alike, Quiet
      <2>2. QED BY <2>1, NumberSame DEF NumbersSame
<1>3. Members'
      BY DEF Members, Quiet
<1>4. QED BY <1>1, <1>2, <1>3

\* Threads that have left run(), and records of them, do not matter.
LEMMA QuietRecords ==
  ASSUME NEW p, Sound(p), NEW q \in PoolRecords, q.queue = p.queue, q.runnable = p.runnable,
         q.ref = p.ref, q.deleted = p.deleted, q.activeThreads = p.activeThreads,
         q.expiredThreads = p.expiredThreads \/ q.expiredThreads = <<>>,
         \A t \in PoolThreads : q.phase[t] = p.phase[t] \/
           (p.phase[t] \in {"ended", "finished"} /\ q.phase[t] \in {"finished", "deleted"})
  PROVE  Quiet(p, q)
<1>1. Employed(q) = Employed(p)
      BY DEF Employed
<1>2. p \in PoolRecords /\ ThreadsSound(p) /\ p.expiredThreads \in Seq(PoolThreads)
      BY DEF Sound, Wellformed, PoolRecords
<1>3. \A t \in PoolThreads :
        /\ q.phase[t] \in {"unused", "running", "waiting"} => q.runnable[t] = NoTask
        /\ q.phase[t] = "started" => q.runnable[t] # NoTask
      BY <1>2 DEF ThreadsSound
<1>4. ThreadsSound(q)
      <2>1. CASE q.expiredThreads = <<>>
            BY <1>3, <2>1 DEF ThreadsSound
      <2>2. CASE q.expiredThreads = p.expiredThreads
            <3>1. \A i \in DOMAIN p.expiredThreads : p.expiredThreads[i] \in PoolThreads
                  BY <1>2
            <3>2. QED BY <1>2, <1>3, <2>2, <3>1 DEF ThreadsSound
      <2>3. QED BY <2>1, <2>2
<1>5. Sound(q)
      BY <1>1, <1>4 DEF Sound, Wellformed
<1>6. QED BY <1>5 DEF Quiet

\* QThreadPrivate::finish()
LEMMA FinishEffect ==
  ASSUME Members, NEW t \in PoolThreads, Finish(t)
  PROVE  Members' /\ StayAwake /\ Talks
<1> DEFINE phase == [pool.phase EXCEPT ![t] = "finished"]
<1>1. /\ Sound(pool) /\ pool \in PoolRecords /\ C!Sound(waits)
      /\ pool.phase \in [PoolThreads -> Phases]
      /\ pool.phase[t] = "ended" /\ pool' = [pool EXCEPT !.phase = phase]
      /\ UNCHANGED <<job, client, doomed, starts, stolen, waits>>
      BY DEF Members, Sound, Wellformed, PoolRecords, Finish
<1>2. phase \in [PoolThreads -> Phases]
      BY <1>1 DEF Phases
<1>3. \A u \in PoolThreads : phase[u] = pool.phase[u] \/
        (pool.phase[u] \in {"ended", "finished"} /\ phase[u] \in {"finished", "deleted"})
      BY <1>1
<1> HIDE DEF phase
<1>4. /\ pool' \in PoolRecords /\ pool'.phase = phase /\ pool'.queue = pool.queue
      /\ pool'.runnable = pool.runnable /\ pool'.ref = pool.ref
      /\ pool'.deleted = pool.deleted /\ pool'.activeThreads = pool.activeThreads
      /\ pool'.expiredThreads = pool.expiredThreads
      BY <1>1, <1>2 DEF PoolRecords
<1>5. PICK q : q = pool'
      OBVIOUS
<1>6. Quiet(pool, pool')
      <2>1. \A u \in PoolThreads : q.phase[u] = pool.phase[u] \/
        (pool.phase[u] \in {"ended", "finished"} /\ q.phase[u] \in {"finished", "deleted"})
            BY <1>3, <1>4, <1>5
      <2>2. Quiet(pool, q)
            BY <1>1, <1>4, <1>5, <2>1, QuietRecords
      <2>3. QED BY <1>5, <2>2
<1>7. Members' /\ TodoSame /\ NumbersSame /\ BooksSame
      BY <1>1, <1>6, QuietMembers DEF Members
<1>8. QED BY <1>1, <1>7 DEF Talks, StayAwake, Told

\* The same pool is as good.
LEMMA QuietSame ==
  ASSUME Members, pool' = pool
  PROVE  Quiet(pool, pool')
<1>1. Sound(pool)
      BY DEF Members
<1>2. QED BY <1>1 DEF Quiet

\* When all is done, nothing is to be run and nobody runs anything.
LEMMA AllDoneTells ==
  ASSUME Members, AllDone
  PROVE  \A s \in Tasks : Todo(pool, s) = 0 /\ Number(pool.phase, job, s) = 0
<1>1. /\ Sound(pool) /\ pool.queue = <<>> /\ Cardinality(Employed(pool)) = 0
      BY DEF Members, AllDone, Sound
<1>2. Employed(pool) = {}
      BY <1>1, EmployedFinite, FS_EmptySet
<1> TAKE s \in Tasks
<1>3. Number(pool.phase, job, s) = 0
      BY <1>2, NumberNat
<1>4. WithThreads(pool.runnable, s) = 0
      <2>1. {t \in PoolThreads : pool.runnable[t] = s} = {}
            BY <1>2, PoolAssumption DEF Employed
      <2>2. QED BY <2>1, FS_EmptySet DEF WithThreads
<1>5. InQueue(pool.queue, s) = 0
      <2>1. {i \in DOMAIN pool.queue : pool.queue[i].task = s} = {}
            BY <1>1
      <2>2. QED BY <2>1, FS_EmptySet DEF InQueue
<1>6. QED BY <1>3, <1>4, <1>5 DEF Todo

\* A client looks whether all is done; w are the wait conditions without its own wait.
LEMMA LookIfDoneEffect ==
  ASSUME Members, NEW c \in Clients, NEW w, C!Sound(w), w.place[c] = "out",
         C!Promised(waits) => C!Promised(w),
         \A t \in Threads \ {c} : w.place[t] = waits.place[t],
         client[c] \in {"out", "waiting"}, waits.place[c] # "signalled",
         LookIfDone(c, w), UNCHANGED <<pool, job, doomed, starts, stolen>>
  PROVE  Members' /\ StayAwake /\ Talks
<1>1. Quiet(pool, pool')
      BY QuietSame
<1>2. /\ client \in [Clients -> {"out", "waiting", "done", "joining"}]
      /\ doomed \in [Clients -> SUBSET PoolThreads] /\ c \in Threads
      /\ PoolThreads \subseteq Threads \ {c} /\ Clients \subseteq Threads
      BY ThreadsFinite DEF Members, Threads
<1>3. CASE /\ AllDone
           /\ client' = [client EXCEPT ![c] = "done"]
           /\ waits' = w
      <2>1. /\ \A t \in PoolThreads : waits.place[t] # "out" <=> waits'.place[t] # "out"
            /\ \A d \in Clients : client'[d] = "waiting" <=> waits'.place[d] # "out"
            BY <1>2, <1>3 DEF Members
      <2>2. Members' /\ TodoSame /\ NumbersSame /\ BooksSame
            BY <1>1, <1>2, <1>3, <2>1, QuietMembers DEF Members
      <2>3. Tells(c)
            <3>1. Told' = Told \cup {c}
                  BY <1>2, <1>3 DEF Told
            <3>2. QED BY <1>3, <3>1, AllDoneTells DEF Tells
      <2>4. StayAwake
            BY <1>2, <1>3 DEF StayAwake
      <2>5. QED BY <2>2, <2>3, <2>4 DEF Talks
<1>4. CASE /\ client' = [client EXCEPT ![c] = "waiting"]
           /\ \E timed \in {FALSE, TimedClients} :
                waits' = W!AfterBegin(w, c, "noActiveThreads", timed)
      <2>1. PICK timed \in BOOLEAN : waits' = W!AfterBegin(w, c, "noActiveThreads", timed)
            BY <1>4, PoolAssumption
      <2>2. /\ C!Sound(waits') /\ (C!Promised(w) => C!Promised(waits'))
            /\ waits'.place = [w.place EXCEPT ![c] = "asleep"]
            <3> DEFINE y == W!AfterBegin(w, c, "noActiveThreads", timed)
            <3>1. "noActiveThreads" \in Kinds /\ w.place[c] \notin C!Unlocked
                  BY DEF Kinds, Idle, C!Unlocked
            <3>2. /\ C!Sound(y) /\ (C!Promised(w) => C!Promised(y))
                  /\ y.place = [w.place EXCEPT ![c] = "asleep"]
                  BY <1>2, <3>1, BeginsToWait
            <3> HIDE DEF y
            <3>3. waits' = y
                  BY <2>1 DEF y
            <3>4. QED BY <3>2, <3>3
      <2>3. w.place \in [Threads -> C!Places]
            BY DEF C!Sound, C!Shape
      <2>4. /\ waits'.place[c] = "asleep"
            /\ \A t \in Threads \ {c} : waits'.place[t] = waits.place[t]
            BY <1>2, <2>2, <2>3
      <2>5. /\ \A t \in PoolThreads : waits.place[t] # "out" <=> waits'.place[t] # "out"
            /\ \A d \in Clients : client'[d] = "waiting" <=> waits'.place[d] # "out"
            BY <1>2, <1>4, <2>4 DEF Members
      <2>6. Members' /\ TodoSame /\ NumbersSame /\ BooksSame
            BY <1>1, <1>2, <1>4, <2>2, <2>5, QuietMembers DEF Members
      <2>7. StayAwake
            BY <2>4 DEF StayAwake
      <2>8. Told' = Told
            BY <1>2, <1>4 DEF Told
      <2>9. QED BY <2>6, <2>7, <2>8 DEF Talks
<1>5. QED BY <1>3, <1>4 DEF LookIfDone

\* waitForDone() begins, ...
LEMMA WaitForDoneEffect ==
  ASSUME Members, NEW c \in Clients, WaitForDone(c)
  PROVE  Members' /\ StayAwake /\ Talks
<1>1. /\ C!Sound(waits) /\ client[c] = "out" /\ waits.place[c] = "out"
      /\ LookIfDone(c, waits) /\ UNCHANGED <<pool, job, doomed, starts, stolen>>
      BY DEF Members, WaitForDone, Threads, C!Sound, C!Shape
<1>2. QED BY <1>1, LookIfDoneEffect

\* ... and wakes up.
LEMMA WakeIfDoneEffect ==
  ASSUME Members, NEW c \in Clients, WakeIfDone(c)
  PROVE  Members' /\ StayAwake /\ Talks
<1> DEFINE w == W!AfterReturn(waits, c)
<1>1. /\ C!Sound(waits) /\ c \in Threads /\ waits.place[c] \in {"succeeded", "failed"}
      /\ waits.place \in [Threads -> C!Places] /\ client[c] = "waiting"
      /\ UNCHANGED <<pool, job, doomed, starts, stolen>>
      BY SameWaits DEF Members, WakeIfDone, Threads, C!Sound, C!Shape, C!Done
<1>2. /\ C!Sound(w) /\ (C!Promised(waits) => C!Promised(w))
      /\ w.place = [waits.place EXCEPT ![c] = "out"]
      BY <1>1, ReturnsFromWait
<1>3. LookIfDone(c, w) \/ (client' = [client EXCEPT ![c] = "out"] /\ waits' = w)
      BY DEF WakeIfDone
<1> HIDE DEF w
<1>4. w.place[c] = "out" /\ \A t \in Threads \ {c} : w.place[t] = waits.place[t]
      BY <1>1, <1>2
<1>5. CASE LookIfDone(c, w)
      BY <1>1, <1>2, <1>4, <1>5, LookIfDoneEffect
<1>6. CASE client' = [client EXCEPT ![c] = "out"] /\ waits' = w
      <2>1. /\ client \in [Clients -> {"out", "waiting", "done", "joining"}]
            /\ doomed \in [Clients -> SUBSET PoolThreads]
            /\ PoolThreads \subseteq Threads \ {c} /\ Clients \subseteq Threads
            BY ThreadsFinite DEF Members, Threads
      <2>2. /\ \A t \in PoolThreads : waits.place[t] # "out" <=> waits'.place[t] # "out"
            /\ \A d \in Clients : client'[d] = "waiting" <=> waits'.place[d] # "out"
            BY <1>4, <1>6, <2>1 DEF Members
      <2>3. Members' /\ TodoSame /\ NumbersSame /\ BooksSame
            BY <1>1, <1>2, <1>6, <2>1, <2>2, QuietSame, QuietMembers DEF Members
      <2>4. StayAwake
            BY <1>4, <1>6 DEF StayAwake
      <2>5. Told' = Told
            BY <1>1, <1>6, <2>1 DEF Told
      <2>6. QED BY <2>3, <2>4, <2>5 DEF Talks
<1>7. QED BY <1>3, <1>5, <1>6

\* reset() goes on, or comes to its end.
LEMMA MoveThreadsOutEffect ==
  ASSUME Members, NEW c \in Clients, client[c] \in {"done", "joining"},
         NEW p \in PoolRecords, p.queue = pool.queue, p.runnable = pool.runnable,
         p.ref = pool.ref, p.deleted = pool.deleted, p.phase = pool.phase,
         p.activeThreads = pool.activeThreads, p.expiredThreads = pool.expiredThreads,
         NEW w, Wakes(waits, w), MoveThreadsOut(c, p, w), UNCHANGED <<job, starts, stolen>>
  PROVE  Members' /\ StayAwake /\ Talks
<1>1. /\ Sound(pool) /\ p.allThreads \subseteq PoolThreads
      /\ client \in [Clients -> {"out", "waiting", "done", "joining"}]
      /\ doomed \in [Clients -> SUBSET PoolThreads]
      /\ PoolThreads \subseteq Threads /\ Clients \subseteq Threads
      BY DEF Members, PoolRecords, Threads
<1>2. PICK x \in {"joining", "out"} :
        /\ client' = [client EXCEPT ![c] = x] /\ waits' = w
        /\ doomed' \in [Clients -> SUBSET PoolThreads]
        /\ pool' \in PoolRecords /\ pool'.queue = p.queue /\ pool'.runnable = p.runnable
        /\ pool'.ref = p.ref /\ pool'.deleted = p.deleted /\ pool'.phase = p.phase
        /\ pool'.activeThreads = p.activeThreads
        /\ pool'.expiredThreads = p.expiredThreads \/ pool'.expiredThreads = <<>>
      <2>1. CASE /\ doomed' = [doomed EXCEPT ![c] = p.allThreads]
                 /\ pool' = [p EXCEPT !.allThreads = {}]
                 /\ client' = [client EXCEPT ![c] = "joining"]
                 /\ waits' = w
            BY <1>1, <2>1 DEF PoolRecords
      <2>2. CASE /\ pool' = [p EXCEPT !.waitingThreads = 0, !.expiredThreads = <<>>,
                                      !.isExiting = FALSE]
                 /\ client' = [client EXCEPT ![c] = "out"]
                 /\ waits' = w
                 /\ UNCHANGED doomed
            <3>1. <<>> \in Seq(PoolThreads) /\ FALSE \in BOOLEAN /\ 0 \in Int
                  BY EmptySeq
            <3>2. /\ pool' \in PoolRecords /\ pool'.queue = p.queue
                  /\ pool'.runnable = p.runnable /\ pool'.ref = p.ref
                  /\ pool'.deleted = p.deleted /\ pool'.phase = p.phase
                  /\ pool'.activeThreads = p.activeThreads /\ pool'.expiredThreads = <<>>
                  BY <2>2, <3>1 DEF PoolRecords
            <3>3. QED BY <1>1, <2>2, <3>2
      <2>3. QED BY <2>1, <2>2 DEF MoveThreadsOut
<1>3. Quiet(pool, pool')
      <2>1. PICK q : q = pool'
            OBVIOUS
      <2>2. \A t \in PoolThreads : q.phase[t] = pool.phase[t]
            BY <1>2, <2>1
      <2>3. Quiet(pool, q)
            BY <1>1, <1>2, <2>1, <2>2, QuietRecords
      <2>4. QED BY <2>1, <2>3
<1>4. \A t \in Threads : waits.place[t] # "out" <=> waits'.place[t] # "out"
      BY <1>2 DEF Wakes, C!Roused
<1>5. \A d \in Clients : client'[d] = "waiting" <=> waits'.place[d] # "out"
      BY <1>1, <1>2, <1>4 DEF Members
<1>6. C!Sound(waits') /\ (~SpuriousWakeups => C!Promised(waits'))
      BY <1>2 DEF Members, Wakes
<1>7. Members' /\ TodoSame /\ NumbersSame /\ BooksSame
      <2>1. client' \in [Clients -> {"out", "waiting", "done", "joining"}]
            BY <1>1, <1>2
      <2>2. QED BY <1>1, <1>2, <1>3, <1>4, <1>5, <1>6, <2>1, QuietMembers
<1>8. StayAwake
      BY <1>2 DEF Wakes, C!Roused, StayAwake
<1>9. Told' = Told \/ Told' = Told \ {c}
      BY <1>1, <1>2 DEF Told
<1>10. QED BY <1>7, <1>8, <1>9 DEF Talks

\* The steps of reset()
LEMMA ResetEffect ==
  ASSUME Members, NEW c \in Clients,
         BeginReset(c) \/ RepeatReset(c) \/ \E t \in PoolThreads : DeleteThread(c, t)
  PROVE  Members' /\ StayAwake /\ Talks
<1>1. /\ Sound(pool) /\ pool \in PoolRecords /\ C!Sound(waits)
      /\ pool.phase \in [PoolThreads -> Phases] /\ doomed \in [Clients -> SUBSET PoolThreads]
      BY DEF Members, Sound, Wellformed, PoolRecords
<1>2. ASSUME BeginReset(c) PROVE Members' /\ StayAwake /\ Talks
      <2> DEFINE p == [pool EXCEPT !.isExiting = TRUE]
                 w == W!AfterWakeAll(waits, "runnableReady")
      <2>1. /\ p \in PoolRecords /\ p.queue = pool.queue /\ p.runnable = pool.runnable
            /\ p.ref = pool.ref /\ p.deleted = pool.deleted /\ p.phase = pool.phase
            /\ p.activeThreads = pool.activeThreads
            /\ p.expiredThreads = pool.expiredThreads
            BY <1>1 DEF PoolRecords
      <2>2. Wakes(waits, w)
            <3>1. "runnableReady" \in Kinds
                  BY DEF Kinds, Ready
            <3>2. QED BY <1>1, <3>1, WakeAllWakes
      <2>3. /\ MoveThreadsOut(c, p, w) /\ UNCHANGED <<job, starts, stolen>>
            /\ client[c] \in {"done", "joining"}
            BY <1>2 DEF BeginReset
      <2> HIDE DEF p, w
      <2>4. QED BY <2>1, <2>2, <2>3, MoveThreadsOutEffect
<1>3. ASSUME RepeatReset(c) PROVE Members' /\ StayAwake /\ Talks
      <2>1. Wakes(waits, waits)
            BY <1>1, WakesComposes
      <2>2. QED BY <1>1, <1>3, <2>1, MoveThreadsOutEffect DEF RepeatReset
<1>4. ASSUME NEW t \in PoolThreads, DeleteThread(c, t) PROVE Members' /\ StayAwake /\ Talks
      <2> DEFINE phase == [pool.phase EXCEPT ![t] = "deleted"]
      <2>1. /\ pool.phase[t] = "finished" /\ pool' = [pool EXCEPT !.phase = phase]
            /\ doomed' = [doomed EXCEPT ![c] = @ \ {t}]
            /\ UNCHANGED <<job, client, starts, stolen, waits>>
            BY <1>1, <1>4 DEF DeleteThread
      <2>2. phase \in [PoolThreads -> Phases] /\ doomed' \in [Clients -> SUBSET PoolThreads]
            BY <1>1, <2>1 DEF Phases
      <2>3. \A u \in PoolThreads : phase[u] = pool.phase[u] \/
              (pool.phase[u] \in {"ended", "finished"} /\ phase[u] \in {"finished", "deleted"})
            BY <1>1, <2>1
      <2> HIDE DEF phase
      <2>4. /\ pool' \in PoolRecords /\ pool'.phase = phase /\ pool'.queue = pool.queue
            /\ pool'.runnable = pool.runnable /\ pool'.ref = pool.ref
            /\ pool'.deleted = pool.deleted /\ pool'.activeThreads = pool.activeThreads
            /\ pool'.expiredThreads = pool.expiredThreads
            BY <1>1, <2>1, <2>2 DEF PoolRecords
      <2>5. PICK q : q = pool'
            OBVIOUS
      <2>6. \A u \in PoolThreads : q.phase[u] = pool.phase[u] \/
              (pool.phase[u] \in {"ended", "finished"} /\ q.phase[u] \in {"finished", "deleted"})
            BY <2>3, <2>4, <2>5
      <2>7. Quiet(pool, q)
            BY <1>1, <2>4, <2>5, <2>6, QuietRecords
      <2>8. Members' /\ TodoSame /\ NumbersSame /\ BooksSame
            BY <1>1, <2>1, <2>2, <2>5, <2>7, QuietMembers DEF Members
      <2>9. QED BY <2>1, <2>8 DEF Talks, StayAwake, Told
<1>5. QED BY <1>2, <1>3, <1>4

\* A thread inside wait() does nothing else.
LEMMA WaitingEffect ==
  ASSUME Members, NEW t \in Threads, Waiting(t)
  PROVE  /\ Members' /\ Talks
         /\ ~SpuriousWakeups => StayAwake
<1>1. /\ C!Timeout(t) \/ C!SpuriousWakeup(t) \/ C!Proceed(t)
      /\ UNCHANGED <<pool, job, client, doomed, starts, stolen>>
      BY SameSteps DEF Waiting
<1>2. /\ C!Sound(waits')
      /\ \A s \in Threads : waits'.place[s] = "out" <=> waits.place[s] = "out"
      BY <1>1, SameSets, C!WaitingSound DEF Members
<1>3. ASSUME ~SpuriousWakeups PROVE C!Promised(waits') /\ StayAwake
      BY <1>1, <1>3, SameSets, C!WaitingPromised DEF Members, StayAwake
<1>4. PoolThreads \subseteq Threads /\ Clients \subseteq Threads
      BY DEF Threads
<1>5. Quiet(pool, pool')
      BY <1>1, QuietSame
<1>6. Members' /\ TodoSame /\ NumbersSame /\ BooksSame
      <2>1. /\ client' \in [Clients -> {"out", "waiting", "done", "joining"}]
            /\ doomed' \in [Clients -> SUBSET PoolThreads]
            BY <1>1 DEF Members
      <2>2. /\ \A u \in PoolThreads : waits.place[u] # "out" <=> waits'.place[u] # "out"
            /\ \A d \in Clients : client'[d] = "waiting" <=> waits'.place[d] # "out"
            BY <1>1, <1>2, <1>4 DEF Members
      <2>3. QED BY <1>1, <1>2, <1>3, <1>5, <2>1, <2>2, QuietMembers
<1>7. QED BY <1>1, <1>3, <1>6 DEF Talks, Told

-----------------------------------------------------------------------------
(* Every step *)

\* The pool begins with nothing to do.
LEMMA InitMembers ==
  ASSUME Init
  PROVE  Members
<1>1. pool \in PoolRecords
      <2>1. /\ FirstMaxCount \in MaxCounts /\ 0 \in -MaxReserved..MaxReserved
            /\ 0 \in Int /\ -1 \in Int
            BY PoolAssumption
      <2>2. pool.ref \in [Tasks -> Int]
            BY <2>1 DEF Init
      <2>3. /\ pool.expiredThreads \in Seq(PoolThreads) /\ pool.queue \in Seq(Entries)
            /\ pool.phase \in [PoolThreads -> Phases]
            /\ pool.runnable \in [PoolThreads -> Tasks \cup {NoTask}]
            BY EmptySeq DEF Init, Phases
      <2>4. QED BY <2>1, <2>2, <2>3 DEF Init, PoolRecords
<1>2. ThreadsSound(pool)
      BY DEF Init, ThreadsSound
<1>3. Employed(pool) = {}
      BY DEF Init, Employed
<1>4. Sound(pool)
      BY <1>1, <1>2, <1>3, FS_EmptySet DEF Sound, Wellformed, Init
<1>5. C!Sound(waits) /\ C!Promised(waits) /\ \A t \in Threads : waits.place[t] = "out"
      <2>1. (CHOOSE b \in Kinds : TRUE) \in Kinds
            BY DEF Kinds
      <2>2. waits = [waiters |-> [b \in Kinds |-> 0], wakeups |-> [b \in Kinds |-> 0],
                     place |-> [t \in Threads |-> "out"],
                     on |-> [t \in Threads |-> CHOOSE b \in Kinds : TRUE],
                     timed |-> [t \in Threads |-> FALSE]]
            BY DEF Init, W!Start, Kinds, Ready, Idle
      <2>3. C!Shape(waits)
            BY <2>1, <2>2 DEF C!Shape, C!Places
      <2>4. \A b \in Kinds : C!Inside(waits, b) = {} /\ C!Signalled(waits, b) = {}
            BY <2>2 DEF C!Inside, C!Signalled, C!Unlocked
      <2>5. C!Cardinality({}) = 0 /\ C!Cardinality(Threads) \in Nat
            BY SameSets, C!FS_EmptySet, C!FS_CardinalityType
      <2>6. /\ \A b \in Kinds : waits.waiters[b] = 0 /\ waits.wakeups[b] = 0
            /\ \A t \in Threads : waits.place[t] = "out"
            BY <2>2
      <2>7. \A b \in Kinds : /\ C!Cardinality(C!Inside(waits, b)) = 0
                             /\ C!Cardinality(C!Signalled(waits, b)) = 0
            BY <2>4, <2>5
      <2>8. C!Counted(waits)
            BY <2>5, <2>6, <2>7 DEF C!Counted
      <2>9. C!Promised(waits)
            BY <2>6, <2>7 DEF C!Promised
      <2>10. QED BY <2>3, <2>6, <2>8, <2>9 DEF C!Sound
<1>6. PoolThreads \subseteq Threads /\ Clients \subseteq Threads
      BY DEF Threads
<1>7. QED BY <1>4, <1>5, <1>6 DEF Init, Members

\* Whatever happens is one of the things that may happen to tasks.
LEMMA StepEffect ==
  ASSUME Members, Next
  PROVE  /\ Members' /\ Effect
         /\ ~SpuriousWakeups => StayAwake
<1>1. ASSUME CallPool PROVE Members' /\ StayAwake /\ Effect
      <2>1. ASSUME NEW r \in Tasks,
                   (\E priority \in Priorities : Start(r, priority)) \/ TryStart(r)
            PROVE  Members' /\ StayAwake /\ Effect
            BY <2>1, StartEffect DEF Effect
      <2>2. ASSUME NEW r \in Tasks, StealRunnable(r) PROVE Members' /\ StayAwake /\ Effect
            BY <2>2, StealRunnableEffect DEF Effect
      <2>3. ASSUME (\E max \in MaxCounts : SetMaxThreadCount(max)) \/ ReleaseThread
            PROVE  Members' /\ StayAwake /\ Effect
            BY <2>3, ResizeEffect DEF Effect
      <2>4. ASSUME ReserveThread PROVE Members' /\ StayAwake /\ Effect
            BY <2>4, ReserveThreadEffect DEF Effect
      <2>5. QED BY <1>1, <2>1, <2>2, <2>3, <2>4 DEF CallPool
<1>2. ASSUME NEW t \in PoolThreads, Work(t) PROVE Members' /\ StayAwake /\ Effect
      <2>1. CASE BeginRun(t)
            BY <2>1, BeginRunEffect DEF Effect
      <2>2. CASE EndTask(t)
            BY <2>2, EndTaskEffect DEF Effect
      <2>3. CASE WakeForWork(t)
            BY <2>3, WakeForWorkEffect DEF Effect
      <2>4. CASE Expire(t)
            BY <2>4, ExpireEffect DEF Effect
      <2>5. QED BY <1>2, <2>1, <2>2, <2>3, <2>4 DEF Work
<1>3. ASSUME NEW c \in Clients, WaitingForDone(c) PROVE Members' /\ StayAwake /\ Effect
      BY <1>3, WaitForDoneEffect, WakeIfDoneEffect, ResetEffect DEF WaitingForDone, Effect
<1>4. ASSUME NEW t \in PoolThreads, Finish(t) PROVE Members' /\ StayAwake /\ Effect
      BY <1>4, FinishEffect DEF Effect
<1>5. ASSUME NEW t \in Threads, Waiting(t)
      PROVE  Members' /\ Effect /\ (~SpuriousWakeups => StayAwake)
      BY <1>5, WaitingEffect DEF Effect
<1>6. QED BY <1>1, <1>2, <1>3, <1>4, <1>5 DEF Next, Locked

\* A step in which nothing happens
LEMMA StutterMembers ==
  ASSUME Members, UNCHANGED vars
  PROVE  Members' /\ StayAwake /\ Talks
<1>1. UNCHANGED <<pool, job, client, doomed, starts, stolen, waits>>
      BY DEF vars
<1>2. Members'
      BY <1>1 DEF Members
<1>3. TodoSame /\ NumbersSame /\ BooksSame /\ Told' = Told
      BY <1>1 DEF TodoSame, NumbersSame, BooksSame, Uncalled, Told
<1>4. QED BY <1>1, <1>2, <1>3 DEF Talks, StayAwake

\* The invariant of the pool, from which the following theorems come.
THEOREM InvariantHolds == Spec => []Members
<1>1. Members /\ [Next]_vars => Members'
      BY StepEffect, StutterMembers
<1>2. QED BY <1>1, InitMembers, PTL DEF Spec

-----------------------------------------------------------------------------
(* What the runs check *)

\* The counters of the wait conditions stay within the number of threads.
LEMMA WaitsTyped == ASSUME C!Sound(waits) PROVE W!TypeOK
<1>1. \A S : C!Cardinality(S) = W!Cardinality(S)
      BY DEF C!Cardinality, W!Cardinality
<1>2. \A b \in Kinds :
        /\ waits.waiters[b] = C!Cardinality(C!Inside(waits, b))
        /\ C!Cardinality(C!Inside(waits, b)) \in 0..C!Cardinality(Threads)
        /\ waits.wakeups[b] \in 0..C!Cardinality(Threads)
      BY SameSets, C!InsideFinite DEF C!Sound, C!Counted
<1>3. C!Shape(waits)
      BY DEF C!Sound
<1> DEFINE N == W!Cardinality(Threads)
<1>4. \A b \in Kinds : waits.waiters[b] \in 0..N /\ waits.wakeups[b] \in 0..N
      BY <1>1, <1>2
<1> HIDE DEF N
<1>5. waits.waiters \in [Kinds -> 0..N] /\ waits.wakeups \in [Kinds -> 0..N]
      BY <1>3, <1>4 DEF C!Shape
<1>6. waits \in [waiters : [Kinds -> 0..N], wakeups : [Kinds -> 0..N],
                 place : [Threads -> W!Places], on : [Threads -> Kinds],
                 timed : [Threads -> BOOLEAN]]
      BY <1>3, <1>5, SameWaits DEF C!Shape
<1>7. QED BY <1>6 DEF W!TypeOK, N, Kinds, Ready, Idle

\* The members of the pool have their types; activeThreads never goes below 0, nor above
\* the number of threads (registerTheadInactive() and the counting in run()).
THEOREM TypeCorrect == Spec => []TypeOK
<1>1. Members => TypeOK
      <2> SUFFICES ASSUME Members PROVE TypeOK
          OBVIOUS
      <2>1. pool \in PoolRecords /\ pool.activeThreads = Cardinality(Employed(pool))
            BY DEF Members, Sound, Wellformed
      <2>2. pool.activeThreads \in 0..Cardinality(PoolThreads)
            BY <2>1, EmployedFinite
      <2>3. W!TypeOK
            BY WaitsTyped DEF Members
      <2>4. QED BY <2>1, <2>2, <2>3 DEF PoolRecords, Entries, Members, TypeOK
<1>2. QED BY <1>1, InvariantHolds, PTL

\* activeThreads, by which waitForDone() goes, is the number of threads that have a task
\* or were given one (startThread(), tryStart(), run() and registerTheadInactive()).
THEOREM ActiveCounted == Spec => []ActiveExact
<1>1. Members => ActiveExact
      BY DEF Members, Sound, Employed, ActiveExact, Busy
<1>2. QED BY <1>1, InvariantHolds, PTL

\* Without spurious wake-ups, whoever is woken leaves wait(): no thread takes the wake-up
\* of another one (wakeOne() for each task that is queued, wakeAll() in reset()).
THEOREM WokenLeave == ASSUME ~SpuriousWakeups PROVE Spec => SignalledLeave
<1>1. Members /\ [Next]_vars =>
        [\A t \in Threads : waits.place[t] = "signalled" => waits'.place[t] # "asleep"]_waits
      BY StepEffect, StutterMembers DEF StayAwake
<1>2. QED BY <1>1, InvariantHolds, PTL DEF Spec, SignalledLeave, W!SignalledLeave

-----------------------------------------------------------------------------
(* What the pool promises *)

Pending == [r \in Tasks |-> Todo(pool, r)]
Running == [r \in Tasks |-> Number(pool.phase, job, r)]

\* A count that goes up by one for r, and one that goes down
LEMMA CountUp ==
  ASSUME NEW f \in [Tasks -> Nat], NEW g \in [Tasks -> Nat], NEW r \in Tasks,
         \A s \in Tasks : g[s] = f[s] + One(s = r)
  PROVE  /\ g = [f EXCEPT ![r] = @ + 1]
         /\ f = [g EXCEPT ![r] = @ - 1] /\ g[r] > 0
<1>1. \A s \in Tasks : g[s] = IF s = r THEN f[s] + 1 ELSE f[s]
      BY DEF One
<1>2. \A s \in Tasks : f[s] \in Nat /\ g[s] \in Nat
      OBVIOUS
<1>3. \A s \in Tasks : f[s] = IF s = r THEN g[s] - 1 ELSE g[s]
      BY <1>1, <1>2
<1>4. QED BY <1>1, <1>2, <1>3

\* What the executor sees of the pool, before and after a step
LEMMA Seen ==
  /\ [r \in Tasks |-> Cardinality(Queued(r)) + Cardinality(Given(r))] = Pending
  /\ [r \in Tasks |-> Cardinality(Queued(r)) + Cardinality(Given(r))]' = Pending'
  /\ [r \in Tasks |-> Cardinality(Runs(r))] = Running
  /\ [r \in Tasks |-> Cardinality(Runs(r))]' = Running'
  /\ {c \in Clients : client[c] \in {"done", "joining"}} = Told
  /\ {c \in Clients : client[c] \in {"done", "joining"}}' = Told'
BY DEF Queued, Given, Runs, Pending, Running, Todo, InQueue, WithThreads, Number, Told

\* The counts are numbers.
LEMMA CountsTyped ==
  ASSUME Members
  PROVE  Pending \in [Tasks -> Nat] /\ Running \in [Tasks -> Nat]
<1>1. pool \in PoolRecords
      BY DEF Members, Sound, Wellformed
<1>2. QED BY <1>1, TodoNat, NumberNat DEF Pending, Running

\* A step of the executor, said of the counts
ExecutorNext ==
  \/ \E r \in Tasks :
       \/ /\ starts' = [starts EXCEPT ![r] = @ + 1] /\ stolen' = stolen
          /\ Pending' = [Pending EXCEPT ![r] = @ + 1] /\ Running' = Running /\ Told' = Told
       \/ /\ starts' = starts /\ stolen' = [stolen EXCEPT ![r] = @ + 1]
          /\ Pending[r] > 0 /\ Pending' = [Pending EXCEPT ![r] = @ - 1]
          /\ Running' = Running /\ Told' = Told
       \/ /\ Uncalled /\ Pending[r] > 0 /\ Pending' = [Pending EXCEPT ![r] = @ - 1]
          /\ Running' = [Running EXCEPT ![r] = @ + 1] /\ Told' = Told
       \/ /\ Uncalled /\ Running[r] > 0 /\ Running' = [Running EXCEPT ![r] = @ - 1]
          /\ Pending' = Pending /\ Told' = Told
  \/ \E r, n \in Tasks :
       /\ Uncalled /\ Running[r] > 0 /\ Pending[n] > 0
       /\ Pending' = [Pending EXCEPT ![n] = @ - 1]
       /\ Running' = [[Running EXCEPT ![r] = @ - 1] EXCEPT ![n] = @ + 1]
       /\ Told' = Told
  \/ /\ Uncalled /\ Pending' = Pending /\ Running' = Running
     /\ \E c \in Clients :
          \/ /\ Pending = Executor!None /\ Running = Executor!None
             /\ Told' = Told \cup {c}
          \/ Told' = Told \ {c}
  \/ Uncalled /\ Pending' = Pending /\ Running' = Running /\ Told' = Told

\* Whatever happens to tasks, an executor may do.
LEMMA EffectAllowed ==
  ASSUME Members, Members', Effect
  PROVE  ExecutorNext
<1>1. PICK f, g, h, k : f = Pending /\ g = Pending' /\ h = Running /\ k = Running'
      OBVIOUS
<1>2. /\ f \in [Tasks -> Nat] /\ h \in [Tasks -> Nat]
      BY <1>1, CountsTyped
<1>3. g \in [Tasks -> Nat] /\ k \in [Tasks -> Nat]
      <2>1. pool' \in PoolRecords
            BY DEF Members, Sound, Wellformed
      <2>2. PICK p, j : p = pool' /\ j = job'
            OBVIOUS
      <2>3. \A s \in Tasks : Todo(p, s) \in Nat /\ Number(p.phase, j, s) \in Nat
            BY <2>1, <2>2, TodoNat, NumberNat
      <2>4. QED BY <1>1, <2>2, <2>3 DEF Pending, Running
<1>4. /\ \A s \in Tasks : f[s] = Todo(pool, s) /\ g[s] = Todo(pool', s)
      /\ \A s \in Tasks : /\ h[s] = Number(pool.phase, job, s)
                          /\ k[s] = Number(pool'.phase, job', s)
      BY <1>1 DEF Pending, Running
<1>5. /\ TodoSame => g = f
      /\ NumbersSame => k = h
      BY <1>2, <1>3, <1>4 DEF TodoSame, NumbersSame
<1>6. ASSUME NEW r \in Tasks, Taken(r) PROVE f[r] > 0 /\ g = [f EXCEPT ![r] = @ - 1]
      <2>1. \A s \in Tasks : f[s] = g[s] + One(s = r)
            BY <1>4, <1>6 DEF Taken
      <2>2. QED BY <1>2, <1>3, <2>1, CountUp
<1>7. ASSUME NEW r \in Tasks, Gives(r) PROVE ExecutorNext
      <2>1. \A s \in Tasks : g[s] = f[s] + One(s = r)
            BY <1>4, <1>7 DEF Gives
      <2>2. g = [f EXCEPT ![r] = @ + 1]
            BY <1>2, <1>3, <2>1, CountUp
      <2>3. k = h /\ Told' = Told
            BY <1>5, <1>7 DEF Gives
      <2>4. starts' = [starts EXCEPT ![r] = @ + 1] /\ stolen' = stolen
            BY <1>7 DEF Gives
      <2>5. QED BY <1>1, <2>2, <2>3, <2>4 DEF ExecutorNext
<1>8. ASSUME NEW r \in Tasks, Begins(r) PROVE ExecutorNext
      <2>1. \A s \in Tasks : k[s] = h[s] + One(s = r)
            BY <1>4, <1>8 DEF Begins
      <2>2. k = [h EXCEPT ![r] = @ + 1]
            BY <1>2, <1>3, <2>1, CountUp
      <2>3. f[r] > 0 /\ g = [f EXCEPT ![r] = @ - 1] /\ Told' = Told /\ Uncalled
            BY <1>6, <1>8 DEF Begins, BooksSame
      <2>4. QED BY <1>1, <2>2, <2>3 DEF ExecutorNext
<1>9. ASSUME NEW r \in Tasks, TakesBack(r) PROVE ExecutorNext
      <2>1. f[r] > 0 /\ g = [f EXCEPT ![r] = @ - 1] /\ Told' = Told /\ k = h
            BY <1>5, <1>6, <1>9 DEF TakesBack, Released
      <2>2. starts' = starts /\ stolen' = [stolen EXCEPT ![r] = @ + 1]
            BY <1>9 DEF TakesBack, Released
      <2>3. QED BY <1>1, <2>1, <2>2 DEF ExecutorNext
<1>10. ASSUME NEW r \in Tasks, Ends(r) PROVE ExecutorNext
      <2>1. \A s \in Tasks : h[s] = k[s] + One(s = r)
            BY <1>4, <1>10 DEF Ends
      <2>2. h[r] > 0 /\ k = [h EXCEPT ![r] = @ - 1]
            BY <1>2, <1>3, <2>1, CountUp
      <2>3. g = f /\ Told' = Told /\ Uncalled
            BY <1>5, <1>10 DEF Ends, Released, Uncalled
      <2>4. QED BY <1>1, <2>2, <2>3 DEF ExecutorNext
<1>11. ASSUME NEW r \in Tasks, NEW n \in Tasks, EndsAndBegins(r, n) PROVE ExecutorNext
      <2>1. /\ \A s \in Tasks : k[s] + One(s = r) = h[s] + One(s = n)
            /\ h[r] # 0
            BY <1>4, <1>11 DEF EndsAndBegins
      <2>2. \A s \in Tasks : h[s] \in Nat /\ k[s] \in Nat
            BY <1>2, <1>3
      <2>3. \A s \in Tasks :
              k[s] = IF s = n THEN (IF s = r THEN h[s] ELSE h[s] + 1)
                              ELSE (IF s = r THEN h[s] - 1 ELSE h[s])
            BY <2>1, <2>2 DEF One
      <2>4. k = [[h EXCEPT ![r] = @ - 1] EXCEPT ![n] = @ + 1] /\ h[r] > 0
            <3> DEFINE m == [h EXCEPT ![r] = @ - 1]
                       z == [m EXCEPT ![n] = @ + 1]
            <3>1. \A s \in Tasks : m[s] = IF s = r THEN h[s] - 1 ELSE h[s]
                  BY <1>2
            <3>2. m \in [Tasks -> Int]
                  BY <1>2, <2>2, <3>1
            <3> HIDE DEF m
            <3>3. \A s \in Tasks : z[s] = IF s = n THEN m[s] + 1 ELSE m[s]
                  BY <3>2
            <3>4. z \in [Tasks -> Int]
                  BY <3>2, <3>3
            <3> HIDE DEF z
            <3>5. \A s \in Tasks : k[s] = z[s]
                  BY <2>2, <2>3, <3>1, <3>3
            <3>6. k = z
                  BY <1>3, <3>4, <3>5
            <3>7. h[r] > 0
                  BY <2>1, <2>2
            <3>8. QED BY <3>6, <3>7 DEF m, z
      <2>5. f[n] > 0 /\ g = [f EXCEPT ![n] = @ - 1] /\ Told' = Told /\ Uncalled
            BY <1>6, <1>11 DEF EndsAndBegins, Released, Uncalled
      <2>6. QED BY <1>1, <2>4, <2>5 DEF ExecutorNext
<1>12. ASSUME Talks PROVE ExecutorNext
      <2>1. g = f /\ k = h /\ Uncalled
            BY <1>5, <1>12 DEF Talks, BooksSame
      <2>2. ASSUME NEW c \in Clients, Tells(c)
            PROVE  Pending = Executor!None /\ Running = Executor!None /\ Told' = Told \cup {c}
            BY <2>2 DEF Tells, Pending, Running, Executor!None
      <2>3. QED BY <1>1, <1>12, <2>1, <2>2 DEF Talks, ExecutorNext
<1>13. ASSUME Moves PROVE ExecutorNext
      BY <1>1, <1>5, <1>13 DEF Moves, ExecutorNext
<1>14. QED BY <1>7, <1>8, <1>9, <1>10, <1>11, <1>12, <1>13 DEF Effect

\* Each start of a task (start(), tryStart()) is kept until a thread begins to run it or
\* stealRunnable() takes it back: none disappears or is run twice, although tasks move
\* from the queue to threads and threads are restarted; and waitForDone() returns true only
\* when nothing is left.
THEOREM Implementation == Spec => ImplementsExecutor
<1>1. Init => Executor!Init
      <2> SUFFICES ASSUME Init PROVE Executor!Init
          OBVIOUS
      <2>1. AllDone /\ client = [c \in Clients |-> "out"]
            BY DEF Init, AllDone
      <2>2. \A s \in Tasks : Todo(pool, s) = 0 /\ Number(pool.phase, job, s) = 0
            BY <2>1, InitMembers, AllDoneTells
      <2>3. /\ Pending = [r \in Tasks |-> 0] /\ Running = [r \in Tasks |-> 0]
            /\ Told = {}
            BY <2>1, <2>2 DEF Pending, Running, Told
      <2>4. starts = [r \in Tasks |-> 0] /\ stolen = [r \in Tasks |-> 0]
            BY DEF Init
      <2>5. QED BY <2>3, <2>4, Seen DEF Executor!Init, Executor!None
<1>2. Members /\ [Next]_vars => [Executor!Next]_Executor!vars
      <2> SUFFICES ASSUME Members, [Next]_vars PROVE [Executor!Next]_Executor!vars
          OBVIOUS
      <2>1. ExecutorNext
            BY StepEffect, StutterMembers, EffectAllowed DEF Effect
      <2>2. QED BY <2>1, Seen
            DEF ExecutorNext, Executor!Next, Executor!vars, Executor!Start, Executor!Withdraw,
                Executor!Begin, Executor!End, Executor!EndAndBegin, Executor!Tell,
                Executor!GoOn, Uncalled
<1>3. QED BY <1>1, <1>2, InvariantHolds, PTL DEF Spec, ImplementsExecutor, Executor!Spec

-----------------------------------------------------------------------------
(* The reference counts of the tasks *)

\* How often r is still to be run or is run
Due(r) == Todo(pool, r) + Number(pool.phase, job, r)

\* A task is counted at least as often, and deleted only when nobody needs it.
References ==
  \A r \in AutoDelete : Due(r) <= pool.ref[r] /\ (r \in pool.deleted => Due(r) = 0)

\* With one limit and no reserved threads, the count is exact, and who starts a task
\* will have it deleted.
FixedLimit == MaxCounts = {FirstMaxCount} /\ MaxReserved = 0

ReferencesExact ==
  \A r \in AutoDelete :
    pool.ref[r] = Due(r) /\ (starts[r] > 0 /\ Due(r) = 0 => r \in pool.deleted)

\* The counts, before and after a step
LEMMA DueNat ==
  ASSUME Members, Members'
  PROVE  \A r \in AutoDelete :
           /\ r \in Tasks /\ Due(r) \in Nat /\ Due(r)' \in Nat
           /\ pool.ref[r] \in Int /\ pool'.ref[r] \in Int
           /\ starts[r] \in Nat /\ starts'[r] \in Nat
<1>1. pool \in PoolRecords /\ pool' \in PoolRecords
      BY DEF Members, Sound, Wellformed
<1>2. PICK p, j : p = pool' /\ j = job'
      OBVIOUS
<1>3. \A r : /\ Todo(pool, r) \in Nat /\ Number(pool.phase, job, r) \in Nat
             /\ Todo(p, r) \in Nat /\ Number(p.phase, j, r) \in Nat
      BY <1>1, <1>2, TodoNat, NumberNat
<1>4. \A r : Due(r) \in Nat /\ Due(r)' \in Nat
      BY <1>2, <1>3 DEF Due
<1>5. QED BY <1>1, <1>4, PoolAssumption DEF Members, PoolRecords

\* What a step does to the count and the need of a task
Counts(r) ==
  \* started
  \/ /\ Due(r)' = Due(r) + 1 /\ pool'.ref[r] = pool.ref[r] + 1
     /\ r \notin pool.deleted /\ r \notin pool'.deleted
  \* done with, once
  \/ /\ Due(r)' = Due(r) - 1 /\ pool'.ref[r] = pool.ref[r] - 1 /\ starts'[r] = starts[r]
     /\ r \in pool'.deleted <=> r \in pool.deleted \/ pool.ref[r] = 1
  \* neither
  \/ /\ Due(r)' = Due(r) /\ pool.ref[r] <= pool'.ref[r] /\ starts'[r] = starts[r]
     /\ r \in pool'.deleted <=> r \in pool.deleted
     /\ FixedLimit => pool'.ref[r] = pool.ref[r]

\* Every step counts.
LEMMA EffectCounts ==
  ASSUME Members, Members', Effect, NEW r \in AutoDelete
  PROVE  Counts(r)
<1>1. /\ pool.ref \in [Tasks -> Int] /\ starts \in [Tasks -> Nat] /\ r \in Tasks
      /\ AutoDelete \subseteq Tasks
      BY PoolAssumption DEF Members, Sound, Wellformed, PoolRecords
<1>2. PICK a, b, c, d : /\ a = Todo(pool, r) /\ b = Number(pool.phase, job, r)
                        /\ c = Todo(pool', r) /\ d = Number(pool'.phase, job', r)
      OBVIOUS
<1>3. a \in Nat /\ b \in Nat /\ c \in Nat /\ d \in Nat
      <2>1. pool \in PoolRecords /\ pool' \in PoolRecords
            BY DEF Members, Sound, Wellformed
      <2>2. PICK p, j : p = pool' /\ j = job'
            OBVIOUS
      <2>3. QED BY <1>2, <2>1, <2>2, TodoNat, NumberNat
<1>4. Due(r) = a + b /\ Due(r)' = c + d
      BY <1>2 DEF Due
<1>5. ASSUME NEW n \in Tasks, Released(n)
      PROVE  IF r = n THEN /\ pool'.ref[r] = pool.ref[r] - 1 /\ starts'[r] = starts[r]
                           /\ r \in pool'.deleted <=> r \in pool.deleted \/ pool.ref[r] = 1
                      ELSE /\ pool'.ref[r] = pool.ref[r] /\ starts'[r] = starts[r]
                           /\ r \in pool'.deleted <=> r \in pool.deleted
      BY <1>1, <1>5 DEF Released
<1>6. ASSUME NEW n \in Tasks, Released(n), c + d + One(r = n) = a + b PROVE Counts(r)
      BY <1>1, <1>3, <1>4, <1>5, <1>6 DEF Counts, One
<1>7. ASSUME NEW n \in Tasks, Gives(n) PROVE Counts(r)
      <2>1. c = a + One(r = n) /\ d = b
            BY <1>1, <1>2, <1>7 DEF Gives, NumbersSame
      <2>2. /\ pool'.ref = Referenced(pool.ref, n) /\ pool'.deleted = pool.deleted
            /\ n \notin pool.deleted /\ starts' = [starts EXCEPT ![n] = @ + 1]
            BY <1>7 DEF Gives
      <2>3. CASE r = n
            BY <1>1, <1>3, <1>4, <2>1, <2>2, <2>3 DEF Counts, One, Referenced
      <2>4. CASE r # n
            BY <1>1, <1>3, <1>4, <2>1, <2>2, <2>4 DEF Counts, One, Referenced
      <2>5. QED BY <2>3, <2>4
<1>8. ASSUME NEW n \in Tasks, Begins(n) PROVE Counts(r)
      <2>1. a = c + One(r = n) /\ d = b + One(r = n) /\ BooksSame
            BY <1>1, <1>2, <1>8 DEF Begins, Taken
      <2>2. Due(r)' = Due(r)
            BY <1>3, <1>4, <2>1 DEF One
      <2>3. QED BY <1>1, <2>1, <2>2 DEF Counts, BooksSame, Uncalled
<1>9. ASSUME NEW n \in Tasks, TakesBack(n) PROVE Counts(r)
      <2>1. a = c + One(r = n) /\ d = b /\ Released(n)
            BY <1>1, <1>2, <1>9 DEF TakesBack, Taken, NumbersSame
      <2>2. c + d + One(r = n) = a + b
            BY <1>3, <2>1 DEF One
      <2>3. QED BY <1>6, <2>1, <2>2
<1>10. ASSUME NEW n \in Tasks, Ends(n) PROVE Counts(r)
      <2>1. c = a /\ b = d + One(r = n) /\ Released(n)
            BY <1>1, <1>2, <1>10 DEF Ends, TodoSame
      <2>2. c + d + One(r = n) = a + b
            BY <1>3, <2>1 DEF One
      <2>3. QED BY <1>6, <2>1, <2>2
<1>11. ASSUME NEW n \in Tasks, NEW m \in Tasks, EndsAndBegins(n, m) PROVE Counts(r)
      <2>1. a = c + One(r = m) /\ d + One(r = n) = b + One(r = m) /\ Released(n)
            BY <1>1, <1>2, <1>11 DEF EndsAndBegins, Taken
      <2>2. c + d + One(r = n) = a + b
            BY <1>3, <2>1 DEF One
      <2>3. QED BY <1>6, <2>1, <2>2
<1>12. ASSUME Talks PROVE Counts(r)
      <2>1. c = a /\ d = b /\ BooksSame
            BY <1>1, <1>2, <1>12 DEF Talks, TodoSame, NumbersSame
      <2>2. QED BY <1>1, <1>4, <2>1 DEF Counts, BooksSame, Uncalled
<1>13. ASSUME Moves PROVE Counts(r)
      <2>1. c = a /\ d = b
            BY <1>1, <1>2, <1>13 DEF Moves, TodoSame, NumbersSame
      <2>2. QED BY <1>1, <1>4, <1>13, <2>1 DEF Counts, Moves, FixedLimit, Uncalled
<1>14. QED BY <1>7, <1>8, <1>9, <1>10, <1>11, <1>12, <1>13 DEF Effect

\* A stuttering step changes no count.
LEMMA StutterCounts ==
  ASSUME UNCHANGED vars, NEW r
  PROVE  Due(r)' = Due(r) /\ pool' = pool /\ starts' = starts
BY DEF vars, Due

\* In what Outstanding says, the same numbers are meant.
LEMMA OutstandingDue ==
  ASSUME Members, NEW r \in Tasks
  PROVE  Outstanding(r) = Due(r)
BY DEF Outstanding, Queued, Given, Runs, Due, Todo, InQueue, WithThreads, Number

\* A task that deletes itself is deleted by nobody while it is queued, given to a thread
\* or run (ref and deref of QRunnable in run(), stealRunnable() and the functions that
\* start tasks), whatever the limits and however they change.
THEOREM NoneDeletedEarly == Spec => []NotDeletedEarly
<1>1. Init => References
      <2> SUFFICES ASSUME Init PROVE References
          OBVIOUS
      <2>1. \A s \in Tasks : Todo(pool, s) = 0 /\ Number(pool.phase, job, s) = 0
            BY InitMembers, AllDoneTells DEF Init, AllDone
      <2>2. \A r \in AutoDelete : r \in Tasks /\ pool.ref[r] = 0 /\ pool.deleted = {}
            BY PoolAssumption DEF Init
      <2>3. QED BY <2>1, <2>2 DEF References, Due
<1>2. Members /\ References /\ [Next]_vars => References'
      <2>1. ASSUME Members, References, Next PROVE References'
            <3>1. Members' /\ Effect
                  BY <2>1, StepEffect
            <3>2. ASSUME NEW r \in AutoDelete
                  PROVE  Due(r)' <= pool'.ref[r] /\ (r \in pool'.deleted => Due(r)' = 0)
                  <4>1. Counts(r)
                        BY <2>1, <3>1, EffectCounts
                  <4>2. /\ Due(r) \in Nat /\ Due(r)' \in Nat
                        /\ pool.ref[r] \in Int /\ pool'.ref[r] \in Int
                        BY <2>1, <3>1, DueNat
                  <4>3. Due(r) <= pool.ref[r] /\ (r \in pool.deleted => Due(r) = 0)
                        BY <2>1 DEF References
                  <4>4. QED BY <4>1, <4>2, <4>3 DEF Counts
            <3>3. QED BY <3>2 DEF References
      <2>2. ASSUME References, UNCHANGED vars PROVE References'
            BY <2>2, StutterCounts DEF References
      <2>3. QED BY <2>1, <2>2
<1>3. Members /\ References => NotDeletedEarly
      <2> SUFFICES ASSUME Members, References, NEW r \in pool.deleted
                   PROVE  Outstanding(r) = 0
          BY DEF NotDeletedEarly
      <2>1. r \in AutoDelete /\ r \in Tasks
            BY PoolAssumption DEF Members, Sound, Wellformed, PoolRecords
      <2>2. QED BY <2>1, OutstandingDue DEF References
<1>4. QED BY <1>1, <1>2, <1>3, InvariantHolds, PTL DEF Spec

\* With a limit that stays as it is, such a task is deleted exactly when its last run is
\* over (run() deletes what it has deref'ed to 0).
THEOREM TasksDeletedInTime == ASSUME FixedLimit PROVE Spec => []DeletedWhenDone
<1>1. Init => ReferencesExact
      <2> SUFFICES ASSUME Init PROVE ReferencesExact
          OBVIOUS
      <2>1. \A s \in Tasks : Todo(pool, s) = 0 /\ Number(pool.phase, job, s) = 0
            BY InitMembers, AllDoneTells DEF Init, AllDone
      <2>2. \A r \in AutoDelete : r \in Tasks /\ pool.ref[r] = 0 /\ starts[r] = 0
            BY PoolAssumption DEF Init
      <2>3. QED BY <2>1, <2>2 DEF ReferencesExact, Due
<1>2. Members /\ ReferencesExact /\ [Next]_vars => ReferencesExact'
      <2>1. ASSUME Members, ReferencesExact, Next PROVE ReferencesExact'
            <3>1. Members' /\ Effect
                  BY <2>1, StepEffect
            <3>2. ASSUME NEW r \in AutoDelete
                  PROVE  /\ pool'.ref[r] = Due(r)'
                         /\ starts'[r] > 0 /\ Due(r)' = 0 => r \in pool'.deleted
                  <4>1. Counts(r)
                        BY <2>1, <3>1, EffectCounts
                  <4>2. /\ Due(r) \in Nat /\ Due(r)' \in Nat
                        /\ pool.ref[r] \in Int /\ pool'.ref[r] \in Int
                        BY <2>1, <3>1, DueNat
                  <4>3. /\ pool.ref[r] = Due(r)
                        /\ starts[r] > 0 /\ Due(r) = 0 => r \in pool.deleted
                        BY <2>1 DEF ReferencesExact
                  <4>4. QED BY <4>1, <4>2, <4>3 DEF Counts
            <3>3. QED BY <3>2 DEF ReferencesExact
      <2>2. ASSUME ReferencesExact, UNCHANGED vars PROVE ReferencesExact'
            BY <2>2, StutterCounts DEF ReferencesExact
      <2>3. QED BY <2>1, <2>2
<1>3. Members /\ ReferencesExact => TasksDeleted
      <2> SUFFICES ASSUME Members, ReferencesExact, NEW r \in AutoDelete,
                          starts[r] > 0, Outstanding(r) = 0
                   PROVE  r \in pool.deleted
          BY DEF TasksDeleted
      <2>1. r \in Tasks
            BY PoolAssumption
      <2>2. QED BY <2>1, OutstandingDue DEF ReferencesExact
<1>4. Spec => []TasksDeleted
      BY <1>1, <1>2, <1>3, InvariantHolds, PTL DEF Spec
<1>5. NotDeletedEarly /\ TasksDeleted => DeletedWhenDone
      BY DEF DeletedWhenDone
<1>6. QED BY <1>4, <1>5, NoneDeletedEarly, PTL
-----------------------------------------------------------------------------
(* The limit, and what reset() leaves behind *)

\* Every thread there is belongs to the pool or to a reset() that waits for it, ...
EachPlaced ==
  \A t \in PoolThreads :
    There(pool, t) => t \in pool.allThreads \/ \E c \in Clients : t \in doomed[c]

OnlyJoining == \A c \in Clients : doomed[c] # {} => client[c] = "joining"

\* ... nothing happens in the pool while it is reset, ...
CalmReset == Resetting => pool.queue = <<>> /\ Employed(pool) = {}

\* ... and its books are right when it is not.
Manned == EachPlaced /\ OnlyJoining /\ CalmReset /\ (~Resetting => Staffed(pool))

\* A client that leaves reset() has seen that the pool has no threads.
LeavesEmpty ==
  \A c \in Clients :
    client[c] \in {"done", "joining"} /\ client'[c] = "out" => pool'.allThreads = {}

\* A call that adds threads within the limit
LEMMA CallManned ==
  ASSUME Manned, ~Resetting, Staffed(pool) => Hires(pool, pool'),
         UNCHANGED <<client, doomed>>
  PROVE  Manned' /\ LeavesEmpty
<1>1. ~Resetting' /\ OnlyJoining' /\ LeavesEmpty
      BY DEF Manned, Resetting, OnlyJoining, LeavesEmpty
<1>2. /\ Staffed(pool') /\ pool.allThreads \subseteq pool'.allThreads
      /\ \A t \in PoolThreads : There(pool', t) => There(pool, t) \/ t \in pool'.allThreads
      BY DEF Manned, Hires
<1>3. EachPlaced'
      <2>1. ASSUME NEW t \in PoolThreads, There(pool', t)
            PROVE  t \in pool'.allThreads \/ \E c \in Clients : t \in doomed'[c]
            <3>1. CASE t \in pool'.allThreads
                  BY <3>1
            <3>2. CASE There(pool, t)
                  BY <1>2, <3>2 DEF Manned, EachPlaced
            <3>3. QED BY <1>2, <2>1, <3>1, <3>2
      <2>2. QED BY <2>1 DEF EachPlaced
<1>4. QED BY <1>1, <1>2, <1>3 DEF Manned, CalmReset

\* The threads of the pool stay those they were.
LEMMA SameStaff ==
  ASSUME Manned, UNCHANGED <<client, doomed>>, pool'.allThreads = pool.allThreads,
         \A t \in PoolThreads : There(pool', t) => There(pool, t),
         ~Resetting => Staffed(pool'),
         Resetting => pool'.queue = <<>> /\ Employed(pool') = {}
  PROVE  Manned' /\ LeavesEmpty
<1>1. Resetting' = Resetting /\ OnlyJoining' /\ LeavesEmpty
      BY DEF Manned, Resetting, OnlyJoining, LeavesEmpty
<1>2. EachPlaced'
      BY DEF Manned, EachPlaced
<1>3. QED BY <1>1, <1>2 DEF Manned, CalmReset

\* start(), tryStart()
LEMMA StartManned ==
  ASSUME QuietReset, Members, Manned, NEW r \in Tasks,
         (\E priority \in Priorities : Start(r, priority)) \/ TryStart(r)
  PROVE  Manned' /\ LeavesEmpty
<1>1. pool \in PoolRecords /\ ~Resetting /\ UNCHANGED <<client, doomed>>
      BY DEF Members, Sound, Wellformed, Start, TryStart, MayCall
<1>2. PICK o : /\ pool' = o[1]
               /\ \/ o \in TryStartTask(pool, waits, r)
                  \/ \E priority \in Priorities : o \in EnqueueTask(pool, waits, r, priority)
      <2>1. CASE TryStart(r)
            BY <2>1 DEF TryStart, Outcome
      <2>2. CASE \E priority \in Priorities : Start(r, priority)
            BY <2>2 DEF Start, Outcome
      <2>3. QED BY <2>1, <2>2
<1>3. Staffed(pool) => Hires(pool, o[1])
      BY <1>1, <1>2, TryStartTaskHires, EnqueueTaskHires
<1>4. QED BY <1>1, <1>2, <1>3, CallManned

\* setMaxThreadCount(), reserveThread(), releaseThread()
LEMMA ResizeManned ==
  ASSUME QuietReset, Members, Manned,
         (\E max \in MaxCounts : SetMaxThreadCount(max)) \/ ReserveThread \/ ReleaseThread
  PROVE  Manned' /\ LeavesEmpty
<1>1. /\ Sound(pool) /\ pool \in PoolRecords /\ C!Sound(waits)
      /\ pool.reservedThreads \in -MaxReserved..MaxReserved /\ MaxReserved \in Nat
      BY PoolAssumption DEF Members, Sound, Wellformed, PoolRecords
<1>2. ~Resetting /\ UNCHANGED <<client, doomed>>
      BY DEF SetMaxThreadCount, ReserveThread, ReleaseThread, MayCall
<1>3. ASSUME NEW p \in PoolRecords, p.phase = pool.phase, p.runnable = pool.runnable,
             p.queue = pool.queue, p.ref = pool.ref, p.deleted = pool.deleted,
             p.activeThreads = pool.activeThreads,
             p.expiredThreads = pool.expiredThreads, p.allThreads = pool.allThreads,
             Outcome(TryToStartMoreThreads(p, waits))
      PROVE  Staffed(pool) => Hires(pool, pool')
      <2>1. Sound(p)
            BY <1>1, <1>3, OtherMembers
      <2>2. PICK o \in TryToStartMoreThreads(p, waits) : pool' = o[1]
            BY <1>3 DEF Outcome
      <2>3. Kept(p, waits, o)
            BY <1>1, <2>1, <2>2, MoreThreadsKeep
      <2>4. ASSUME Staffed(pool) PROVE Hires(pool, o[1])
            <3>1. Hires(pool, p)
                  BY <1>3, <2>4, HiresComposes
            <3>2. Hires(p, o[1])
                  BY <2>3, <3>1 DEF Kept, Hires
            <3>3. QED BY <3>1, <3>2, HiresComposes
      <2>5. QED BY <2>2, <2>4
<1>4. ASSUME NEW max \in MaxCounts, SetMaxThreadCount(max)
      PROVE  Staffed(pool) => Hires(pool, pool')
      <2> DEFINE p == [pool EXCEPT !.maxThreadCount = max]
      <2>1. /\ p \in PoolRecords /\ p.phase = pool.phase /\ p.runnable = pool.runnable
            /\ p.queue = pool.queue /\ p.ref = pool.ref /\ p.deleted = pool.deleted
            /\ p.activeThreads = pool.activeThreads
            /\ p.expiredThreads = pool.expiredThreads /\ p.allThreads = pool.allThreads
            BY <1>1 DEF PoolRecords
      <2>2. Outcome(TryToStartMoreThreads(p, waits))
            BY <1>4 DEF SetMaxThreadCount
      <2> HIDE DEF p
      <2>3. QED BY <1>3, <2>1, <2>2
<1>5. ASSUME ReleaseThread PROVE Staffed(pool) => Hires(pool, pool')
      <2> DEFINE p == [pool EXCEPT !.reservedThreads = @ - 1]
      <2>1. pool.reservedThreads - 1 \in -MaxReserved..MaxReserved
            BY <1>1, <1>5 DEF ReleaseThread
      <2>2. /\ p \in PoolRecords /\ p.phase = pool.phase /\ p.runnable = pool.runnable
            /\ p.queue = pool.queue /\ p.ref = pool.ref /\ p.deleted = pool.deleted
            /\ p.activeThreads = pool.activeThreads
            /\ p.expiredThreads = pool.expiredThreads /\ p.allThreads = pool.allThreads
            BY <1>1, <2>1 DEF PoolRecords
      <2>3. Outcome(TryToStartMoreThreads(p, waits))
            BY <1>5 DEF ReleaseThread
      <2> HIDE DEF p
      <2>4. QED BY <1>3, <2>2, <2>3
<1>6. ASSUME ReserveThread PROVE Staffed(pool) => Hires(pool, pool')
      <2>1. /\ pool'.allThreads = pool.allThreads /\ pool'.phase = pool.phase
            /\ pool'.expiredThreads = pool.expiredThreads
            BY <1>1, <1>6 DEF ReserveThread, PoolRecords
      <2>2. PICK q : q = pool'
            OBVIOUS
      <2>3. Staffed(pool) => Hires(pool, q)
            BY <2>1, <2>2, HiresComposes
      <2>4. QED BY <2>2, <2>3
<1>7. Staffed(pool) => Hires(pool, pool')
      BY <1>4, <1>5, <1>6
<1>8. QED BY <1>2, <1>7, CallManned

\* stealRunnable()
LEMMA StealManned ==
  ASSUME QuietReset, Members, Manned, NEW r \in Tasks, StealRunnable(r)
  PROVE  Manned' /\ LeavesEmpty
<1>1. pool \in PoolRecords /\ ~Resetting /\ UNCHANGED <<client, doomed>>
      BY DEF Members, Sound, Wellformed, StealRunnable, MayCall
<1>2. /\ pool'.allThreads = pool.allThreads /\ pool'.phase = pool.phase
      /\ pool'.expiredThreads = pool.expiredThreads
      BY <1>1 DEF StealRunnable, PoolRecords
<1>3. PICK q : q = pool'
      OBVIOUS
<1>4. Staffed(pool) => Hires(pool, q)
      BY <1>2, <1>3, HiresComposes
<1>5. QED BY <1>1, <1>3, <1>4, CallManned

\* What a thread that looks for work does to the books
LEMMA LookForWorkStaff ==
  ASSUME NEW p \in PoolRecords, NEW t \in PoolThreads, NEW w, LookForWork(p, w, t)
  PROVE  /\ pool'.allThreads = p.allThreads /\ pool'.runnable = p.runnable
         /\ \A u \in PoolThreads \ {t} : pool'.phase[u] = p.phase[u]
         /\ \/ pool'.expiredThreads = p.expiredThreads
            \/ pool'.expiredThreads = Append(p.expiredThreads, t)
         /\ p.queue = <<>> => pool'.queue = <<>> /\ pool'.phase[t] \in {"ended", "waiting"}
<1>1. CASE p.queue # <<>> /\ pool' = [p EXCEPT !.queue = Tail(@), !.phase[t] = "running"]
      BY <1>1 DEF PoolRecords
<1> DEFINE left == [p EXCEPT !.phase[t] = "ended",
                      !.expiredThreads = IF p.isExiting THEN @ ELSE Append(@, t)]
           idle == [p EXCEPT !.waitingThreads = @ + 1, !.phase[t] = "waiting"]
<1>2. CASE Outcome({Inactive(left, w)})
      <2>1. /\ left.allThreads = p.allThreads /\ left.runnable = p.runnable
            /\ left.phase = [p.phase EXCEPT ![t] = "ended"] /\ left.queue = p.queue
            /\ \/ left.expiredThreads = p.expiredThreads
               \/ left.expiredThreads = Append(p.expiredThreads, t)
            BY DEF PoolRecords
      <2>2. DOMAIN left = DOMAIN p
            OBVIOUS
      <2> HIDE DEF left
      <2>3. pool' = [left EXCEPT !.activeThreads = @ - 1]
            BY <1>2 DEF Outcome, Inactive
      <2>4. p.phase \in [PoolThreads -> Phases]
            BY DEF PoolRecords
      <2>5. /\ pool'.allThreads = left.allThreads /\ pool'.runnable = left.runnable
            /\ pool'.phase = left.phase /\ pool'.expiredThreads = left.expiredThreads
            /\ pool'.queue = left.queue
            BY <2>2, <2>3 DEF PoolRecords
      <2>6. QED BY <2>1, <2>4, <2>5
<1>3. CASE pool' = Inactive(idle, w)[1]
      BY <1>3 DEF Inactive, PoolRecords
<1>4. QED
      <2>1. \/ p.queue # <<>> /\ pool' = [p EXCEPT !.queue = Tail(@), !.phase[t] = "running"]
            \/ Outcome({Inactive(left, w)})
            \/ pool' = Inactive(idle, w)[1]
            BY DEF LookForWork
      <2>2. QED BY <1>1, <1>2, <1>3, <2>1

\* A thread goes on, leaves or waits; one that leaves is a thread of the pool, unless the
\* pool is being reset.
LEMMA ThreadManned ==
  ASSUME Members, Manned, NEW t \in PoolThreads, There(pool, t),
         UNCHANGED <<client, doomed>>, pool'.allThreads = pool.allThreads,
         pool'.runnable = pool.runnable,
         \A u \in PoolThreads \ {t} : pool'.phase[u] = pool.phase[u],
         \/ pool'.expiredThreads = pool.expiredThreads
         \/ pool'.expiredThreads = Append(pool.expiredThreads, t),
         pool.queue = <<>> => pool'.queue = <<>> /\ pool'.phase[t] \in {"ended", "waiting"}
  PROVE  Manned' /\ LeavesEmpty
<1>1. /\ pool \in PoolRecords /\ pool.expiredThreads \in Seq(PoolThreads)
      /\ Cardinality(pool.allThreads) \in Nat /\ Len(pool.expiredThreads) \in Nat
      BY StaffNumber DEF Members, Sound, Wellformed
<1>2. \A u \in PoolThreads : There(pool', u) => There(pool, u)
      BY DEF There
<1>3. ASSUME Resetting PROVE pool'.queue = <<>> /\ Employed(pool') = {}
      <2>1. pool.queue = <<>> /\ Employed(pool) = {}
            BY <1>3 DEF Manned, CalmReset
      <2>2. pool'.phase[t] \in {"ended", "waiting"}
            BY <2>1
      <2>3. QED BY <2>1, <2>2 DEF Employed
<1>4. ASSUME ~Resetting PROVE Staffed(pool')
      <2>1. Staffed(pool)
            BY <1>4 DEF Manned
      <2>2. CASE pool'.expiredThreads = pool.expiredThreads
            BY <2>1, <2>2 DEF Staffed
      <2>3. CASE pool'.expiredThreads = Append(pool.expiredThreads, t)
            <3>1. t \in pool.allThreads
                  BY <1>4 DEF Manned, EachPlaced, OnlyJoining, Resetting
            <3> DEFINE e == Append(pool.expiredThreads, t)
            <3>2. /\ Len(e) = Len(pool.expiredThreads) + 1
                  /\ DOMAIN e = 1..(Len(pool.expiredThreads) + 1)
                  /\ DOMAIN pool.expiredThreads = 1..Len(pool.expiredThreads)
                  /\ \A i \in 1..Len(pool.expiredThreads) : e[i] = pool.expiredThreads[i]
                  /\ e[Len(pool.expiredThreads) + 1] = t
                  BY <1>1, AppendProperties, LenProperties
            <3> HIDE DEF e
            <3>3. \A i \in DOMAIN e : e[i] \in pool.allThreads
                  <4> TAKE i \in DOMAIN e
                  <4>1. CASE i = Len(pool.expiredThreads) + 1
                        BY <3>1, <3>2, <4>1
                  <4>2. CASE i # Len(pool.expiredThreads) + 1
                        <5>1. i \in 1..Len(pool.expiredThreads)
                              BY <1>1, <3>2, <4>2
                        <5>2. QED BY <2>1, <3>2, <5>1 DEF Staffed
                  <4>3. QED BY <4>1, <4>2
            <3>4. Cardinality(pool.allThreads) - Len(e) <= Limit
                  <4>1. Cardinality(pool.allThreads) - Len(pool.expiredThreads) <= Limit
                        BY <2>1 DEF Staffed
                  <4>2. Limit \in Int
                        BY LimitBound
                  <4>3. QED BY <1>1, <3>2, <4>1, <4>2
            <3>5. pool'.expiredThreads = e
                  BY <2>3 DEF e
            <3>6. QED BY <3>3, <3>4, <3>5 DEF Staffed
      <2>4. QED BY <2>2, <2>3
<1>5. QED BY <1>2, <1>3, <1>4, SameStaff

\* The steps of a thread
LEMMA WorkManned ==
  ASSUME Members, Manned, NEW t \in PoolThreads, Work(t)
  PROVE  Manned' /\ LeavesEmpty
<1>1. /\ pool \in PoolRecords /\ ThreadsSound(pool)
      /\ pool.phase \in [PoolThreads -> Phases]
      /\ pool.runnable \in [PoolThreads -> Tasks \cup {NoTask}]
      BY DEF Members, Sound, Wellformed, PoolRecords
<1>2. ASSUME BeginRun(t) PROVE Manned' /\ LeavesEmpty
      <2>1. /\ pool'.allThreads = pool.allThreads /\ pool.phase[t] = "started"
            /\ pool'.expiredThreads = pool.expiredThreads
            /\ \A u \in PoolThreads \ {t} : pool'.phase[u] = pool.phase[u]
            /\ UNCHANGED <<client, doomed>>
            BY <1>1, <1>2 DEF BeginRun, PoolRecords
      <2>2. \A u \in PoolThreads : There(pool', u) => There(pool, u)
            BY <2>1 DEF There
      <2>3. ~Resetting
            BY <2>1 DEF Manned, CalmReset, Employed
      <2>4. Staffed(pool')
            BY <2>1, <2>3 DEF Manned, Staffed
      <2>5. QED BY <2>1, <2>2, <2>3, <2>4, SameStaff
<1>3. ASSUME NEW p \in PoolRecords, NEW w, p.allThreads = pool.allThreads,
             p.phase = pool.phase, p.runnable = pool.runnable, p.queue = pool.queue,
             p.expiredThreads = pool.expiredThreads, There(pool, t), LookForWork(p, w, t),
             UNCHANGED <<client, doomed>>
      PROVE  Manned' /\ LeavesEmpty
      <2>1. /\ pool'.allThreads = pool.allThreads /\ pool'.runnable = pool.runnable
            /\ \A u \in PoolThreads \ {t} : pool'.phase[u] = pool.phase[u]
            /\ \/ pool'.expiredThreads = pool.expiredThreads
               \/ pool'.expiredThreads = Append(pool.expiredThreads, t)
            /\ pool.queue = <<>> =>
                 pool'.queue = <<>> /\ pool'.phase[t] \in {"ended", "waiting"}
            BY <1>3, LookForWorkStaff
      <2>2. QED BY <1>3, <2>1, ThreadManned
<1>4. ASSUME EndTask(t) PROVE Manned' /\ LeavesEmpty
      <2> DEFINE r == job[t]
                 ref == [pool.ref EXCEPT ![r] = IF r \in AutoDelete THEN @ - 1 ELSE @]
                 deleted == IF r \in AutoDelete /\ pool.ref[r] = 1 THEN pool.deleted \cup {r}
                                                                 ELSE pool.deleted
                 p == [pool EXCEPT !.ref = ref, !.deleted = deleted]
      <2>1. LookForWork([pool EXCEPT
              !.ref[r] = IF r \in AutoDelete THEN @ - 1 ELSE @,
              !.deleted = IF r \in AutoDelete /\ pool.ref[r] = 1 THEN @ \cup {r} ELSE @],
              waits, t)
            BY <1>4 DEF EndTask
      <2>2. p = [pool EXCEPT
              !.ref[r] = IF r \in AutoDelete THEN @ - 1 ELSE @,
              !.deleted = IF r \in AutoDelete /\ pool.ref[r] = 1 THEN @ \cup {r} ELSE @]
            BY <1>1 DEF PoolRecords
      <2>3. ref \in [Tasks -> Int] /\ deleted \in SUBSET AutoDelete
            <3>1. pool.ref \in [Tasks -> Int] /\ pool.deleted \subseteq AutoDelete
                  BY <1>1 DEF PoolRecords
            <3>2. r \in Tasks
                  BY <1>4 DEF EndTask, Members
            <3>3. QED BY <3>1, <3>2
      <2>4. LookForWork(p, waits, t)
            <3> HIDE DEF p, r, ref, deleted
            <3> QED BY <2>1, <2>2
      <2> HIDE DEF ref, deleted
      <2>5. /\ p \in PoolRecords /\ p.allThreads = pool.allThreads /\ p.phase = pool.phase
            /\ p.runnable = pool.runnable /\ p.queue = pool.queue
            /\ p.expiredThreads = pool.expiredThreads
            BY <1>1, <2>3 DEF PoolRecords
      <2>6. There(pool, t) /\ UNCHANGED <<client, doomed>>
            BY <1>4 DEF EndTask, There
      <2> HIDE DEF p
      <2>7. QED BY <1>3, <2>4, <2>5, <2>6
<1>5. ASSUME WakeForWork(t) PROVE Manned' /\ LeavesEmpty
      <2> DEFINE p == [pool EXCEPT !.activeThreads = @ + 1]
      <2>1. LookForWork(p, W!AfterReturn(waits, t), t) /\ UNCHANGED <<client, doomed>>
            BY <1>5 DEF WakeForWork
      <2>2. /\ p \in PoolRecords /\ p.allThreads = pool.allThreads /\ p.phase = pool.phase
            /\ p.runnable = pool.runnable /\ p.queue = pool.queue
            /\ p.expiredThreads = pool.expiredThreads
            <3>1. pool.activeThreads + 1 \in Int
                  BY <1>1 DEF PoolRecords
            <3>2. QED BY <1>1, <3>1 DEF PoolRecords
      <2>3. There(pool, t)
            BY <1>5 DEF WakeForWork, There, Members
      <2> HIDE DEF p
      <2>4. QED BY <1>3, <2>1, <2>2, <2>3
<1>6. ASSUME Expire(t) PROVE Manned' /\ LeavesEmpty
      <2> DEFINE left == [pool EXCEPT !.activeThreads = @ + 1, !.waitingThreads = @ - 1,
                            !.expiredThreads = Append(@, t), !.phase[t] = "ended"]
      <2>1. /\ left.allThreads = pool.allThreads /\ left.runnable = pool.runnable
            /\ left.phase = [pool.phase EXCEPT ![t] = "ended"] /\ left.queue = pool.queue
            /\ left.expiredThreads = Append(pool.expiredThreads, t)
            /\ DOMAIN left = DOMAIN pool
            BY <1>1 DEF PoolRecords
      <2>2. /\ Outcome({Inactive(left, W!AfterReturn(waits, t))})
            /\ UNCHANGED <<client, doomed>>
            BY <1>6 DEF Expire
      <2> HIDE DEF left
      <2>3. pool' = [left EXCEPT !.activeThreads = @ - 1]
            BY <2>2 DEF Outcome, Inactive
      <2>4. /\ pool'.allThreads = pool.allThreads /\ pool'.runnable = pool.runnable
            /\ \A u \in PoolThreads \ {t} : pool'.phase[u] = pool.phase[u]
            /\ pool'.expiredThreads = Append(pool.expiredThreads, t)
            /\ pool'.queue = pool.queue /\ pool'.phase[t] = "ended"
            <3>1. /\ pool'.allThreads = left.allThreads /\ pool'.runnable = left.runnable
                  /\ pool'.phase = left.phase /\ pool'.expiredThreads = left.expiredThreads
                  /\ pool'.queue = left.queue
                  BY <1>1, <2>1, <2>3 DEF PoolRecords
            <3>2. QED BY <1>1, <2>1, <3>1
      <2>5. There(pool, t)
            BY <1>6 DEF Expire, There, Members
      <2>6. QED BY <2>2, <2>4, <2>5, ThreadManned
<1>7. QED BY <1>2, <1>4, <1>5, <1>6 DEF Work

\* finish()
LEMMA FinishManned ==
  ASSUME Members, Manned, NEW t \in PoolThreads, Finish(t)
  PROVE  Manned' /\ LeavesEmpty
<1>1. pool \in PoolRecords /\ pool.phase \in [PoolThreads -> Phases]
      BY DEF Members, Sound, Wellformed, PoolRecords
<1>2. /\ pool'.allThreads = pool.allThreads /\ pool'.expiredThreads = pool.expiredThreads
      /\ pool'.queue = pool.queue /\ pool'.runnable = pool.runnable
      /\ \A u \in PoolThreads \ {t} : pool'.phase[u] = pool.phase[u]
      /\ pool.phase[t] = "ended" /\ pool'.phase[t] = "finished"
      /\ UNCHANGED <<client, doomed>>
      BY <1>1 DEF Finish, PoolRecords
<1>3. \A u \in PoolThreads : There(pool', u) => There(pool, u)
      BY <1>2 DEF There
<1>4. Employed(pool') \subseteq Employed(pool)
      BY <1>2 DEF Employed
<1>5. QED BY <1>2, <1>3, <1>4, SameStaff DEF Manned, CalmReset, Staffed

\* A client waits, gives up, or is told that all is done.
LEMMA ClientManned ==
  ASSUME Members, Manned, UNCHANGED <<pool, doomed>>, NEW c \in Clients,
         client[c] \in {"out", "waiting"}, NEW x \in {"out", "waiting", "done"},
         client' = [client EXCEPT ![c] = x], x = "done" => AllDone
  PROVE  Manned' /\ LeavesEmpty
<1>1. /\ client \in [Clients -> {"out", "waiting", "done", "joining"}]
      /\ pool.activeThreads = Cardinality(Employed(pool))
      BY DEF Members, Sound
<1>2. client'[c] = x /\ \A d \in Clients \ {c} : client'[d] = client[d]
      BY <1>1
<1>3. ASSUME AllDone PROVE pool.queue = <<>> /\ Employed(pool) = {}
      <2>1. Cardinality(Employed(pool)) = 0 /\ IsFiniteSet(Employed(pool))
            BY <1>1, <1>3, EmployedFinite DEF AllDone
      <2>2. QED BY <1>3, <2>1, FS_EmptySet DEF AllDone
<1>4. Resetting => Resetting'
      <2>1. ASSUME Resetting PROVE Resetting'
            <3>1. PICK d \in Clients : client[d] \in {"done", "joining"}
                  BY <2>1 DEF Resetting
            <3>2. d # c
                  BY <3>1
            <3>3. client'[d] \in {"done", "joining"}
                  BY <1>2, <3>1, <3>2
            <3>4. QED BY <3>3 DEF Resetting
      <2>2. QED BY <2>1
<1>5. Resetting' => Resetting \/ AllDone
      <2>1. ASSUME Resetting', ~AllDone PROVE Resetting
            <3>1. PICK d \in Clients : client'[d] \in {"done", "joining"}
                  BY <2>1 DEF Resetting
            <3>2. d # c
                  BY <1>2, <2>1, <3>1
            <3>3. client[d] \in {"done", "joining"}
                  BY <1>2, <3>1, <3>2
            <3>4. QED BY <3>3 DEF Resetting
      <2>2. QED BY <2>1
<1>6. OnlyJoining'
      <2>1. ASSUME NEW d \in Clients, doomed'[d] # {} PROVE client'[d] = "joining"
            <3>1. client[d] = "joining"
                  BY <2>1 DEF Manned, OnlyJoining
            <3>2. d # c
                  BY <3>1
            <3>3. QED BY <1>2, <3>1, <3>2
      <2>2. QED BY <2>1 DEF OnlyJoining
<1>7. LeavesEmpty
      <2>1. ASSUME NEW d \in Clients, client[d] \in {"done", "joining"}, client'[d] = "out"
            PROVE  FALSE
            <3>1. d # c
                  BY <2>1
            <3>2. QED BY <1>2, <2>1, <3>1
      <2>2. QED BY <2>1 DEF LeavesEmpty
<1>8. EachPlaced' /\ CalmReset'
      BY <1>3, <1>5 DEF Manned, EachPlaced, CalmReset, There, Employed
<1>9. QED BY <1>4, <1>6, <1>7, <1>8 DEF Manned, Staffed

\* waitForDone()
LEMMA WaitForDoneManned ==
  ASSUME Members, Manned, NEW c \in Clients, WaitForDone(c) \/ WakeIfDone(c)
  PROVE  Manned' /\ LeavesEmpty
<1>1. client[c] \in {"out", "waiting"} /\ UNCHANGED <<pool, doomed>>
      <2>1. CASE WaitForDone(c)
            BY <2>1 DEF WaitForDone
      <2>2. CASE WakeIfDone(c)
            <3>1. waits.place[c] # "out"
                  BY <2>2 DEF WakeIfDone, W!Done
            <3>2. client[c] = "waiting"
                  BY <3>1 DEF Members
            <3>3. QED BY <2>2, <3>2 DEF WakeIfDone
      <2>3. QED BY <2>1, <2>2
<1>2. PICK x \in {"out", "waiting", "done"} :
        client' = [client EXCEPT ![c] = x] /\ (x = "done" => AllDone)
      <2>1. CASE WaitForDone(c)
            BY <2>1 DEF WaitForDone, LookIfDone
      <2>2. CASE WakeIfDone(c)
            BY <2>2 DEF WakeIfDone, LookIfDone
      <2>3. QED BY <2>1, <2>2
<1>3. QED BY <1>1, <1>2, ClientManned

\* The loop of reset()
LEMMA MoveThreadsOutManned ==
  ASSUME Members, Manned, NEW c \in Clients, client[c] \in {"done", "joining"},
         doomed[c] = {}, NEW p \in PoolRecords, p.queue = pool.queue,
         p.runnable = pool.runnable, p.phase = pool.phase,
         p.allThreads = pool.allThreads, p.expiredThreads = pool.expiredThreads,
         NEW w, MoveThreadsOut(c, p, w)
  PROVE  Manned' /\ LeavesEmpty
<1>1. /\ client \in [Clients -> {"out", "waiting", "done", "joining"}]
      /\ doomed \in [Clients -> SUBSET PoolThreads]
      BY DEF Members
<1>2. Resetting /\ pool.queue = <<>> /\ Employed(pool) = {}
      BY DEF Manned, CalmReset, Resetting
<1>3. CASE /\ doomed' = [doomed EXCEPT ![c] = p.allThreads]
           /\ pool' = [p EXCEPT !.allThreads = {}]
           /\ client' = [client EXCEPT ![c] = "joining"]
      <2>1. /\ pool'.allThreads = {} /\ pool'.queue = pool.queue
            /\ pool'.runnable = pool.runnable /\ pool'.phase = pool.phase
            BY <1>3 DEF PoolRecords
      <2>2. /\ client'[c] = "joining" /\ doomed'[c] = pool.allThreads
            /\ \A d \in Clients \ {c} : client'[d] = client[d] /\ doomed'[d] = doomed[d]
            BY <1>1, <1>3
      <2>3. Resetting' /\ LeavesEmpty
            BY <2>1, <2>2 DEF Resetting, LeavesEmpty
      <2>4. CalmReset'
            BY <1>2, <2>1 DEF CalmReset, Employed
      <2>5. OnlyJoining'
            BY <2>2 DEF Manned, OnlyJoining
      <2>6. EachPlaced'
            <3>1. ASSUME NEW t \in PoolThreads, There(pool', t)
                  PROVE  \E d \in Clients : t \in doomed'[d]
                  <4>1. t \in pool.allThreads \/ \E d \in Clients : t \in doomed[d]
                        BY <2>1, <3>1 DEF Manned, EachPlaced, There
                  <4>2. CASE t \in pool.allThreads
                        BY <2>2, <4>2
                  <4>3. CASE \E d \in Clients : t \in doomed[d]
                        <5>1. PICK d \in Clients : t \in doomed[d]
                              BY <4>3
                        <5>2. d # c
                              BY <5>1
                        <5>3. QED BY <2>2, <5>1, <5>2
                  <4>4. QED BY <4>1, <4>2, <4>3
            <3>2. QED BY <3>1 DEF EachPlaced
      <2>7. QED BY <2>3, <2>4, <2>5, <2>6 DEF Manned
<1>4. CASE /\ p.allThreads = {} /\ UNCHANGED doomed
           /\ pool' = [p EXCEPT !.waitingThreads = 0, !.expiredThreads = <<>>,
                                !.isExiting = FALSE]
           /\ client' = [client EXCEPT ![c] = "out"]
      <2>1. /\ pool'.allThreads = {} /\ pool.allThreads = {} /\ pool'.queue = pool.queue
            /\ pool'.runnable = pool.runnable /\ pool'.phase = pool.phase
            /\ pool'.expiredThreads = <<>>
            BY <1>4 DEF PoolRecords
      <2>2. CalmReset' /\ LeavesEmpty
            BY <1>2, <2>1 DEF CalmReset, Employed, LeavesEmpty
      <2>3. EachPlaced'
            BY <1>4, <2>1 DEF Manned, EachPlaced, There
      <2>4. OnlyJoining'
            <3>1. ASSUME NEW d \in Clients, doomed'[d] # {} PROVE client'[d] = "joining"
                  <4>1. d # c /\ client[d] = "joining"
                        BY <1>4, <3>1 DEF Manned, OnlyJoining
                  <4>2. QED BY <1>1, <1>4, <4>1
            <3>2. QED BY <3>1 DEF OnlyJoining
      <2>5. Staffed(pool')
            <3>1. /\ Cardinality(pool'.allThreads) = 0 /\ Len(pool'.expiredThreads) = 0
                  /\ DOMAIN pool'.expiredThreads = {}
                  BY <2>1, FS_EmptySet
            <3>2. Limit \in Int /\ Limit >= 1
                  BY LimitBound
            <3>3. QED BY <3>1, <3>2 DEF Staffed
      <2>6. QED BY <2>2, <2>3, <2>4, <2>5 DEF Manned
<1>5. QED BY <1>3, <1>4 DEF MoveThreadsOut

\* The steps of reset()
LEMMA ResetManned ==
  ASSUME Members, Manned, NEW c \in Clients,
         BeginReset(c) \/ RepeatReset(c) \/ \E t \in PoolThreads : DeleteThread(c, t)
  PROVE  Manned' /\ LeavesEmpty
<1>1. /\ pool \in PoolRecords /\ pool.phase \in [PoolThreads -> Phases]
      /\ client \in [Clients -> {"out", "waiting", "done", "joining"}]
      /\ doomed \in [Clients -> SUBSET PoolThreads]
      BY DEF Members, Sound, Wellformed, PoolRecords
<1>2. ASSUME BeginReset(c) PROVE Manned' /\ LeavesEmpty
      <2> DEFINE p == [pool EXCEPT !.isExiting = TRUE]
                 w == W!AfterWakeAll(waits, "runnableReady")
      <2>1. /\ p \in PoolRecords /\ p.queue = pool.queue /\ p.runnable = pool.runnable
            /\ p.phase = pool.phase /\ p.allThreads = pool.allThreads
            /\ p.expiredThreads = pool.expiredThreads
            BY <1>1 DEF PoolRecords
      <2>2. MoveThreadsOut(c, p, w) /\ client[c] = "done"
            BY <1>2 DEF BeginReset
      <2>3. doomed[c] = {}
            BY <2>2 DEF Manned, OnlyJoining
      <2> HIDE DEF p, w
      <2>4. QED BY <2>1, <2>2, <2>3, MoveThreadsOutManned
<1>3. ASSUME RepeatReset(c) PROVE Manned' /\ LeavesEmpty
      <2>1. MoveThreadsOut(c, pool, waits) /\ client[c] = "joining" /\ doomed[c] = {}
            BY <1>3 DEF RepeatReset
      <2>2. QED BY <1>1, <2>1, MoveThreadsOutManned
<1>4. ASSUME NEW t \in PoolThreads, DeleteThread(c, t) PROVE Manned' /\ LeavesEmpty
      <2>1. /\ pool'.allThreads = pool.allThreads /\ pool'.queue = pool.queue
            /\ pool'.expiredThreads = pool.expiredThreads /\ pool'.runnable = pool.runnable
            /\ pool'.phase = [pool.phase EXCEPT ![t] = "deleted"]
            /\ pool.phase[t] = "finished" /\ client' = client /\ client[c] = "joining"
            /\ doomed'[c] = doomed[c] \ {t}
            /\ \A d \in Clients \ {c} : doomed'[d] = doomed[d]
            BY <1>1, <1>4 DEF DeleteThread, PoolRecords
      <2>2. Resetting' = Resetting /\ LeavesEmpty
            BY <2>1 DEF Resetting, LeavesEmpty
      <2>3. CalmReset'
            <3>1. Employed(pool') \subseteq Employed(pool)
                  BY <1>1, <2>1 DEF Employed
            <3>2. QED BY <2>1, <2>2, <3>1 DEF Manned, CalmReset
      <2>4. OnlyJoining'
            <3>1. ASSUME NEW d \in Clients, doomed'[d] # {} PROVE client[d] = "joining"
                  BY <2>1, <3>1 DEF Manned, OnlyJoining
            <3>2. QED BY <2>1, <3>1 DEF OnlyJoining
      <2>5. EachPlaced'
            <3>1. ASSUME NEW u \in PoolThreads, There(pool', u)
                  PROVE  u \in pool'.allThreads \/ \E d \in Clients : u \in doomed'[d]
                  <4>1. u # t /\ There(pool, u)
                        BY <1>1, <2>1, <3>1 DEF There
                  <4>2. u \in pool.allThreads \/ \E d \in Clients : u \in doomed[d]
                        BY <4>1 DEF Manned, EachPlaced
                  <4>3. \A d \in Clients : u \in doomed[d] => u \in doomed'[d]
                        BY <2>1, <4>1
                  <4>4. QED BY <2>1, <4>2, <4>3
            <3>2. QED BY <3>1 DEF EachPlaced
      <2>6. ~Resetting' => Staffed(pool')
            BY <2>1, <2>2 DEF Resetting
      <2>7. QED BY <2>2, <2>3, <2>4, <2>5, <2>6 DEF Manned
<1>5. QED BY <1>2, <1>3, <1>4

\* Nothing of it changes.
LEMMA RestManned ==
  ASSUME Manned, UNCHANGED <<pool, client, doomed>>
  PROVE  Manned' /\ LeavesEmpty
<1>1. pool' = pool /\ client' = client /\ doomed' = doomed
      OBVIOUS
<1>2. EachPlaced' /\ OnlyJoining' /\ CalmReset' /\ Resetting' = Resetting /\ LeavesEmpty
      BY <1>1 DEF Manned, EachPlaced, OnlyJoining, CalmReset, Resetting, Employed, There,
                  LeavesEmpty
<1>3. ~Resetting => Staffed(pool')
      BY <1>1 DEF Manned, Staffed
<1>4. QED BY <1>2, <1>3 DEF Manned

\* The pool begins without threads.
LEMMA InitManned ==
  ASSUME Init
  PROVE  Manned
<1>1. /\ pool.allThreads = {} /\ pool.expiredThreads = <<>>
      /\ \A t \in PoolThreads : ~There(pool, t)
      /\ \A c \in Clients : client[c] = "out" /\ doomed[c] = {}
      BY DEF Init, There
<1>2. Staffed(pool)
      <2>1. /\ Cardinality(pool.allThreads) = 0 /\ Len(pool.expiredThreads) = 0
            /\ DOMAIN pool.expiredThreads = {}
            BY <1>1, FS_EmptySet
      <2>2. Limit \in Int /\ Limit >= 1
            BY LimitBound
      <2>3. QED BY <2>1, <2>2 DEF Staffed
<1>3. QED BY <1>1, <1>2 DEF Manned, EachPlaced, OnlyJoining, CalmReset, Resetting

\* Every step, if nobody calls the pool during reset()
LEMMA StepManned ==
  ASSUME QuietReset, Members, Manned, [Next]_vars
  PROVE  Manned' /\ LeavesEmpty
<1>1. CASE UNCHANGED vars
      BY <1>1, RestManned DEF vars
<1>2. ASSUME CallPool PROVE Manned' /\ LeavesEmpty
      BY <1>2, StartManned, ResizeManned, StealManned DEF CallPool
<1>3. ASSUME NEW c \in Clients, WaitingForDone(c) PROVE Manned' /\ LeavesEmpty
      BY <1>3, WaitForDoneManned, ResetManned DEF WaitingForDone
<1>4. ASSUME NEW t \in Threads, Waiting(t) PROVE Manned' /\ LeavesEmpty
      BY <1>4, RestManned DEF Waiting
<1>5. QED BY <1>1, <1>2, <1>3, <1>4, WorkManned, FinishManned DEF Next, Locked

\* The books of reset() and of the limit are right.
THEOREM StaffingHolds == ASSUME QuietReset PROVE Spec => []Manned
<1>1. Init => Manned
      BY InitManned
<1>2. Members /\ Manned /\ [Next]_vars => Manned'
      BY StepManned
<1>3. QED BY <1>1, <1>2, InvariantHolds, PTL DEF Spec

\* WithinLimit: no more tasks run at a time than the greatest maxThreadCount and the
\* threads given back with releaseThread() allow; one may always run.
THEOREM LimitKept == ASSUME QuietReset PROVE Spec => []WithinLimit
<1>1. ASSUME Members, Manned PROVE WithinLimit
      <2> DEFINE busy == {t \in PoolThreads : Busy(t)}
                 gone == {pool.expiredThreads[i] : i \in DOMAIN pool.expiredThreads}
      <2>0. /\ Limit \in Int /\ Limit >= 1
            BY LimitBound
      <2>1. busy \subseteq Employed(pool) /\ busy \subseteq PoolThreads
            BY DEF Busy, Employed
      <2>2. CASE Resetting
            <3>1. busy = {}
                  BY <1>1, <2>1, <2>2 DEF Manned, CalmReset
            <3>2. Cardinality(busy) = 0
                  BY <3>1, FS_EmptySet
            <3> HIDE DEF busy
            <3>3. Cardinality(busy) <= Limit
                  BY <2>0, <3>2
            <3>4. QED BY <3>3 DEF WithinLimit, busy, Limit
      <2>3. CASE ~Resetting
            <3>1. /\ pool \in PoolRecords /\ ThreadsSound(pool) /\ Staffed(pool)
                  /\ OnlyJoining /\ EachPlaced
                  BY <1>1, <2>3 DEF Members, Sound, Wellformed, Manned
            <3>2. /\ IsFiniteSet(pool.allThreads) /\ Cardinality(pool.allThreads) \in Nat
                  /\ Len(pool.expiredThreads) \in Nat
                  /\ pool.expiredThreads \in Seq(PoolThreads)
                  /\ DOMAIN pool.expiredThreads = 1..Len(pool.expiredThreads)
                  BY <3>1, StaffNumber, LenProperties
            <3>3. busy \subseteq pool.allThreads
                  <4>1. \A t \in busy : There(pool, t)
                        BY DEF Busy, There
                  <4>2. \A c \in Clients : doomed[c] = {}
                        BY <2>3, <3>1 DEF OnlyJoining, Resetting
                  <4>3. QED BY <2>1, <3>1, <4>1, <4>2 DEF EachPlaced
            <3>4. gone \subseteq pool.allThreads /\ busy \cap gone = {}
                  <4>1. gone \subseteq pool.allThreads
                        BY <3>1 DEF Staffed
                  <4>2. \A i \in DOMAIN pool.expiredThreads : ~Busy(pool.expiredThreads[i])
                        BY <3>1 DEF ThreadsSound, Busy
                  <4>3. QED BY <4>1, <4>2
            <3>5. IsFiniteSet(gone) /\ Cardinality(gone) = Len(pool.expiredThreads)
                  <4> DEFINE e == pool.expiredThreads
                             n == Len(pool.expiredThreads)
                  <4>1. \A i, j \in 1..n : e[i] = e[j] => i = j
                        BY <3>1, <3>2 DEF ThreadsSound
                  <4>2. gone = {e[i] : i \in 1..n}
                        BY <3>2
                  <4>3. IsFiniteSet(1..n) /\ Cardinality(1..n) = n
                        <5>1. n \in Nat
                              BY <3>2
                        <5> HIDE DEF n
                        <5>2. IsFiniteSet(1..n) /\ Cardinality(1..n) = (IF 1 > n THEN 0 ELSE n - 1 + 1)
                              BY <5>1, FS_Interval
                        <5>3. QED BY <5>1, <5>2
                  <4> DEFINE f == [i \in 1..n |-> e[i]]
                  <4>4. f \in Bijection(1..n, gone)
                        <5> HIDE DEF e, n, gone
                        <5>1. f \in [1..n -> gone] /\ \A i \in 1..n : f[i] = e[i]
                              BY <4>2
                        <5>2. \A y \in gone : \E i \in 1..n : f[i] = y
                              BY <4>2, <5>1
                        <5> HIDE DEF f
                        <5>3. f \in Injection(1..n, gone)
                              BY <4>1, <5>1 DEF Injection, IsInjective
                        <5>4. f \in Surjection(1..n, gone)
                              BY <5>1, <5>2 DEF Surjection
                        <5>5. QED BY <5>3, <5>4 DEF Bijection
                  <4> HIDE DEF e, n, gone, f
                  <4>5. IsFiniteSet(gone) /\ Cardinality(gone) = Cardinality(1..n)
                        <5>1. ExistsBijection(1..n, gone)
                              BY <4>4 DEF ExistsBijection
                        <5>2. QED BY <4>3, <5>1, FS_Bijection
                  <4>6. QED BY <4>3, <4>5 DEF n
            <3> HIDE DEF busy, gone
            <3>6. /\ IsFiniteSet(busy) /\ Cardinality(busy) \in Nat
                  BY <3>2, <3>3, FS_Subset, FS_CardinalityType
            <3>7. Cardinality(busy \cup gone) = Cardinality(busy) + Cardinality(gone)
                  <4>1. /\ Cardinality(busy \cup gone) =
                             Cardinality(busy) + Cardinality(gone) - Cardinality(busy \cap gone)
                        BY <3>5, <3>6, FS_Union
                  <4>2. Cardinality(busy \cap gone) = 0
                        BY <3>4, FS_EmptySet
                  <4>3. QED BY <3>2, <3>5, <3>6, <4>1, <4>2
            <3>8. Cardinality(busy \cup gone) <= Cardinality(pool.allThreads)
                  <4>1. busy \cup gone \subseteq pool.allThreads
                        BY <3>3, <3>4
                  <4>2. QED BY <3>2, <4>1, FS_Subset
            <3>9. Cardinality(pool.allThreads) - Len(pool.expiredThreads) <= Limit
                  BY <3>1 DEF Staffed
            <3>10. Cardinality(busy) <= Limit
                   BY <2>0, <3>2, <3>5, <3>6, <3>7, <3>8, <3>9
            <3>11. QED BY <3>10 DEF WithinLimit, busy, Limit
      <2>4. QED BY <2>2, <2>3
<1>2. QED BY <1>1, StaffingHolds, InvariantHolds, PTL

\* AllRemoved: a client that comes back from waitForDone() with true leaves no thread
\* behind.  With two of them it does not hold: the one that finds allThreads empty comes
\* back while the other one still waits for the threads.
THEOREM ThreadsRemoved ==
  ASSUME QuietReset, \A c, d \in Clients : c = d
  PROVE  Spec => AllRemoved
<1> DEFINE Left == \A c \in Clients :
             client[c] \in {"done", "joining"} /\ client'[c] = "out" =>
               \A t \in PoolThreads : pool'.phase[t] \in {"unused", "deleted"}
<1>1. ASSUME Members, Manned, Manned', [Next]_vars PROVE Left
      <2>1. ASSUME NEW c \in Clients, client[c] \in {"done", "joining"}, client'[c] = "out",
                   NEW t \in PoolThreads
            PROVE  pool'.phase[t] \in {"unused", "deleted"}
            <3>1. LeavesEmpty
                  BY <1>1, StepManned
            <3>2. pool'.allThreads = {}
                  BY <2>1, <3>1 DEF LeavesEmpty
            <3>3. \A d \in Clients : client'[d] = "out"
                  BY <2>1
            <3>4. \A d \in Clients : doomed'[d] = {}
                  BY <1>1, <3>3 DEF Manned, OnlyJoining
            <3>5. ~There(pool', t)
                  BY <1>1, <3>2, <3>4 DEF Manned, EachPlaced
            <3>6. QED BY <3>5 DEF There
      <2>2. QED BY <2>1
<1>2. Members /\ Manned /\ Manned' /\ [Next]_vars => [Left]_vars
      BY <1>1
<1>3. QED BY <1>2, StaffingHolds, InvariantHolds, PTL DEF Spec, AllRemoved
=============================================================================
