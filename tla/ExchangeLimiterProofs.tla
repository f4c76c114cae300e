------------------------ MODULE ExchangeLimiterProofs ------------------------
(***************************************************************************)
(* Proofs about ExchangeLimiter, for any sources and requests, any limits, *)
(* window and waiting time.  The argument: the queue of a source and the   *)
(* history of its attempts end with the same attempts (Aligned), so that   *)
(* the attempts of the recent past are all in the queue, which is no       *)
(* longer than Limit, and a queue that is full after its stale front is    *)
(* gone shows Limit attempts of the recent past.                           *)
(***************************************************************************)
EXTENDS ExchangeLimiter, FiniteSetTheorems, WellFoundedInduction, TLAPS

\* The types of the constants, one by one.
LEMMA ConstantTypes ==
  /\ Limit \in Nat \ {0} /\ MaxSources \in Nat \ {0} /\ MaxConcurrent \in Nat \ {0}
  /\ Window \in Nat /\ MaxStall \in Nat /\ MaxTime \in Nat
<1>1. \A x \in {Limit, MaxSources, MaxConcurrent} : x \in Nat \ {0}
  BY ExchangeLimiterAssumption
<1>2. \A x \in {Window, MaxStall, MaxTime} : x \in Nat
  BY ExchangeLimiterAssumption
<1> QED
  BY <1>1, <1>2

-----------------------------------------------------------------------------
(* PopStale.                                                               *)

\* A set of natural numbers has a least one.
LEMMA Least ==
  ASSUME NEW T \in SUBSET Nat, T # {}
  PROVE  \E x \in T : \A y \in T : x <= y
<1>1. PICK x \in T : \A y \in T : ~(<<y, x>> \in OpToRel(<, Nat))
  BY NatLessThanWellFounded, WFMin
<1>2. \A y \in T : ~(y < x)
  BY <1>1 DEF OpToRel
<1> QED
  BY <1>2

\* e is q without its first d entries, none of them above c; its front is.
Drops(q, e, d, c) ==
  /\ e \in Seq(Nat) /\ Len(e) = Len(q) - d
  /\ \A i \in 1 .. Len(e) : e[i] = q[i + d]
  /\ \A i \in 1 .. d : q[i] <= c
  /\ Len(e) > 0 => e[1] > c

\* The loop of pop_front drops a front of stale entries.
LEMMA PopStaleDrops ==
  ASSUME NEW q \in Seq(Nat), NEW c \in Int
  PROVE  \E d \in 0 .. Len(q) : Drops(q, PopStale(q, c), d, c)
<1> DEFINE fresh == {i \in 1 .. Len(q) : q[i] > c}
           first == CHOOSE i \in fresh : \A j \in fresh : i <= j
           e == SubSeq(q, first, Len(q))
<1>1. Len(q) \in Nat /\ \A i \in 1 .. Len(q) : q[i] \in Nat
  OBVIOUS
<1>2. CASE fresh = {}
  <2>1. PopStale(q, c) = << >>
    BY <1>2 DEF PopStale
  <2>2. ASSUME NEW i \in 1 .. Len(q) PROVE q[i] <= c
    <3>1. ~(q[i] > c)
      BY <1>2
    <3>2. q[i] \in Int
      BY <1>1
    <3> QED
      BY <3>1, <3>2
  <2>3. Drops(q, << >>, Len(q), c)
    BY <1>1, <2>2 DEF Drops
  <2> QED
    BY <1>1, <2>1, <2>3
<1>3. CASE fresh # {}
  <2>1. PopStale(q, c) = e
    BY <1>3 DEF PopStale
  <2>2. \E i \in fresh : \A j \in fresh : i <= j
    <3>1. fresh \in SUBSET Nat
      BY <1>1
    <3> HIDE DEF fresh
    <3> QED
      BY <1>3, <3>1, Least
  <2>3. first \in fresh /\ \A j \in fresh : first <= j
    BY <2>2
  <2> HIDE DEF first
  <2>4. first \in 1 .. Len(q) /\ q[first] > c
    BY <2>3
  <2>5. \A i \in 1 .. first - 1 : i \in 1 .. Len(q) /\ q[i] <= c
    BY <1>1, <2>3, <2>4
  <2>6. /\ e \in Seq(Nat) /\ Len(e) = Len(q) - (first - 1)
        /\ \A i \in 1 .. Len(e) : e[i] = q[i + (first - 1)]
    BY <1>1, <2>4
  <2>7. e[1] = q[first]
    BY <1>1, <2>4, <2>6
  <2> HIDE DEF e
  <2>8. first - 1 \in 0 .. Len(q)
    BY <1>1, <2>4
  <2>9. Drops(q, e, first - 1, c)
    <3>1. \A i \in 1 .. first - 1 : q[i] <= c
      BY <2>5
    <3>2. e[1] > c
      BY <2>4, <2>7
    <3> QED
      BY <2>6, <3>1, <3>2 DEF Drops
  <2> QED
    BY <2>1, <2>8, <2>9
<1> QED
  BY <1>2, <1>3

-----------------------------------------------------------------------------
(* The queue of a source and the history of its attempts.                  *)

\* Arithmetic on positions and instants, apart from the sequences.
LEMMA Shifted ==
  ASSUME NEW m \in Nat, NEW d \in 0 .. m, NEW i \in 1 .. m - d
  PROVE  i + d \in 1 .. m
OBVIOUS

LEMMA Between ==
  ASSUME NEW a \in Int, NEW b \in Int, NEW c \in Int, NEW x \in Int, a <= b, b <= c, c <= x
  PROVE  a <= x
OBVIOUS

LEMMA ElementType ==
  ASSUME NEW q \in Seq(Nat)
  PROVE  \A i \in 1 .. Len(q) : q[i] \in Nat /\ q[i] \in Int
OBVIOUS

LEMMA Durations == Window \in Int /\ MaxStall \in Int
  BY ConstantTypes

\* A dropped stamp b is at most c; the attempt was counted at a, at most m after it.
LEMMA StaleCount ==
  ASSUME NEW a \in Int, NEW b \in Int, NEW c \in Int, NEW t \in Int, NEW w \in Int, NEW m \in Int,
         a <= b + m, b <= c, c <= t - w
  PROVE  a <= t - w + m
OBVIOUS

\* Dropping a stale front of the queue keeps the two aligned.
LEMMA DropQueue ==
  ASSUME NEW q \in Seq(Nat), NEW p \in Seq(Nat), NEW t \in Int, Aligned(q, p, t),
         NEW e, NEW d \in 0 .. Len(q), NEW c \in Int, c <= t - Window, Drops(q, e, d, c)
  PROVE  Aligned(e, p, t)
<1> USE ConstantTypes
<1>0. /\ Len(q) \in Nat /\ Len(p) \in Nat /\ Len(e) = Len(q) - d /\ Len(e) \in Nat
      /\ \A i \in 1 .. Len(e) : e[i] = q[i + d]
  BY DEF Drops
<1>1. /\ Len(q) \in Nat /\ Len(p) \in Nat /\ Len(e) = Len(q) - d /\ Len(e) \in Nat
      /\ \A i \in 1 .. Len(q) : q[i] \in Nat
      /\ \A i \in 1 .. Len(p) : p[i] \in Nat
      /\ \A i \in 1 .. Len(e) : e[i] = q[i + d] /\ i + d \in 1 .. Len(q)
      /\ Window \in Nat /\ MaxStall \in Nat
  <2>1. \A i \in 1 .. Len(e) : i + d \in 1 .. Len(q)
    BY <1>0, Shifted
  <2>2. /\ \A i \in 1 .. Len(q) : q[i] \in Nat
        /\ \A i \in 1 .. Len(p) : p[i] \in Nat
    BY ElementType
  <2> QED
    BY <1>0, <2>1, <2>2
<1>2. \A i \in 1 .. Len(e), j \in 1 .. Len(p) :
        Len(e) - i = Len(p) - j => e[i] <= p[j] /\ p[j] <= e[i] + MaxStall
  <2> SUFFICES ASSUME NEW i \in 1 .. Len(e), NEW j \in 1 .. Len(p), Len(e) - i = Len(p) - j
               PROVE  e[i] <= p[j] /\ p[j] <= e[i] + MaxStall
    OBVIOUS
  <2>1. Len(q) - (i + d) = Len(p) - j
    BY <1>1
  <2> QED
    BY <1>1, <2>1 DEF Aligned
<1>3. \A j \in 1 .. Len(p) : j <= Len(p) - Len(e) => p[j] <= t - Window + MaxStall
  <2> SUFFICES ASSUME NEW j \in 1 .. Len(p), j <= Len(p) - Len(e), j > Len(p) - Len(q)
               PROVE  p[j] <= t - Window + MaxStall
    BY <1>1 DEF Aligned
  <2> DEFINE i == Len(q) - Len(p) + j
  <2>1. i \in 1 .. Len(q) /\ i \in 1 .. d /\ Len(q) - i = Len(p) - j
    BY <1>1
  <2>2. p[j] <= q[i] + MaxStall
    BY <2>1 DEF Aligned
  <2>3. q[i] <= c
    BY <2>1 DEF Drops
  <2> HIDE DEF i
  <2>4. q[i] \in Int
    BY <2>1, ElementType
  <2>5. p[j] \in Int
    BY <2>1, ElementType
  <2>6. c <= t - Window
    OBVIOUS
  <2> QED
    BY <2>2, <2>3, <2>4, <2>5, <2>6, Durations, StaleCount
<1>4. \A i \in 1 .. Len(e) : i <= Len(e) - Len(p) => e[i] <= t - Window - MaxStall
  <2> SUFFICES ASSUME NEW i \in 1 .. Len(e), i <= Len(e) - Len(p)
               PROVE  q[i + d] <= t - Window - MaxStall
    BY <1>1
  <2>1. i + d \in 1 .. Len(q) /\ i + d <= Len(q) - Len(p)
    BY <1>1
  <2> QED
    BY <2>1 DEF Aligned
<1> QED
  BY <1>2, <1>3, <1>4 DEF Aligned

\* So does dropping a stale front of the history.
LEMMA DropHistory ==
  ASSUME NEW q \in Seq(Nat), NEW p \in Seq(Nat), NEW t \in Int, Aligned(q, p, t),
         NEW e, NEW d \in 0 .. Len(p), NEW c \in Int, c <= t - Window - MaxStall, Drops(p, e, d, c)
  PROVE  Aligned(q, e, t)
<1> USE ConstantTypes
<1>0. /\ Len(q) \in Nat /\ Len(p) \in Nat /\ Len(e) = Len(p) - d /\ Len(e) \in Nat
      /\ \A i \in 1 .. Len(e) : e[i] = p[i + d]
  BY DEF Drops
<1>1. /\ Len(q) \in Nat /\ Len(p) \in Nat /\ Len(e) = Len(p) - d /\ Len(e) \in Nat
      /\ \A i \in 1 .. Len(q) : q[i] \in Nat
      /\ \A i \in 1 .. Len(p) : p[i] \in Nat
      /\ \A i \in 1 .. Len(e) : e[i] = p[i + d] /\ i + d \in 1 .. Len(p)
      /\ Window \in Nat /\ MaxStall \in Nat
  <2>1. \A i \in 1 .. Len(e) : i + d \in 1 .. Len(p)
    BY <1>0, Shifted
  <2>2. /\ \A i \in 1 .. Len(q) : q[i] \in Nat
        /\ \A i \in 1 .. Len(p) : p[i] \in Nat
    BY ElementType
  <2> QED
    BY <1>0, <2>1, <2>2
<1>2. \A i \in 1 .. Len(q), j \in 1 .. Len(e) :
        Len(q) - i = Len(e) - j => q[i] <= e[j] /\ e[j] <= q[i] + MaxStall
  <2> SUFFICES ASSUME NEW i \in 1 .. Len(q), NEW j \in 1 .. Len(e), Len(q) - i = Len(e) - j
               PROVE  q[i] <= e[j] /\ e[j] <= q[i] + MaxStall
    OBVIOUS
  <2>1. Len(q) - i = Len(p) - (j + d)
    BY <1>1
  <2> QED
    BY <1>1, <2>1 DEF Aligned
<1>3. \A i \in 1 .. Len(q) : i <= Len(q) - Len(e) => q[i] <= t - Window - MaxStall
  <2> SUFFICES ASSUME NEW i \in 1 .. Len(q), i <= Len(q) - Len(e), i > Len(q) - Len(p)
               PROVE  q[i] <= t - Window - MaxStall
    BY <1>1 DEF Aligned
  <2> DEFINE j == Len(p) - Len(q) + i
  <2>1. j \in 1 .. Len(p) /\ j \in 1 .. d /\ Len(q) - i = Len(p) - j
    BY <1>1
  <2>2. q[i] <= p[j]
    BY <2>1 DEF Aligned
  <2>3. p[j] <= c
    BY <2>1 DEF Drops
  <2> HIDE DEF j
  <2>4. q[i] \in Int
    BY <2>1, ElementType
  <2>5. p[j] \in Int
    BY <2>1, ElementType
  <2>6. c <= t - Window - MaxStall /\ t - Window - MaxStall \in Int
    BY Durations
  <2> QED
    BY <2>2, <2>3, <2>4, <2>5, <2>6, Between
<1>4. \A j \in 1 .. Len(e) : j <= Len(e) - Len(q) => e[j] <= t - Window + MaxStall
  <2> SUFFICES ASSUME NEW j \in 1 .. Len(e), j <= Len(e) - Len(q)
               PROVE  p[j + d] <= t - Window + MaxStall
    BY <1>1
  <2>1. j + d \in 1 .. Len(p) /\ j + d <= Len(p) - Len(q)
    BY <1>1
  <2> QED
    BY <2>1 DEF Aligned
<1>5. \A i \in 1 .. Len(e) : e[i] <= t
  BY <1>1 DEF Aligned
<1>6. \A i, j \in 1 .. Len(e) : i <= j => e[i] <= e[j]
  <2> SUFFICES ASSUME NEW i \in 1 .. Len(e), NEW j \in 1 .. Len(e), i <= j
               PROVE  p[i + d] <= p[j + d]
    BY <1>1
  <2>1. i + d \in 1 .. Len(p) /\ j + d \in 1 .. Len(p) /\ i + d <= j + d
    BY <1>1
  <2> QED
    BY <2>1 DEF Aligned
<1> QED
  BY <1>2, <1>3, <1>4, <1>5, <1>6 DEF Aligned

\* Positions at equal distances from the ends of two sequences of m + 1 and n + 1.
LEMMA SameDistance ==
  ASSUME NEW m \in Nat, NEW n \in Nat, NEW i \in 1 .. m, NEW j \in 1 .. n + 1,
         (m + 1) - i = (n + 1) - j
  PROVE  j \in 1 .. n /\ m - i = n - j
OBVIOUS

\* One more attempt, counted now with a stamp read lately, keeps them aligned.
LEMMA CountOne ==
  ASSUME NEW q \in Seq(Nat), NEW p \in Seq(Nat), NEW t \in Nat, Aligned(q, p, t),
         NEW u \in Nat, u <= t, t <= u + MaxStall
  PROVE  Aligned(Append(q, u), Append(p, t), t)
<1> DEFINE e == Append(q, u)
           h == Append(p, t)
<1>1. /\ Len(q) \in Nat /\ Len(p) \in Nat /\ Len(e) = Len(q) + 1 /\ Len(h) = Len(p) + 1
      /\ \A i \in 1 .. Len(e) : e[i] = IF i <= Len(q) THEN q[i] ELSE u
      /\ \A i \in 1 .. Len(h) : h[i] = IF i <= Len(p) THEN p[i] ELSE t
      /\ \A i \in 1 .. Len(q) : q[i] \in Nat
      /\ \A i \in 1 .. Len(p) : p[i] \in Nat
  OBVIOUS
<1> HIDE DEF e, h
<1>2. /\ \A i \in 1 .. Len(q) : i \in 1 .. Len(e) /\ e[i] = q[i]
      /\ \A i \in 1 .. Len(p) : i \in 1 .. Len(h) /\ h[i] = p[i]
      /\ \A i \in 1 .. Len(e) : i \in 1 .. Len(q) \/ (i = Len(e) /\ e[i] = u)
      /\ \A i \in 1 .. Len(h) : i \in 1 .. Len(p) \/ (i = Len(h) /\ h[i] = t)
  <2>1. \A i \in 1 .. Len(q) : i \in 1 .. Len(e) /\ e[i] = q[i]
    BY <1>1
  <2>2. \A i \in 1 .. Len(p) : i \in 1 .. Len(h) /\ h[i] = p[i]
    BY <1>1
  <2>3. \A i \in 1 .. Len(e) : i \in 1 .. Len(q) \/ (i = Len(e) /\ e[i] = u)
    BY <1>1
  <2>4. \A i \in 1 .. Len(h) : i \in 1 .. Len(p) \/ (i = Len(h) /\ h[i] = t)
    BY <1>1
  <2> QED
    BY <2>1, <2>2, <2>3, <2>4
<1>3. ASSUME NEW i \in 1 .. Len(h) PROVE h[i] <= t
  <2>1. CASE h[i] = t
    BY <2>1
  <2>2. CASE i \in 1 .. Len(p)
    <3>1. h[i] = p[i]
      BY <1>2, <2>2
    <3>2. p[i] <= t
      BY <2>2 DEF Aligned
    <3> QED
      BY <3>1, <3>2
  <2> QED
    BY <1>2, <2>1, <2>2
<1>4. \A i, j \in 1 .. Len(h) : i <= j => h[i] <= h[j]
  <2> SUFFICES ASSUME NEW i \in 1 .. Len(h), NEW j \in 1 .. Len(h), i <= j PROVE h[i] <= h[j]
    OBVIOUS
  <2>1. CASE h[j] = t
    BY <1>3, <2>1
  <2>2. CASE j \in 1 .. Len(p)
    <3>1. i \in 1 .. Len(p)
      BY <1>1, <2>2
    <3> QED
      BY <1>2, <2>2, <3>1 DEF Aligned
  <2> QED
    BY <1>2, <2>1, <2>2
<1>5. ASSUME NEW i \in 1 .. Len(e), NEW j \in 1 .. Len(h), Len(e) - i = Len(h) - j
      PROVE  e[i] <= h[j] /\ h[j] <= e[i] + MaxStall
  <2>1. CASE i = Len(e)
    <3>0. Len(q) \in Nat /\ Len(p) \in Nat /\ Len(e) = Len(q) + 1 /\ Len(h) = Len(p) + 1
      BY <1>1
    <3>a. j = Len(h)
      BY <1>5, <2>1, <3>0
    <3>b. i \notin 1 .. Len(q) /\ j \notin 1 .. Len(p)
      BY <2>1, <3>0, <3>a
    <3>1. e[i] = u /\ h[j] = t
      BY <1>2, <3>b
    <3> QED
      BY <3>1
  <2>2. CASE i \in 1 .. Len(q)
    <3>0. Len(q) \in Nat /\ Len(p) \in Nat /\ Len(e) = Len(q) + 1 /\ Len(h) = Len(p) + 1
      BY <1>1
    <3>1. (Len(q) + 1) - i = (Len(p) + 1) - j /\ j \in 1 .. Len(p) + 1
      BY <1>5, <3>0
    <3>2. j \in 1 .. Len(p) /\ Len(q) - i = Len(p) - j
      BY <2>2, <3>0, <3>1, SameDistance
    <3> QED
      BY <1>2, <2>2, <3>2 DEF Aligned
  <2> QED
    BY <1>2, <2>1, <2>2
<1>6. ASSUME NEW j \in 1 .. Len(h), j <= Len(h) - Len(e) PROVE h[j] <= t - Window + MaxStall
  <2>1. j \in 1 .. Len(p) /\ j <= Len(p) - Len(q)
    BY <1>1, <1>6
  <2> QED
    BY <1>2, <2>1 DEF Aligned
<1>7. ASSUME NEW i \in 1 .. Len(e), i <= Len(e) - Len(h) PROVE e[i] <= t - Window - MaxStall
  <2>1. i \in 1 .. Len(q) /\ i <= Len(q) - Len(p)
    BY <1>1, <1>7
  <2> QED
    BY <1>2, <2>1 DEF Aligned
<1>8. Aligned(e, h, t)
  BY <1>3, <1>4, <1>5, <1>6, <1>7 DEF Aligned
<1> QED
  BY <1>8 DEF e, h

\* Time passes.
LEMMA Later ==
  ASSUME NEW q \in Seq(Nat), NEW p \in Seq(Nat), NEW t \in Nat, Aligned(q, p, t)
  PROVE  Aligned(q, p, t + 1)
<1>1. /\ \A i \in 1 .. Len(q) : q[i] \in Int
      /\ \A i \in 1 .. Len(p) : p[i] \in Int
  OBVIOUS
<1>2. /\ t \in Int /\ t - Window + MaxStall \in Int /\ t - Window - MaxStall \in Int
      /\ t <= t + 1 /\ t + 1 \in Int
      /\ t - Window + MaxStall <= (t + 1) - Window + MaxStall
      /\ t - Window - MaxStall <= (t + 1) - Window - MaxStall
      /\ (t + 1) - Window + MaxStall \in Int /\ (t + 1) - Window - MaxStall \in Int
  BY Durations
<1>3. \A i \in 1 .. Len(p) : p[i] <= t + 1
  <2> SUFFICES ASSUME NEW i \in 1 .. Len(p) PROVE p[i] <= t + 1
    OBVIOUS
  <2>1. p[i] <= t
    BY DEF Aligned
  <2> QED
    BY <1>1, <1>2, <2>1, Between
<1>4. ASSUME NEW j \in 1 .. Len(p), j <= Len(p) - Len(q)
      PROVE  p[j] <= (t + 1) - Window + MaxStall
  <2>1. p[j] <= t - Window + MaxStall
    BY <1>4 DEF Aligned
  <2> QED
    BY <1>1, <1>2, <2>1, Between
<1>5. ASSUME NEW i \in 1 .. Len(q), i <= Len(q) - Len(p)
      PROVE  q[i] <= (t + 1) - Window - MaxStall
  <2>1. q[i] <= t - Window - MaxStall
    BY <1>5 DEF Aligned
  <2> QED
    BY <1>1, <1>2, <2>1, Between
<1> QED
  BY <1>3, <1>4, <1>5 DEF Aligned

-----------------------------------------------------------------------------
(* The table and the permits.                                              *)

\* A queue without its stale front, popped at a cutoff a window ago or earlier.
LEMMA PopStaleAligned ==
  ASSUME NEW q \in Seq(Nat), NEW p \in Seq(Nat), NEW t \in Int, Aligned(q, p, t),
         NEW c \in Int, c <= t - Window
  PROVE  /\ PopStale(q, c) \in Seq(Nat) /\ Len(PopStale(q, c)) <= Len(q)
         /\ Aligned(PopStale(q, c), p, t)
         /\ Len(PopStale(q, c)) > 0 => PopStale(q, c)[1] > c
<1>1. PICK d \in 0 .. Len(q) : Drops(q, PopStale(q, c), d, c)
  BY PopStaleDrops
<1> DEFINE e == PopStale(q, c)
<1> HIDE DEF e
<1>2. Drops(q, e, d, c)
  BY <1>1 DEF e
<1>3. Aligned(e, p, t)
  BY <1>2, DropQueue
<1>4. e \in Seq(Nat) /\ Len(e) = Len(q) - d /\ (Len(e) > 0 => e[1] > c)
  BY <1>2 DEF Drops
<1>5. Len(q) \in Nat /\ Len(e) <= Len(q)
  BY <1>4
<1> QED
  BY <1>3, <1>4, <1>5 DEF e

\* A table whose queues are short and go with the histories.
Sound(m) ==
  /\ m \in [Sources -> Seq(Nat)]
  /\ \A s \in Sources : Len(m[s]) <= Limit /\ Aligned(m[s], pushes[s], now)

\* The cutoff of a request that waits for the mutex.
LEMMA CutoffType ==
  ASSUME LimiterInv, NEW a \in Tasks, pc[a] = "arrived"
  PROVE  /\ src[a] \in Sources /\ stamp[a] \in Nat /\ now \in Nat
         /\ stamp[a] <= now /\ now <= stamp[a] + MaxStall
         /\ Cutoff(a) \in Int /\ Cutoff(a) <= now - Window /\ Cutoff(a) >= now - Window - MaxStall
<1>1. /\ src[a] \in Sources /\ stamp[a] \in Nat /\ now \in Nat
      /\ stamp[a] <= now /\ now <= stamp[a] + MaxStall
  BY DEF LimiterInv, TypeOK, StampInv
<1> QED
  BY <1>1, ConstantTypes DEF Cutoff

\* Pruning keeps the table sound and adds no source.
LEMMA PruneSound ==
  ASSUME LimiterInv, NEW a \in Tasks, pc[a] = "arrived"
  PROVE  /\ Sound(Pruned(a))
         /\ Present(Pruned(a)) \subseteq Present(attempts)
         /\ attempts[src[a]] # << >> => Pruned(a) = attempts
<1> DEFINE c == Cutoff(a)
<1>1. c \in Int /\ c <= now - Window /\ now \in Int /\ Limit \in Nat
  BY CutoffType, ConstantTypes
<1>2. /\ attempts \in [Sources -> Seq(Nat)] /\ pushes \in [Sources -> Seq(Nat)]
      /\ \A s \in Sources : Aligned(attempts[s], pushes[s], now) /\ Len(attempts[s]) <= Limit
  BY DEF LimiterInv, TypeOK, TableBounded
<1> HIDE DEF c
<1>3. CASE ~TableFull(a)
  <2>1. Pruned(a) = attempts
    BY <1>3 DEF Pruned
  <2> QED
    BY <1>2, <2>1 DEF Sound
<1>4. CASE TableFull(a)
  <2> DEFINE m == [s \in Sources |-> PopStale(attempts[s], c)]
  <2>1. Pruned(a) = m
    BY <1>4 DEF Pruned, c
  <2>2. ASSUME NEW s \in Sources
        PROVE  /\ m[s] \in Seq(Nat) /\ Len(m[s]) <= Limit /\ Aligned(m[s], pushes[s], now)
               /\ m[s] # << >> => attempts[s] # << >>
    <3>1. attempts[s] \in Seq(Nat) /\ pushes[s] \in Seq(Nat) /\ Aligned(attempts[s], pushes[s], now)
      BY <1>2
    <3>2. m[s] = PopStale(attempts[s], c)
      OBVIOUS
    <3> HIDE DEF m
    <3>3. m[s] \in Seq(Nat) /\ Len(m[s]) <= Len(attempts[s]) /\ Aligned(m[s], pushes[s], now)
      BY <1>1, <3>1, <3>2, PopStaleAligned
    <3>4. Len(m[s]) <= Limit
      BY <1>1, <1>2, <3>1, <3>3
    <3>5. attempts[s] = << >> => m[s] = << >>
      BY <3>1, <3>3
    <3> QED
      BY <3>3, <3>4, <3>5
  <2>3. m \in [Sources -> Seq(Nat)]
    BY <2>2
  <2> HIDE DEF m
  <2>4. Sound(m)
    BY <2>2, <2>3 DEF Sound
  <2>5. Present(m) \subseteq Present(attempts)
    BY <2>2 DEF Present
  <2> QED
    BY <1>4, <2>1, <2>4, <2>5 DEF TableFull
<1> QED
  BY <1>3, <1>4

\* The admitted requests, finite and with the permits making MaxConcurrent, when a
\* request is admitted with a permit.
LEMMA PermitTaken ==
  ASSUME LimiterInv, NEW a \in Tasks, pc[a] # "admitted", permits > 0
  PROVE  LET S == {b \in Tasks : [pc EXCEPT ![a] = "admitted"][b] = "admitted"}
         IN  /\ IsFiniteSet(S) /\ permits - 1 \in 0 .. MaxConcurrent
             /\ (permits - 1) + Cardinality(S) = MaxConcurrent
<1> DEFINE S == {b \in Tasks : pc[b] = "admitted"}
           T == {b \in Tasks : [pc EXCEPT ![a] = "admitted"][b] = "admitted"}
<1>1. T = S \cup {a} /\ a \notin S
  BY DEF LimiterInv, TypeOK
<1>2. IsFiniteSet(S) /\ permits + Cardinality(S) = MaxConcurrent /\ permits \in 0 .. MaxConcurrent
  BY DEF LimiterInv, TypeOK, FiniteInv
<1> HIDE DEF S, T
<1>3. IsFiniteSet(T) /\ Cardinality(T) = Cardinality(S) + 1 /\ Cardinality(S) \in Nat
  BY <1>1, <1>2, FS_AddElement, FS_CardinalityType
<1>4. permits - 1 \in 0 .. MaxConcurrent /\ (permits - 1) + Cardinality(T) = MaxConcurrent
  BY <1>2, <1>3, ConstantTypes
<1> QED
  BY <1>3, <1>4 DEF T

\* The same when a request moves on without a permit, or gives it back.
LEMMA PermitBack ==
  ASSUME LimiterInv, NEW a \in Tasks, NEW x, x # "admitted"
  PROVE  LET S == {b \in Tasks : [pc EXCEPT ![a] = x][b] = "admitted"}
             n == IF pc[a] = "admitted" THEN permits + 1 ELSE permits
         IN  IsFiniteSet(S) /\ n \in 0 .. MaxConcurrent /\ n + Cardinality(S) = MaxConcurrent
<1> DEFINE S == {b \in Tasks : pc[b] = "admitted"}
           T == {b \in Tasks : [pc EXCEPT ![a] = x][b] = "admitted"}
           n == IF pc[a] = "admitted" THEN permits + 1 ELSE permits
<1>1. T = S \ {a} /\ (a \in S <=> pc[a] = "admitted")
  BY DEF LimiterInv, TypeOK
<1>2. IsFiniteSet(S) /\ permits + Cardinality(S) = MaxConcurrent /\ permits \in 0 .. MaxConcurrent
  BY DEF LimiterInv, TypeOK, FiniteInv
<1> HIDE DEF S, T
<1>3. /\ IsFiniteSet(T) /\ Cardinality(S) \in Nat /\ Cardinality(T) \in Nat
      /\ Cardinality(T) = IF a \in S THEN Cardinality(S) - 1 ELSE Cardinality(S)
  BY <1>1, <1>2, FS_RemoveElement, FS_CardinalityType
<1>4. n \in 0 .. MaxConcurrent /\ n + Cardinality(T) = MaxConcurrent
  BY <1>1, <1>2, <1>3, ConstantTypes
<1> QED
  BY <1>3, <1>4 DEF T

\* There is room for the source of a request that the table does not turn away.
LEMMA RoomForSource ==
  ASSUME LimiterInv, NEW a \in Tasks, pc[a] = "arrived",
         ~(TableFull(a) /\ Cardinality(Present(Pruned(a))) >= MaxSources)
  PROVE  LET S == Present(Pruned(a)) \cup {src[a]}
         IN  IsFiniteSet(S) /\ Cardinality(S) <= MaxSources
<1> DEFINE A == Present(attempts)
           P == Present(Pruned(a))
           s == src[a]
<1>1. P \subseteq A /\ s \in Sources /\ (attempts[s] # << >> => P = A)
  BY PruneSound, CutoffType
<1>2. IsFiniteSet(A) /\ Cardinality(A) <= MaxSources
  BY DEF LimiterInv, FiniteInv, TableBounded
<1>3. s \in A <=> attempts[s] # << >>
  BY <1>1 DEF Present
<1>4. attempts[s] = << >> => Cardinality(A) < MaxSources \/ Cardinality(P) < MaxSources
  <2>1. TableFull(a) <=> Cardinality(A) >= MaxSources /\ attempts[s] = << >>
    BY DEF TableFull
  <2>2. Cardinality(A) \in Nat /\ Cardinality(P) \in Nat
    BY <1>1, <1>2, FS_Subset, FS_CardinalityType
  <2> QED
    BY <2>1, <2>2, ConstantTypes
<1> HIDE DEF A, P
<1>5. /\ IsFiniteSet(P) /\ Cardinality(P) \in Nat /\ Cardinality(A) \in Nat
      /\ Cardinality(P) <= Cardinality(A)
  BY <1>1, <1>2, FS_Subset, FS_CardinalityType
<1>6. /\ IsFiniteSet(P \cup {s})
      /\ Cardinality(P \cup {s}) = IF s \in P THEN Cardinality(P) ELSE Cardinality(P) + 1
  BY <1>5, FS_AddElement
<1>7. Cardinality(P \cup {s}) <= MaxSources
  <2>1. CASE attempts[s] # << >>
    <3>1. s \in P
      BY <1>1, <1>3, <2>1
    <3> QED
      BY <1>2, <1>5, <1>6, <3>1, ConstantTypes
  <2>2. CASE attempts[s] = << >>
    <3>1. Cardinality(P) < MaxSources
      BY <1>4, <1>5, <2>2, ConstantTypes
    <3>2. Cardinality(P \cup {s}) <= Cardinality(P) + 1
      BY <1>5, <1>6
    <3>3. Cardinality(P \cup {s}) \in Nat
      BY <1>6, FS_CardinalityType
    <3> QED
      BY <1>5, <3>1, <3>2, <3>3, ConstantTypes
  <2> QED
    BY <2>1, <2>2
<1> QED
  BY <1>6, <1>7 DEF P

-----------------------------------------------------------------------------
(* LimiterInv is inductive, one lemma per action.                          *)

LEMMA InvInit == Init => LimiterInv
<1> SUFFICES ASSUME Init PROVE LimiterInv
  OBVIOUS
<1> USE DEF Init
<1>1. {a \in Tasks : pc[a] = "admitted"} = {} /\ Present(attempts) = {}
  BY DEF Present
<1>2. FiniteInv
  BY <1>1, FS_EmptySet DEF FiniteInv
<1>3. TypeOK
  <2>1. Cardinality({a \in Tasks : pc[a] = "admitted"}) = 0
    BY <1>1, FS_EmptySet
  <2>2. permits \in 0 .. MaxConcurrent /\ permits + 0 = MaxConcurrent
    BY ConstantTypes
  <2>3. << >> \in Seq(Nat)
    OBVIOUS
  <2> QED
    BY <2>1, <2>2, <2>3 DEF TypeOK
<1>4. StampInv
  BY DEF StampInv
<1>5. TableBounded
  <2>1. Cardinality(Present(attempts)) <= MaxSources
    <3>1. Cardinality(Present(attempts)) = 0
      BY <1>1, FS_EmptySet
    <3> QED
      BY <3>1, ConstantTypes
  <2>2. \A s \in Sources : Len(attempts[s]) <= Limit
    BY ConstantTypes
  <2> QED
    BY <2>1, <2>2 DEF TableBounded
<1>6. \A s \in Sources : Aligned(attempts[s], pushes[s], now)
  BY DEF Aligned
<1> QED
  BY <1>2, <1>3, <1>4, <1>5, <1>6 DEF LimiterInv

LEMMA InvArrive ==
  ASSUME LimiterInv, NEW a \in Tasks, NEW s \in Sources, Arrive(a, s)
  PROVE  LimiterInv'
<1> USE DEF Arrive
<1>1. /\ IsFiniteSet({b \in Tasks : pc'[b] = "admitted"})
      /\ permits' + Cardinality({b \in Tasks : pc'[b] = "admitted"}) = MaxConcurrent
  <2>1. pc[a] # "admitted" /\ "arrived" # "admitted"
    OBVIOUS
  <2> QED
    BY <2>1, PermitBack
<1>2. TypeOK'
  BY <1>1 DEF LimiterInv, TypeOK
<1>3. FiniteInv'
  BY <1>1 DEF LimiterInv, FiniteInv, Present
<1>4. StampInv'
  <2> SUFFICES ASSUME NEW b \in Tasks, pc'[b] = "arrived"
               PROVE  src'[b] \in Sources /\ stamp'[b] <= now /\ now <= stamp'[b] + MaxStall
    BY DEF StampInv
  <2>1. CASE b = a
    BY <2>1, ConstantTypes DEF LimiterInv, TypeOK
  <2>2. CASE b # a
    BY <2>2 DEF LimiterInv, TypeOK, StampInv
  <2> QED
    BY <2>1, <2>2
<1>5. TableBounded'
  BY DEF LimiterInv, TableBounded, Present
<1> QED
  BY <1>2, <1>3, <1>4, <1>5 DEF LimiterInv

\* What a step keeps that gives task a its outcome.
LEMMA TableStep ==
  ASSUME LimiterInv, NEW a \in Tasks, pc[a] = "arrived",
         NEW x \in {"admitted", "limited", "busy"}, pc' = [pc EXCEPT ![a] = x],
         UNCHANGED <<src, stamp, now>>, pushes' \in [Sources -> Seq(Nat)],
         permits' \in 0 .. MaxConcurrent,
         IsFiniteSet({b \in Tasks : pc'[b] = "admitted"}),
         permits' + Cardinality({b \in Tasks : pc'[b] = "admitted"}) = MaxConcurrent,
         Sound(attempts)', IsFiniteSet(Present(attempts')),
         Cardinality(Present(attempts')) <= MaxSources
  PROVE  LimiterInv'
<1>1. TypeOK'
  BY DEF LimiterInv, TypeOK, Sound
<1>2. FiniteInv'
  BY DEF FiniteInv, Present
<1>3. StampInv'
  <2> SUFFICES ASSUME NEW b \in Tasks, pc'[b] = "arrived"
               PROVE  src[b] \in Sources /\ stamp[b] <= now /\ now <= stamp[b] + MaxStall
    BY DEF StampInv
  <2>1. b # a /\ pc[b] = "arrived"
    BY DEF LimiterInv, TypeOK
  <2> QED
    BY <2>1 DEF LimiterInv, StampInv
<1>4. TableBounded'
  BY DEF TableBounded, Present, Sound
<1>5. (\A s \in Sources : Aligned(attempts[s], pushes[s], now))'
  BY DEF Sound
<1> QED
  BY <1>1, <1>2, <1>3, <1>4, <1>5 DEF LimiterInv

LEMMA InvAdmitFull ==
  ASSUME LimiterInv, NEW a \in Tasks, AdmitFull(a)
  PROVE  LimiterInv'
<1> USE DEF AdmitFull
<1>1. /\ IsFiniteSet({b \in Tasks : pc'[b] = "admitted"}) /\ permits' \in 0 .. MaxConcurrent
      /\ permits' + Cardinality({b \in Tasks : pc'[b] = "admitted"}) = MaxConcurrent
  <2>1. pc[a] # "admitted" /\ "limited" # "admitted"
    OBVIOUS
  <2> QED
    BY <2>1, PermitBack
<1>2. /\ Sound(Pruned(a)) /\ attempts' = Pruned(a) /\ pushes' = pushes /\ now' = now
      /\ Present(attempts') \subseteq Present(attempts)
  BY PruneSound
<1>3. IsFiniteSet(Present(attempts)) /\ Cardinality(Present(attempts)) <= MaxSources
  BY DEF LimiterInv, FiniteInv, TableBounded
<1>4. /\ IsFiniteSet(Present(attempts')) /\ Cardinality(Present(attempts')) <= Cardinality(Present(attempts))
      /\ Cardinality(Present(attempts)) \in Nat /\ Cardinality(Present(attempts')) \in Nat
  BY <1>2, <1>3, FS_Subset, FS_CardinalityType
<1>5. Cardinality(Present(attempts')) <= MaxSources
  BY <1>3, <1>4, ConstantTypes
<1>6. Sound(attempts)'
  BY <1>2 DEF Sound
<1>7. pushes' \in [Sources -> Seq(Nat)]
  BY DEF LimiterInv, TypeOK
<1> QED
  BY <1>1, <1>4, <1>5, <1>6, <1>7, TableStep

\* The queue of the source once its stale front is gone.
LEMMA EntriesSound ==
  ASSUME LimiterInv, NEW a \in Tasks, pc[a] = "arrived"
  PROVE  LET entries == PopStale(Pruned(a)[src[a]], Cutoff(a))
         IN  /\ entries \in Seq(Nat) /\ Len(entries) <= Len(Pruned(a)[src[a]])
             /\ Len(entries) <= Limit /\ Aligned(entries, pushes[src[a]], now)
             /\ Len(entries) > 0 => entries[1] > Cutoff(a)
<1> DEFINE entries == PopStale(Pruned(a)[src[a]], Cutoff(a))
           q == Pruned(a)[src[a]]
<1>1. /\ src[a] \in Sources /\ now \in Int /\ Cutoff(a) \in Int /\ Cutoff(a) <= now - Window
  BY CutoffType
<1>2. q \in Seq(Nat) /\ Len(q) <= Limit /\ Aligned(q, pushes[src[a]], now)
  BY <1>1, PruneSound DEF Sound
<1>3. pushes[src[a]] \in Seq(Nat)
  BY <1>1 DEF LimiterInv, TypeOK
<1> HIDE DEF q
<1>4. /\ PopStale(q, Cutoff(a)) \in Seq(Nat) /\ Len(PopStale(q, Cutoff(a))) <= Len(q)
      /\ Aligned(PopStale(q, Cutoff(a)), pushes[src[a]], now)
      /\ Len(PopStale(q, Cutoff(a))) > 0 => PopStale(q, Cutoff(a))[1] > Cutoff(a)
  BY <1>1, <1>2, <1>3, PopStaleAligned
<1>5. Len(PopStale(q, Cutoff(a))) <= Limit
  BY <1>2, <1>4, ConstantTypes
<1> QED
  BY <1>4, <1>5 DEF q

\* A table with another queue for one source, sound if the queue is.
LEMMA SoundWith ==
  ASSUME LimiterInv, NEW a \in Tasks, pc[a] = "arrived",
         ~(TableFull(a) /\ Cardinality(Present(Pruned(a))) >= MaxSources),
         NEW e \in Seq(Nat), Len(e) <= Limit,
         attempts' = [Pruned(a) EXCEPT ![src[a]] = e], now' = now,
         pushes' \in [Sources -> Seq(Nat)], Aligned(e, pushes'[src[a]], now),
         \A x \in Sources \ {src[a]} : pushes'[x] = pushes[x]
  PROVE  /\ Sound(attempts)'
         /\ IsFiniteSet(Present(attempts')) /\ Cardinality(Present(attempts')) <= MaxSources
<1> DEFINE m == Pruned(a)
           s == src[a]
<1>1. s \in Sources /\ Sound(m) /\ m \in [Sources -> Seq(Nat)]
  BY PruneSound, CutoffType DEF Sound
<1>2. IsFiniteSet(Present(m) \cup {s}) /\ Cardinality(Present(m) \cup {s}) <= MaxSources
  BY RoomForSource
<1> HIDE DEF m, s
<1>3. attempts' = [m EXCEPT ![s] = e]
  BY DEF m, s
<1>4. Present(attempts') \subseteq Present(m) \cup {s}
  BY <1>1, <1>3 DEF Present
<1>5. /\ IsFiniteSet(Present(attempts')) /\ Cardinality(Present(attempts')) \in Nat
      /\ Cardinality(Present(attempts')) <= Cardinality(Present(m) \cup {s})
      /\ Cardinality(Present(m) \cup {s}) \in Nat
  BY <1>2, <1>4, FS_Subset, FS_CardinalityType
<1>6. Cardinality(Present(attempts')) <= MaxSources
  BY <1>2, <1>5, ConstantTypes
<1>7. attempts' \in [Sources -> Seq(Nat)]
  BY <1>1, <1>3
<1>8. ASSUME NEW x \in Sources
      PROVE  Len(attempts'[x]) <= Limit /\ Aligned(attempts'[x], pushes'[x], now')
  <2>1. CASE x = s
    BY <1>1, <1>3, <2>1 DEF s
  <2>2. CASE x # s
    <3>1. attempts'[x] = m[x] /\ pushes'[x] = pushes[x]
      BY <1>1, <1>3, <2>2 DEF s
    <3> QED
      BY <1>1, <3>1 DEF Sound
  <2> QED
    BY <2>1, <2>2
<1> QED
  BY <1>5, <1>6, <1>7, <1>8 DEF Sound

LEMMA InvAdmit ==
  ASSUME LimiterInv, NEW a \in Tasks, Admit(a)
  PROVE  LimiterInv'
<1> DEFINE s == src[a]
           entries == PopStale(Pruned(a)[s], Cutoff(a))
           S == {b \in Tasks : pc'[b] = "admitted"}
<1>1. /\ pc[a] = "arrived" /\ UNCHANGED <<src, stamp, now>>
      /\ ~(TableFull(a) /\ Cardinality(Present(Pruned(a))) >= MaxSources)
  BY DEF Admit
<1>2. /\ s \in Sources /\ now \in Nat /\ stamp[a] \in Nat
      /\ stamp[a] <= now /\ now <= stamp[a] + MaxStall
  BY <1>1, CutoffType
<1>3. entries \in Seq(Nat) /\ Len(entries) <= Limit /\ Aligned(entries, pushes[s], now)
  BY <1>1, EntriesSound
<1>4. pushes \in [Sources -> Seq(Nat)] /\ pushes[s] \in Seq(Nat) /\ permits \in 0 .. MaxConcurrent
  BY <1>2 DEF LimiterInv, TypeOK
<1>5. ASSUME Len(entries) >= Limit, attempts' = [Pruned(a) EXCEPT ![s] = entries],
             pc' = [pc EXCEPT ![a] = "limited"], UNCHANGED <<permits, pushes>>
      PROVE  LimiterInv'
  <2> HIDE DEF entries
  <2>1. IsFiniteSet(S) /\ permits' \in 0 .. MaxConcurrent /\ permits' + Cardinality(S) = MaxConcurrent
    <3>1. pc[a] # "admitted" /\ "limited" # "admitted"
      BY <1>1
    <3> QED
      BY <1>5, <3>1, PermitBack
  <2>2. /\ Sound(attempts)'
        /\ IsFiniteSet(Present(attempts')) /\ Cardinality(Present(attempts')) <= MaxSources
    BY <1>1, <1>3, <1>4, <1>5, SoundWith
  <2> QED
    BY <1>1, <1>4, <1>5, <2>1, <2>2, TableStep
<1>6. ASSUME Len(entries) < Limit,
             attempts' = [Pruned(a) EXCEPT ![s] = Append(entries, stamp[a])],
             pushes' = [pushes EXCEPT ![s] = Append(@, now)],
             NEW x \in {"admitted", "busy"}, pc' = [pc EXCEPT ![a] = x],
             IsFiniteSet(S), permits' \in 0 .. MaxConcurrent,
             permits' + Cardinality(S) = MaxConcurrent
      PROVE  LimiterInv'
  <2> DEFINE e == Append(entries, stamp[a])
  <2> HIDE DEF entries
  <2>1. e \in Seq(Nat) /\ Len(e) = Len(entries) + 1 /\ Len(entries) \in Nat
    BY <1>2, <1>3
  <2>2. Len(e) <= Limit
    BY <1>6, <2>1, ConstantTypes
  <2>3. Aligned(e, Append(pushes[s], now), now)
    BY <1>2, <1>3, <1>4, CountOne
  <2>4. /\ pushes'[s] = Append(pushes[s], now) /\ pushes' \in [Sources -> Seq(Nat)]
        /\ \A y \in Sources \ {s} : pushes'[y] = pushes[y]
    BY <1>2, <1>4, <1>6
  <2> HIDE DEF e
  <2>5. attempts' = [Pruned(a) EXCEPT ![s] = e]
    BY <1>6 DEF e
  <2>6. /\ Sound(attempts)'
        /\ IsFiniteSet(Present(attempts')) /\ Cardinality(Present(attempts')) <= MaxSources
    BY <1>1, <2>1, <2>2, <2>3, <2>4, <2>5, SoundWith
  <2>7. x \in {"admitted", "limited", "busy"}
    OBVIOUS
  <2> QED
    BY <1>1, <1>6, <2>4, <2>6, <2>7, TableStep
<1>7. CASE /\ permits > 0 /\ permits' = permits - 1 /\ pc' = [pc EXCEPT ![a] = "admitted"]
           /\ Len(entries) < Limit /\ attempts' = [Pruned(a) EXCEPT ![s] = Append(entries, stamp[a])]
           /\ pushes' = [pushes EXCEPT ![s] = Append(@, now)]
  <2> HIDE DEF entries
  <2>1. IsFiniteSet(S) /\ permits' \in 0 .. MaxConcurrent /\ permits' + Cardinality(S) = MaxConcurrent
    BY <1>1, <1>7, PermitTaken
  <2> QED
    BY <1>6, <1>7, <2>1
<1>8. CASE /\ permits = 0 /\ UNCHANGED permits /\ pc' = [pc EXCEPT ![a] = "busy"]
           /\ Len(entries) < Limit /\ attempts' = [Pruned(a) EXCEPT ![s] = Append(entries, stamp[a])]
           /\ pushes' = [pushes EXCEPT ![s] = Append(@, now)]
  <2> HIDE DEF entries
  <2>1. IsFiniteSet(S) /\ permits' \in 0 .. MaxConcurrent /\ permits' + Cardinality(S) = MaxConcurrent
    <3>1. pc[a] # "admitted" /\ "busy" # "admitted"
      BY <1>1
    <3> QED
      BY <1>8, <3>1, PermitBack
  <2> QED
    BY <1>6, <1>8, <2>1
<1> QED
  BY <1>5, <1>7, <1>8 DEF Admit

LEMMA InvLeave ==
  ASSUME LimiterInv, NEW a \in Tasks, Leave(a)
  PROVE  LimiterInv'
<1> USE DEF Leave
<1>1. /\ IsFiniteSet({b \in Tasks : pc'[b] = "admitted"}) /\ permits' \in 0 .. MaxConcurrent
      /\ permits' + Cardinality({b \in Tasks : pc'[b] = "admitted"}) = MaxConcurrent
  <2>1. "idle" # "admitted"
    OBVIOUS
  <2> QED
    BY <2>1, PermitBack
<1>2. TypeOK'
  BY <1>1 DEF LimiterInv, TypeOK
<1>3. FiniteInv'
  BY <1>1 DEF LimiterInv, FiniteInv, Present
<1>4. StampInv'
  BY DEF LimiterInv, TypeOK, StampInv
<1>5. TableBounded'
  BY DEF LimiterInv, TableBounded, Present
<1> QED
  BY <1>2, <1>3, <1>4, <1>5 DEF LimiterInv

LEMMA InvTick ==
  ASSUME LimiterInv, Tick
  PROVE  LimiterInv'
<1>1. ASSUME NEW s \in Sources
      PROVE  /\ pushes'[s] \in Seq(Nat)
             /\ Aligned(attempts[s], pushes'[s], now + 1)
  <2> DEFINE p == pushes[s]
             c == now - Window - MaxStall
             e == PopStale(p, c)
  <2>1. p \in Seq(Nat) /\ attempts[s] \in Seq(Nat) /\ now \in Nat /\ Aligned(attempts[s], p, now)
    BY DEF LimiterInv, TypeOK
  <2>2. c \in Int /\ c <= now - Window - MaxStall
    BY <2>1, ConstantTypes
  <2>3. pushes'[s] = e
    BY DEF Tick, Recent
  <2> HIDE DEF p, c
  <2>4. PICK d \in 0 .. Len(p) : Drops(p, e, d, c)
    BY <2>1, <2>2, PopStaleDrops
  <2> HIDE DEF e
  <2>5. e \in Seq(Nat)
    BY <2>4 DEF Drops
  <2>6. Aligned(attempts[s], e, now)
    <3>1. now \in Int
      BY <2>1
    <3> QED
      BY <2>1, <2>2, <2>4, <3>1, DropHistory DEF c
  <2> QED
    BY <2>1, <2>3, <2>5, <2>6, Later
<1>2. pushes' \in [Sources -> Seq(Nat)]
  <2>1. pushes' = [s \in Sources |-> pushes'[s]]
    BY DEF Tick
  <2> QED
    BY <1>1, <2>1
<1>3. now' = now + 1 /\ now \in Nat /\ UNCHANGED <<attempts, permits, pc, src, stamp>>
  BY DEF Tick, LimiterInv, TypeOK
<1>4. TypeOK'
  BY <1>2, <1>3 DEF LimiterInv, TypeOK
<1>5. FiniteInv'
  BY <1>3 DEF LimiterInv, FiniteInv, Present
<1>6. StampInv'
  <2> SUFFICES ASSUME NEW a \in Tasks, pc[a] = "arrived"
               PROVE  src[a] \in Sources /\ stamp[a] <= now + 1 /\ now + 1 <= stamp[a] + MaxStall
    BY <1>3 DEF StampInv
  <2>1. src[a] \in Sources /\ stamp[a] \in Nat /\ stamp[a] <= now /\ now < stamp[a] + MaxStall
    BY DEF LimiterInv, TypeOK, StampInv, Tick
  <2> QED
    BY <1>3, <2>1, ConstantTypes
<1>7. TableBounded'
  BY <1>3 DEF LimiterInv, TableBounded, Present
<1> QED
  BY <1>1, <1>3, <1>4, <1>5, <1>6, <1>7 DEF LimiterInv

LEMMA InvStep == LimiterInv /\ [Next]_vars => LimiterInv'
<1> SUFFICES ASSUME LimiterInv, [Next]_vars PROVE LimiterInv'
  OBVIOUS
<1>1. ASSUME NEW a \in Tasks, NEW s \in Sources, Arrive(a, s) PROVE LimiterInv'
  BY <1>1, InvArrive
<1>2. ASSUME NEW a \in Tasks, AdmitFull(a) PROVE LimiterInv'
  BY <1>2, InvAdmitFull
<1>3. ASSUME NEW a \in Tasks, Admit(a) PROVE LimiterInv'
  BY <1>3, InvAdmit
<1>4. ASSUME NEW a \in Tasks, Leave(a) PROVE LimiterInv'
  BY <1>4, InvLeave
<1>5. CASE Tick
  BY <1>5, InvTick
<1>6. CASE UNCHANGED vars
  BY <1>6 DEF vars, LimiterInv, TypeOK, FiniteInv, StampInv, TableBounded, Present
<1> QED
  BY <1>1, <1>2, <1>3, <1>4, <1>5, <1>6 DEF Next

LEMMA LimiterInvariant == Spec => []LimiterInv
  BY InvInit, InvStep, PTL DEF Spec

-----------------------------------------------------------------------------
(* What the invariant shows.                                               *)

\* The attempts of the recent past are all in the queue, which is short.
LEMMA RecentInQueue ==
  ASSUME NEW q \in Seq(Nat), NEW p \in Seq(Nat), NEW t \in Nat, Aligned(q, p, t)
  PROVE  Cardinality({i \in 1 .. Len(p) : p[i] > t - (Window - MaxStall)}) <= Len(q)
<1> DEFINE S == {i \in 1 .. Len(p) : p[i] > t - (Window - MaxStall)}
           first == Len(p) - Len(q) + 1
           T == first .. Len(p)
<1>1. /\ Len(p) \in Nat /\ Len(q) \in Nat /\ Window \in Nat /\ MaxStall \in Nat
      /\ \A i \in 1 .. Len(p) : p[i] \in Nat
  BY ConstantTypes
<1>2. ASSUME NEW i \in S PROVE i \in T
  <2>1. i \in 1 .. Len(p) /\ p[i] \in Nat /\ p[i] > t - (Window - MaxStall)
    BY <1>1
  <2>2. i <= Len(p) - Len(q) => p[i] <= t - Window + MaxStall
    BY <2>1 DEF Aligned
  <2>3. ~(i <= Len(p) - Len(q))
    BY <1>1, <2>1, <2>2
  <2> QED
    BY <1>1, <2>1, <2>3
<1>3. first \in Int /\ IsFiniteSet(T) /\ Cardinality(T) = IF first > Len(p) THEN 0 ELSE Len(p) - first + 1
  <2>1. first \in Int
    BY <1>1
  <2>2. Len(p) \in Int
    BY <1>1
  <2> HIDE DEF first
  <2>3. IsFiniteSet(T)
    BY <2>1, <2>2, FS_Interval
  <2>4. Cardinality(T) = IF first > Len(p) THEN 0 ELSE Len(p) - first + 1
    BY <2>1, <2>2, FS_Interval
  <2> QED
    BY <2>1, <2>3, <2>4
<1>4. Cardinality(T) = Len(q)
  BY <1>1, <1>3
<1> HIDE DEF S, T
<1>5. Cardinality(S) <= Cardinality(T)
  BY <1>2, <1>3, FS_Subset
<1> QED
  BY <1>4, <1>5 DEF S

\* What is not below something fresh is fresh.
LEMMA Above ==
  ASSUME NEW t \in Nat, NEW w \in Nat, NEW m \in Nat, NEW a \in Nat, NEW b \in Nat, NEW x \in Nat,
         a > t - w - m, a <= b, b <= x
  PROVE  x > t - (w + m)
OBVIOUS

\* A queue with a fresh front is as long as a part of the history, all of it recent.
LEMMA QueueIsRecent ==
  ASSUME NEW q \in Seq(Nat), NEW p \in Seq(Nat), NEW t \in Nat, Aligned(q, p, t),
         Len(q) > 0, q[1] > t - Window - MaxStall
  PROVE  LET S == {i \in 1 .. Len(p) : p[i] > t - (Window + MaxStall)}
         IN  Len(q) <= Cardinality(S) /\ Cardinality(S) \in Nat
<1> DEFINE S == {i \in 1 .. Len(p) : p[i] > t - (Window + MaxStall)}
           first == Len(p) - Len(q) + 1
           T == first .. Len(p)
<1>1. /\ Len(p) \in Nat /\ Len(q) \in Nat /\ Window \in Nat /\ MaxStall \in Nat
      /\ \A i \in 1 .. Len(p) : p[i] \in Nat
      /\ 1 \in 1 .. Len(q) /\ q[1] \in Nat
  BY ConstantTypes
<1>2. Len(q) <= Len(p)
  <2>1. 1 <= Len(q) - Len(p) => q[1] <= t - Window - MaxStall
    BY <1>1 DEF Aligned
  <2> QED
    BY <1>1, <2>1
<1>3. first \in 1 .. Len(p) /\ Len(q) - 1 = Len(p) - first
  BY <1>1, <1>2
<1> HIDE DEF first
<1>4. q[1] <= p[first] /\ p[first] \in Nat
  BY <1>1, <1>3 DEF Aligned
<1>5. ASSUME NEW i \in T PROVE i \in S
  <2>1. i \in 1 .. Len(p) /\ first <= i
    BY <1>1, <1>3
  <2>2. p[first] <= p[i] /\ p[i] \in Nat
    BY <1>1, <1>3, <2>1 DEF Aligned
  <2>3. p[i] > t - (Window + MaxStall)
    BY <1>1, <1>4, <2>2, Above
  <2> QED
    BY <2>1, <2>3
<1>6. IsFiniteSet(S) /\ IsFiniteSet(1 .. Len(p))
  <2>1. IsFiniteSet(1 .. Len(p))
    BY <1>1, FS_Interval
  <2> QED
    BY <2>1, FS_Subset
<1>7. Cardinality(T) = IF first > Len(p) THEN 0 ELSE Len(p) - first + 1
  <2>1. first \in Int /\ Len(p) \in Int
    BY <1>1, <1>3
  <2> QED
    BY <2>1, FS_Interval
<1>8. Cardinality(T) = Len(q)
  <2>1. ~(first > Len(p)) /\ Len(p) - first + 1 = Len(q)
    BY <1>1, <1>3
  <2> QED
    BY <1>7, <2>1
<1> HIDE DEF S, T
<1>9. Cardinality(T) <= Cardinality(S) /\ Cardinality(S) \in Nat
  BY <1>5, <1>6, FS_Subset, FS_CardinalityType
<1> QED
  BY <1>8, <1>9 DEF S

\* The variables have their types in every reachable state, and every permit is with
\* the semaphore or with one admitted request: however requests end, none is lost.
THEOREM TypeCorrect == Spec => []TypeOK
<1>1. LimiterInv => TypeOK
  BY DEF LimiterInv
<1> QED
  BY <1>1, LimiterInvariant, PTL

\* The table of sources, pruned only when it is full, never outgrows its limit, nor
\* does the queue of a source.
THEOREM TableStaysBounded == Spec => []TableBounded
<1>1. LimiterInv => TableBounded
  BY DEF LimiterInv
<1> QED
  BY <1>1, LimiterInvariant, PTL

\* DeviceExchangeLimiter lets at most Limit attempts of a source through per window,
\* less the time a request may wait for the mutex with its timestamp read.
THEOREM RateLimited == Spec => []RateHolds
<1>1. LimiterInv => RateHolds
  <2> SUFFICES ASSUME LimiterInv, NEW s \in Sources
               PROVE  Counted(s, Window - MaxStall) <= Limit
    BY DEF RateHolds
  <2>1. /\ attempts[s] \in Seq(Nat) /\ pushes[s] \in Seq(Nat) /\ now \in Nat
        /\ Aligned(attempts[s], pushes[s], now)
    BY DEF LimiterInv, TypeOK
  <2>2. Len(attempts[s]) <= Limit
    BY DEF LimiterInv, TableBounded
  <2>3. Counted(s, Window - MaxStall) <= Len(attempts[s])
    BY <2>1, RecentInQueue DEF Counted
  <2>4. Counted(s, Window - MaxStall) \in Nat
    <3> DEFINE S == {i \in 1 .. Len(pushes[s]) : pushes[s][i] > now - (Window - MaxStall)}
    <3>1. IsFiniteSet(1 .. Len(pushes[s]))
      BY <2>1, FS_Interval
    <3>2. IsFiniteSet(S)
      BY <3>1, FS_Subset
    <3> HIDE DEF S
    <3>3. Cardinality(S) \in Nat
      BY <3>2, FS_CardinalityType
    <3> QED
      BY <3>3 DEF S, Counted
  <2> QED
    BY <2>1, <2>2, <2>3, <2>4, ConstantTypes
<1> QED
  BY <1>1, LimiterInvariant, PTL

\* A queue whose front is newer than the cutoff of a waiting request is as long as a
\* part of the history that counts for a refusal.
LEMMA FreshCounted ==
  ASSUME LimiterInv, NEW a \in Tasks, pc[a] = "arrived", NEW s \in Sources,
         NEW q \in Seq(Nat), Aligned(q, pushes[s], now), Len(q) > 0, q[1] > Cutoff(a)
  PROVE  /\ Len(q) <= Counted(s, Window + MaxStall)
         /\ Counted(s, Window + MaxStall) \in Nat
<1>1. now \in Nat /\ Cutoff(a) \in Int /\ Cutoff(a) >= now - Window - MaxStall
  BY CutoffType
<1>2. q[1] > now - Window - MaxStall
  <2>1. q[1] \in Nat
    BY ElementType
  <2> QED
    BY <1>1, <2>1, ConstantTypes
<1>3. pushes[s] \in Seq(Nat)
  BY DEF LimiterInv, TypeOK
<1> QED
  BY <1>1, <1>2, <1>3, QueueIsRecent DEF Counted

\* A source that is left when a full table was pruned made an attempt lately, and is not
\* the one that is refused.
LEMMA PrunedFresh ==
  ASSUME LimiterInv, NEW a \in Tasks, pc[a] = "arrived", TableFull(a),
         NEW s \in Present(Pruned(a))
  PROVE  s \in Sources \ {src[a]} /\ Counted(s, Window + MaxStall) > 0
<1> DEFINE q == PopStale(attempts[s], Cutoff(a))
<1>1. s \in Sources /\ Pruned(a)[s] = q /\ q # << >>
  BY DEF Present, Pruned
<1>2. s # src[a]
  <2>1. s \in Present(attempts)
    BY PruneSound
  <2> QED
    BY <2>1 DEF Present, TableFull
<1>3. /\ attempts[s] \in Seq(Nat) /\ pushes[s] \in Seq(Nat) /\ Aligned(attempts[s], pushes[s], now)
      /\ now \in Int /\ Cutoff(a) \in Int /\ Cutoff(a) <= now - Window
  BY <1>1, CutoffType DEF LimiterInv, TypeOK
<1>4. q \in Seq(Nat) /\ Aligned(q, pushes[s], now) /\ (Len(q) > 0 => q[1] > Cutoff(a))
  BY <1>3, PopStaleAligned
<1> HIDE DEF q
<1>5. Len(q) \in Nat /\ Len(q) > 0
  BY <1>1, <1>4
<1>6. Len(q) <= Counted(s, Window + MaxStall) /\ Counted(s, Window + MaxStall) \in Nat
  BY <1>1, <1>4, <1>5, FreshCounted
<1> QED
  BY <1>1, <1>2, <1>5, <1>6

\* A source is answered RateLimited only if it made Limit attempts in the last window,
\* or at most MaxStall before it, or if as many other sources as the table holds made one
\* in that time: stale entries behind a fresh one, sources that nobody has pruned and
\* requests that enter the table out of order never cost a source more than that.
THEOREM RefusalsJustified == Spec => RefusalJustified
<1> DEFINE Claim == \A a \in Tasks : pc[a] = "arrived" /\ pc'[a] = "limited" =>
                      \/ Counted(src[a], Window + MaxStall) >= Limit
                      \/ \E others \in SUBSET (Sources \ {src[a]}) :
                           /\ IsFiniteSet(others) /\ Cardinality(others) >= MaxSources
                           /\ \A s \in others : Counted(s, Window + MaxStall) > 0
<1>1. ASSUME LimiterInv, [Next]_vars PROVE Claim
  <2> SUFFICES ASSUME NEW a \in Tasks, pc[a] = "arrived", pc'[a] = "limited"
               PROVE  \/ Counted(src[a], Window + MaxStall) >= Limit
                      \/ \E others \in SUBSET (Sources \ {src[a]}) :
                           /\ IsFiniteSet(others) /\ Cardinality(others) >= MaxSources
                           /\ \A s \in others : Counted(s, Window + MaxStall) > 0
    OBVIOUS
  <2> DEFINE entries == PopStale(Pruned(a)[src[a]], Cutoff(a))
  <2>1. \/ Len(entries) >= Limit
        \/ TableFull(a) /\ Cardinality(Present(Pruned(a))) >= MaxSources
    <3>1. pc \in [Tasks -> {"idle", "arrived", "admitted", "limited", "busy"}]
      BY <1>1 DEF LimiterInv, TypeOK
    <3>2. ASSUME NEW b \in Tasks, NEW s \in Sources, Arrive(b, s) PROVE FALSE
      BY <3>1, <3>2 DEF Arrive
    <3>3. ASSUME NEW b \in Tasks, AdmitFull(b)
          PROVE  TableFull(a) /\ Cardinality(Present(Pruned(a))) >= MaxSources
      <4>1. b = a
        BY <3>1, <3>3 DEF AdmitFull
      <4> QED
        BY <3>3, <4>1 DEF AdmitFull
    <3>4. ASSUME NEW b \in Tasks, Admit(b) PROVE Len(entries) >= Limit
      <4>1. b = a
        BY <3>1, <3>4 DEF Admit
      <4> QED
        BY <3>1, <3>4, <4>1 DEF Admit
    <3>5. ASSUME NEW b \in Tasks, Leave(b) PROVE FALSE
      BY <3>1, <3>5 DEF Leave
    <3>6. ~Tick /\ ~UNCHANGED vars
      BY DEF Tick, vars
    <3> QED
      BY <1>1, <3>2, <3>3, <3>4, <3>5, <3>6 DEF Next
  <2>2. CASE Len(entries) >= Limit
    <3>1. src[a] \in Sources
      BY <1>1, CutoffType
    <3>2. /\ entries \in Seq(Nat) /\ Aligned(entries, pushes[src[a]], now)
          /\ Len(entries) > 0 => entries[1] > Cutoff(a)
      BY <1>1, EntriesSound
    <3> HIDE DEF entries
    <3>3. Len(entries) \in Nat /\ Len(entries) > 0
      BY <2>2, <3>2, ConstantTypes
    <3>4. /\ Len(entries) <= Counted(src[a], Window + MaxStall)
          /\ Counted(src[a], Window + MaxStall) \in Nat
      BY <1>1, <3>1, <3>2, <3>3, FreshCounted
    <3> QED
      BY <2>2, <3>3, <3>4, ConstantTypes
  <2>3. CASE TableFull(a) /\ Cardinality(Present(Pruned(a))) >= MaxSources
    <3> DEFINE others == Present(Pruned(a))
    <3>1. \A s \in others : s \in Sources \ {src[a]} /\ Counted(s, Window + MaxStall) > 0
      BY <1>1, <2>3, PrunedFresh
    <3>2. IsFiniteSet(others)
      <4>1. others \subseteq Present(attempts) /\ IsFiniteSet(Present(attempts))
        BY <1>1, PruneSound DEF LimiterInv, FiniteInv
      <4> QED
        BY <4>1, FS_Subset
    <3>3. Cardinality(others) >= MaxSources
      BY <2>3
    <3> HIDE DEF others
    <3>4. others \in SUBSET (Sources \ {src[a]})
      BY <3>1
    <3> QED
      BY <3>1, <3>2, <3>3, <3>4
  <2> QED
    BY <2>1, <2>2, <2>3
<1> QED
  BY <1>1, LimiterInvariant, PTL DEF Spec, RefusalJustified
=============================================================================
