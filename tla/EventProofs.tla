---------------------------- MODULE EventProofs ----------------------------
(***************************************************************************)
(* Proofs about MemoryEventStore, for every number of emitters, events,    *)
(* pages and every retention: what the store's loops select, that pruning  *)
(* loses nothing early, that pages are faithful, that statistics and       *)
(* queries agree.                                                          *)
(***************************************************************************)
EXTENDS MemoryEventStore, TLAPS, NaturalsInduction, WellFoundedInduction,
        FiniteSetTheorems, FunctionTheorems, SequenceTheorems

(***************************************************************************)
(* Induction over the rounds of a loop, for a set of rounds.               *)
(***************************************************************************)
LEMMA LeastOf ==
    ASSUME NEW A \in SUBSET Nat, A # {}
    PROVE  \E i \in A : \A j \in A : i <= j
<1>1. PICK i \in A : \A j \in A : ~ (<<j, i>> \in OpToRel(<, Nat))
    BY NatLessThanWellFounded, WFMin, Zenon
<1>2. \A j \in A : ~ (j < i)
    BY <1>1 DEF OpToRel
<1> QED BY <1>2

LEMMA Rounds ==
    ASSUME NEW n \in Nat, NEW A, 0 \in A, \A i \in 0 .. n - 1 : i \in A => i + 1 \in A
    PROVE  \A i \in 0 .. n : i \in A
<1> DEFINE B == {i \in 0 .. n : i \notin A}
<1> SUFFICES ASSUME B # {} PROVE FALSE
    OBVIOUS
<1>1. B \in SUBSET Nat
    OBVIOUS
<1>2. PICK k \in B : \A j \in B : k <= j
    BY <1>1, LeastOf
<1>3. k # 0 /\ k - 1 \in 0 .. n - 1
    BY <1>2
<1>4. k - 1 \notin A
    BY <1>2, <1>3
<1>5. k - 1 \in B
    BY <1>3, <1>4
<1> QED BY <1>2, <1>5

(***************************************************************************)
(* The loop.  Its recursive definition has a solution: one for i rounds    *)
(* gives one for i + 1.                                                    *)
(***************************************************************************)
Round(es, X, f, i) ==
    IF i = 0 THEN <<>> ELSE IF es[i] \in X THEN Append(f[i - 1], es[i]) ELSE f[i - 1]

LEMMA ScanIs ==
    ASSUME NEW E, NEW es \in Seq(E), NEW X
    PROVE  Scan(es, X) = [i \in 0 .. Len(es) |-> Round(es, X, Scan(es, X), i)]
<1> DEFINE n == Len(es)
           Solves(f, k) == f = [i \in 0 .. k |-> Round(es, X, f, i)]
           A == {k \in 0 .. n : \E f : Solves(f, k)}
<1>1. n \in Nat
    OBVIOUS
<1>2. 0 \in A
  <2>1. Solves([i \in 0 .. 0 |-> <<>>], 0)
    BY DEF Round
  <2> QED BY <1>1, <2>1
<1>3. ASSUME NEW k \in 0 .. n - 1, k \in A PROVE k + 1 \in A
  <2>1. PICK f : Solves(f, k)
    BY <1>3
  <2> DEFINE g == [i \in 0 .. k + 1 |-> IF i = k + 1 THEN Round(es, X, f, i) ELSE f[i]]
  <2>2. DOMAIN f = 0 .. k /\ \A i \in 0 .. k : f[i] = Round(es, X, f, i)
    BY <2>1
  <2>3. \A i \in 0 .. k + 1 : g[i] = Round(es, X, g, i)
    <3> SUFFICES ASSUME NEW i \in 0 .. k + 1 PROVE g[i] = Round(es, X, g, i)
      OBVIOUS
    <3>1. CASE i = 0
      BY <1>1, <2>2, <3>1 DEF Round
    <3>2. CASE i # 0
      <4>1. i - 1 \in 0 .. k /\ i - 1 # k + 1 /\ i - 1 \in 0 .. k + 1
        BY <1>1, <3>2
      <4>2. g[i - 1] = f[i - 1]
        BY <4>1
      <4>3. Round(es, X, g, i) = Round(es, X, f, i)
        BY <3>2, <4>2 DEF Round
      <4>4. g[i] = Round(es, X, f, i)
        BY <2>2
      <4> QED BY <4>3, <4>4
    <3> QED BY <3>1, <3>2
  <2>4. Solves(g, k + 1)
    <3> DEFINE h == [i \in 0 .. k + 1 |-> Round(es, X, g, i)]
    <3>1. DOMAIN g = DOMAIN h /\ \A i \in DOMAIN g : g[i] = h[i]
      BY <2>3
    <3>2. g = h
      <4> HIDE DEF g
      <4>1. g = [i \in DOMAIN g |-> g[i]]
        BY DEF g
      <4> QED BY <3>1, <4>1
    <3> QED BY <3>2
  <2>5. k + 1 \in 0 .. n
    BY <1>1
  <2> HIDE DEF g, Solves
  <2> QED BY <2>4, <2>5
<1>4. n \in A
  <2> HIDE DEF A
  <2>1. \A i \in 0 .. n : i \in A
    BY <1>1, <1>2, <1>3, Rounds
  <2> QED BY <1>1, <2>1
<1>5. \E f : f = [i \in 0 .. Len(es) |->
                    IF i = 0 THEN <<>>
                    ELSE IF es[i] \in X THEN Append(f[i - 1], es[i]) ELSE f[i - 1]]
    BY <1>4 DEF Round
<1> QED BY <1>5 DEF Scan, Round

(***************************************************************************)
(* f gives, for each element of r, its place in the first n of es: r is    *)
(* the elements of X among these, in their order.  The loop computes such  *)
(* an r, and there is only one.                                            *)
(***************************************************************************)
Picks(r, es, n, X, f) ==
    /\ f \in [1 .. Len(r) -> 1 .. n]
    /\ \A i, j \in 1 .. Len(r) : i < j => f[i] < f[j]
    /\ \A k \in 1 .. Len(r) : r[k] = es[f[k]]
    /\ \A i \in 1 .. n : es[i] \in X <=> \E k \in 1 .. Len(r) : f[k] = i

(* One more round. *)
LEMMA PicksMore ==
    ASSUME NEW E, NEW es, NEW r \in Seq(E), NEW n \in Nat, NEW X, NEW f, Picks(r, es, n, X, f),
           es[n + 1] \in X, es[n + 1] \in E
    PROVE  \E g : Picks(Append(r, es[n + 1]), es, n + 1, X, g)
<1> DEFINE m == Len(r)
           q == Append(r, es[n + 1])
           g == [k \in 1 .. m + 1 |-> IF k = m + 1 THEN n + 1 ELSE f[k]]
<1>1. /\ m \in Nat /\ Len(q) = m + 1 /\ q[m + 1] = es[n + 1]
      /\ \A k \in 1 .. m : q[k] = r[k]
    OBVIOUS
<1>2. \A k \in 1 .. m : f[k] \in 1 .. n
    BY DEF Picks
<1> HIDE DEF m, q
<1>3. /\ \A k \in 1 .. m : g[k] = f[k] /\ k \in 1 .. m + 1
      /\ g[m + 1] = n + 1
    BY <1>1
<1>4. g \in [1 .. m + 1 -> 1 .. n + 1]
    BY <1>1, <1>2
<1> HIDE DEF g
<1>5. \A i, j \in 1 .. m + 1 : i < j => g[i] < g[j]
  <2> SUFFICES ASSUME NEW i \in 1 .. m + 1, NEW j \in 1 .. m + 1, i < j PROVE g[i] < g[j]
    OBVIOUS
  <2>1. i \in 1 .. m
    BY <1>1
  <2>2. CASE j = m + 1
    BY <1>2, <1>3, <2>1, <2>2
  <2>3. CASE j # m + 1
    <3>1. j \in 1 .. m
      BY <1>1, <2>3
    <3> QED BY <1>3, <2>1, <3>1 DEF Picks, m
  <2> QED BY <2>2, <2>3
<1>6. \A k \in 1 .. m + 1 : q[k] = es[g[k]]
  <2> SUFFICES ASSUME NEW k \in 1 .. m + 1 PROVE q[k] = es[g[k]]
    OBVIOUS
  <2>1. CASE k = m + 1
    BY <1>1, <1>3, <2>1
  <2>2. CASE k # m + 1
    <3>1. k \in 1 .. m
      BY <1>1, <2>2
    <3> QED BY <1>1, <1>3, <3>1 DEF Picks, m
  <2> QED BY <2>1, <2>2
<1>7. \A i \in 1 .. n + 1 : es[i] \in X <=> \E k \in 1 .. m + 1 : g[k] = i
  <2> SUFFICES ASSUME NEW i \in 1 .. n + 1
               PROVE  es[i] \in X <=> \E k \in 1 .. m + 1 : g[k] = i
    OBVIOUS
  <2>1. CASE i = n + 1
    <3>1. m + 1 \in 1 .. m + 1
      BY <1>1
    <3> QED BY <1>3, <2>1, <3>1
  <2>2. CASE i # n + 1
    <3>1. i \in 1 .. n
      BY <2>2
    <3>2. es[i] \in X <=> \E k \in 1 .. m : f[k] = i
      BY <3>1 DEF Picks, m
    <3>3. (\E k \in 1 .. m : f[k] = i) => (\E k \in 1 .. m + 1 : g[k] = i)
      BY <1>3
    <3>4. ASSUME NEW k \in 1 .. m + 1, g[k] = i PROVE \E l \in 1 .. m : f[l] = i
      <4>1. k # m + 1
        BY <1>3, <2>2, <3>4
      <4>2. k \in 1 .. m
        BY <1>1, <4>1
      <4> QED BY <1>3, <3>4, <4>2
    <3> QED BY <3>2, <3>3, <3>4
  <2> QED BY <2>1, <2>2
<1>8. Picks(q, es, n + 1, X, g)
    BY <1>1, <1>4, <1>5, <1>6, <1>7 DEF Picks
<1> QED BY <1>8 DEF q

LEMMA PicksSame ==
    ASSUME NEW E, NEW es, NEW r \in Seq(E), NEW n \in Nat, NEW X, NEW f, Picks(r, es, n, X, f),
           es[n + 1] \notin X
    PROVE  Picks(r, es, n + 1, X, f)
<1>1. f \in [1 .. Len(r) -> 1 .. n + 1]
    BY DEF Picks
<1>2. \A k \in 1 .. Len(r) : f[k] \in 1 .. n
    BY DEF Picks
<1>3. \A i \in 1 .. n + 1 : es[i] \in X <=> \E k \in 1 .. Len(r) : f[k] = i
  <2> SUFFICES ASSUME NEW i \in 1 .. n + 1
               PROVE  es[i] \in X <=> \E k \in 1 .. Len(r) : f[k] = i
    OBVIOUS
  <2>1. CASE i = n + 1
    BY <1>2, <2>1
  <2>2. CASE i # n + 1
    <3>1. i \in 1 .. n
      BY <2>2
    <3> QED BY <3>1 DEF Picks
  <2> QED BY <2>1, <2>2
<1> QED BY <1>1, <1>3 DEF Picks

(* What a loop over es returns. *)
LEMMA FilterPicks ==
    ASSUME NEW E, NEW es \in Seq(E), NEW X
    PROVE  /\ Filter(es, X) \in Seq(E)
           /\ \E f : Picks(Filter(es, X), es, Len(es), X, f)
<1> DEFINE n == Len(es)
           K == Scan(es, X)
           A == {i \in 0 .. n : K[i] \in Seq(E) /\ \E f : Picks(K[i], es, i, X, f)}
<1>1. n \in Nat /\ \A i \in 1 .. n : es[i] \in E
    OBVIOUS
<1>2. \A i \in 0 .. n : K[i] = Round(es, X, K, i)
    BY ScanIs
<1> HIDE DEF K, n
<1>3. 0 \in A
  <2>1. 0 \in 0 .. n
    BY <1>1
  <2>2. K[0] = <<>>
    BY <1>2, <2>1 DEF Round
  <2>3. <<>> \in Seq(E) /\ Picks(<<>>, es, 0, X, <<>>)
    BY DEF Picks
  <2> QED BY <2>1, <2>2, <2>3
<1>4. ASSUME NEW i \in 0 .. n - 1, i \in A PROVE i + 1 \in A
  <2>1. i + 1 \in 0 .. n /\ i + 1 \in 1 .. n /\ i + 1 # 0 /\ i + 1 - 1 = i /\ i \in Nat
    BY <1>1
  <2>2. K[i + 1] = IF es[i + 1] \in X THEN Append(K[i], es[i + 1]) ELSE K[i]
    BY <1>2, <2>1 DEF Round
  <2>3. K[i] \in Seq(E) /\ es[i + 1] \in E
    BY <1>1, <1>4, <2>1
  <2>4. PICK f : Picks(K[i], es, i, X, f)
    BY <1>4
  <2>5. CASE es[i + 1] \in X
    <3>1. \E g : Picks(Append(K[i], es[i + 1]), es, i + 1, X, g)
      BY <2>1, <2>3, <2>4, <2>5, PicksMore
    <3>2. Append(K[i], es[i + 1]) \in Seq(E)
      BY <2>3
    <3> QED BY <2>1, <2>2, <2>5, <3>1, <3>2
  <2>6. CASE es[i + 1] \notin X
    <3>1. Picks(K[i], es, i + 1, X, f)
      BY <2>1, <2>3, <2>4, <2>6, PicksSame
    <3> QED BY <2>1, <2>2, <2>3, <2>6, <3>1
  <2> QED BY <2>5, <2>6
<1>5. n \in A
  <2> HIDE DEF A
  <2>1. \A i \in 0 .. n : i \in A
    BY <1>1, <1>3, <1>4, Rounds
  <2> QED BY <1>1, <2>1
<1> QED BY <1>5 DEF Filter, K, n

LEMMA SamePlaces ==
    ASSUME NEW E, NEW es, NEW r \in Seq(E), NEW q \in Seq(E), NEW n \in Nat, NEW X,
           NEW f, NEW g, Picks(r, es, n, X, f), Picks(q, es, n, X, g)
    PROVE  Len(r) <= Len(q) /\ \A k \in 1 .. Len(r) : f[k] = g[k]
<1> DEFINE m == Len(r)
           l == Len(q)
           A == {i \in 0 .. m : i <= l /\ \A k \in 1 .. i : f[k] = g[k]}
<1>1. m \in Nat /\ l \in Nat
    OBVIOUS
<1>2. /\ \A k \in 1 .. m : f[k] \in 1 .. n /\ es[f[k]] \in X
      /\ \A k \in 1 .. l : g[k] \in 1 .. n /\ es[g[k]] \in X
    BY DEF Picks
<1>3. /\ \A i \in 1 .. n : es[i] \in X => \E k \in 1 .. m : f[k] = i
      /\ \A i \in 1 .. n : es[i] \in X => \E k \in 1 .. l : g[k] = i
      /\ \A i, j \in 1 .. m : i < j => f[i] < f[j]
      /\ \A i, j \in 1 .. l : i < j => g[i] < g[j]
    BY DEF Picks
<1> HIDE DEF m, l
<1>4. 0 \in A
    BY <1>1
<1>5. ASSUME NEW i \in 0 .. m - 1, i \in A PROVE i + 1 \in A
  <2>1. i + 1 \in 1 .. m /\ i <= l /\ i \in Nat /\ \A k \in 1 .. i : f[k] = g[k]
    BY <1>1, <1>5
  <2>2. PICK a \in 1 .. l : g[a] = f[i + 1]
    BY <1>2, <1>3, <2>1
  <2>3. a >= i + 1
    <3> SUFFICES ASSUME a < i + 1 PROVE FALSE
      BY <1>1, <2>1
    <3>1. a \in 1 .. i /\ a \in 1 .. m
      BY <1>1, <2>1
    <3>2. f[a] = f[i + 1] /\ f[a] < f[i + 1] /\ f[a] \in Int
      BY <1>2, <1>3, <2>1, <2>2, <3>1
    <3> QED BY <3>2
  <2>4. i + 1 \in 1 .. l
    BY <1>1, <2>1, <2>3
  <2>5. PICK b \in 1 .. m : f[b] = g[i + 1]
    BY <1>2, <1>3, <2>4
  <2>6. b >= i + 1
    <3> SUFFICES ASSUME b < i + 1 PROVE FALSE
      BY <1>1, <2>1
    <3>1. b \in 1 .. i /\ b \in 1 .. l
      BY <1>1, <2>1
    <3>2. g[b] = g[i + 1] /\ g[b] < g[i + 1] /\ g[b] \in Int
      BY <1>2, <1>3, <2>1, <2>4, <2>5, <3>1
    <3> QED BY <3>2
  <2>7. f[i + 1] <= f[b] /\ g[i + 1] <= g[a]
    <3>1. /\ f[i + 1] \in Int /\ f[b] \in Int /\ g[i + 1] \in Int /\ g[a] \in Int
          /\ (b = i + 1 \/ b > i + 1) /\ (a = i + 1 \/ a > i + 1)
      BY <1>1, <1>2, <2>1, <2>3, <2>4, <2>6
    <3>2. f[i + 1] <= f[b]
      BY <1>3, <2>1, <3>1
    <3>3. g[i + 1] <= g[a]
      BY <1>3, <2>4, <3>1
    <3> QED BY <3>2, <3>3
  <2>8. f[i + 1] = g[i + 1]
    <3>1. f[i + 1] \in Int /\ g[i + 1] \in Int
      BY <1>2, <2>1, <2>4
    <3> QED BY <2>2, <2>5, <2>7, <3>1
  <2>9. \A k \in 1 .. i + 1 : f[k] = g[k]
    <3> SUFFICES ASSUME NEW k \in 1 .. i + 1 PROVE f[k] = g[k]
      OBVIOUS
    <3>1. CASE k = i + 1
      BY <2>8, <3>1
    <3>2. CASE k # i + 1
      <4>1. k \in 1 .. i
        BY <2>1, <3>2
      <4> QED BY <2>1, <4>1
    <3> QED BY <3>1, <3>2
  <2>10. i + 1 \in 0 .. m /\ i + 1 <= l
    BY <1>1, <2>1, <2>4
  <2> QED BY <2>9, <2>10
<1>6. m \in A
  <2> HIDE DEF A
  <2>1. \A i \in 0 .. m : i \in A
    BY <1>1, <1>4, <1>5, Rounds
  <2> QED BY <1>1, <2>1
<1> QED BY <1>6 DEF m, l

(* There is one such sequence. *)
LEMMA PicksUnique ==
    ASSUME NEW E, NEW es \in Seq(E), NEW r \in Seq(E), NEW X, NEW f,
           Picks(r, es, Len(es), X, f)
    PROVE  r = Filter(es, X)
<1> DEFINE q == Filter(es, X)
           n == Len(es)
<1>1. q \in Seq(E) /\ \E g : Picks(q, es, n, X, g)
    BY FilterPicks
<1>2. PICK g : Picks(q, es, n, X, g)
    BY <1>1
<1>3. n \in Nat /\ r \in Seq(E) /\ Picks(r, es, n, X, f)
    OBVIOUS
<1> HIDE DEF q, n
<1>4. Len(r) <= Len(q) /\ \A k \in 1 .. Len(r) : f[k] = g[k]
  <2>1. Len(r) <= Len(q)
    BY ONLY <1>1, <1>2, <1>3, SamePlaces
  <2>2. ASSUME NEW k \in 1 .. Len(r) PROVE f[k] = g[k]
    BY ONLY <1>1, <1>2, <1>3, SamePlaces, k \in 1 .. Len(r)
  <2> QED BY <2>1, <2>2
<1>5. Len(q) <= Len(r)
    BY ONLY <1>1, <1>2, <1>3, SamePlaces
<1>6. Len(r) = Len(q) /\ Len(r) \in Nat
    BY <1>1, <1>4, <1>5
<1>7. ASSUME NEW k \in 1 .. Len(r) PROVE r[k] = q[k]
  <2>1. r[k] = es[f[k]]
    BY <1>3 DEF Picks
  <2>2. q[k] = es[g[k]]
    BY <1>2, <1>6 DEF Picks
  <2> QED BY <1>4, <2>1, <2>2
<1>8. r = q
    BY <1>1, <1>6, <1>7, SeqEqual
<1> QED BY <1>8 DEF q

(***************************************************************************)
(* Subsequences.  Ups: f goes up from places of 1 .. m to places of        *)
(* 1 .. n; Places: f says where in es the elements of r come from.         *)
(***************************************************************************)
Ups(f, m, n) ==
    /\ f \in [1 .. m -> 1 .. n]
    /\ \A i, j \in 1 .. m : i < j => f[i] < f[j]

Places(r, es, f) ==
    /\ Ups(f, Len(r), Len(es))
    /\ \A k \in 1 .. Len(r) : r[k] = es[f[k]]

(* No place is lower than its rank. *)
LEMMA UpsAbove ==
    ASSUME NEW m \in Nat, NEW n \in Nat, NEW f, Ups(f, m, n)
    PROVE  m <= n /\ \A k \in 1 .. m : k <= f[k]
<1> DEFINE A == {k \in 0 .. m : k = 0 \/ k <= f[k]}
<1>1. /\ \A k \in 1 .. m : f[k] \in 1 .. n
      /\ \A i, j \in 1 .. m : i < j => f[i] < f[j]
    BY DEF Ups
<1>2. 0 \in A
    OBVIOUS
<1>3. ASSUME NEW i \in 0 .. m - 1, i \in A PROVE i + 1 \in A
  <2>1. i + 1 \in 1 .. m /\ f[i + 1] \in 1 .. n /\ i + 1 \in 0 .. m
    BY <1>1
  <2>2. CASE i = 0
    BY <2>1, <2>2
  <2>3. CASE i # 0
    <3>1. i \in 1 .. m /\ i < i + 1 /\ f[i] \in 1 .. n /\ i <= f[i]
      BY <1>1, <1>3, <2>3
    <3>2. f[i] < f[i + 1]
      BY <1>1, <2>1, <3>1
    <3>3. i + 1 <= f[i + 1]
      BY <2>1, <3>1, <3>2
    <3> QED BY <2>1, <3>3
  <2> QED BY <2>2, <2>3
<1>4. \A i \in 0 .. m : i \in A
  <2> HIDE DEF A
  <2> QED BY <1>2, <1>3, Rounds
<1>5. \A k \in 1 .. m : k <= f[k]
    BY <1>4
<1>6. m <= n
  <2>1. CASE m = 0
    BY <2>1
  <2>2. CASE m # 0
    <3>1. m \in 1 .. m /\ f[m] \in 1 .. n /\ m <= f[m]
      BY <1>1, <1>5, <2>2
    <3> QED BY <3>1
  <2> QED BY <2>1, <2>2
<1> QED BY <1>5, <1>6

(* As many as there are: every place is its rank. *)
LEMMA UpsAll ==
    ASSUME NEW n \in Nat, NEW f, Ups(f, n, n)
    PROVE  \A k \in 1 .. n : f[k] = k
<1> DEFINE A == {j \in 0 .. n : j = n \/ f[n - j] <= n - j}
<1>1. /\ \A k \in 1 .. n : f[k] \in 1 .. n /\ k <= f[k]
      /\ \A i, j \in 1 .. n : i < j => f[i] < f[j]
  <2>1. \A k \in 1 .. n : k <= f[k]
    BY UpsAbove
  <2> QED BY <2>1 DEF Ups
<1>2. 0 \in A
  <2>1. CASE n = 0
    BY <2>1
  <2>2. CASE n # 0
    <3>1. n - 0 = n /\ n \in 1 .. n /\ f[n] \in 1 .. n
      BY <1>1, <2>2
    <3> QED BY <3>1
  <2> QED BY <2>1, <2>2
<1>3. ASSUME NEW j \in 0 .. n - 1, j \in A PROVE j + 1 \in A
  <2>1. CASE j + 1 = n
    BY <2>1
  <2>2. CASE j + 1 # n
    <3>1. /\ n - j \in 1 .. n /\ n - (j + 1) \in 1 .. n /\ n - (j + 1) < n - j
          /\ j # n /\ j + 1 \in 0 .. n
      BY <2>2
    <3>2. /\ f[n - (j + 1)] < f[n - j] /\ f[n - j] <= n - j
          /\ f[n - (j + 1)] \in Int /\ f[n - j] \in Int
      BY <1>1, <1>3, <3>1
    <3>3. f[n - (j + 1)] <= n - (j + 1)
      BY <3>2
    <3> QED BY <3>1, <3>3
  <2> QED BY <2>1, <2>2
<1>4. \A i \in 0 .. n : i \in A
  <2> HIDE DEF A
  <2> QED BY <1>2, <1>3, Rounds
<1>5. ASSUME NEW k \in 1 .. n PROVE f[k] = k
  <2>1. n - k \in 0 .. n /\ n - k # n /\ n - (n - k) = k
    OBVIOUS
  <2>2. f[k] <= k
    BY <1>4, <2>1
  <2> QED BY <1>1, <2>2
<1> QED BY <1>5

LEMMA UpsCompose ==
    ASSUME NEW l \in Nat, NEW m \in Nat, NEW n \in Nat, NEW f, NEW g,
           Ups(f, l, m), Ups(g, m, n)
    PROVE  Ups([k \in 1 .. l |-> g[f[k]]], l, n)
<1>1. /\ \A k \in 1 .. l : f[k] \in 1 .. m
      /\ \A k \in 1 .. m : g[k] \in 1 .. n
      /\ \A i, j \in 1 .. l : i < j => f[i] < f[j]
      /\ \A i, j \in 1 .. m : i < j => g[i] < g[j]
    BY DEF Ups
<1> QED BY <1>1 DEF Ups

(* A subsequence of a subsequence. *)
LEMMA PlacesCompose ==
    ASSUME NEW E, NEW r \in Seq(E), NEW es \in Seq(E), NEW q \in Seq(E),
           NEW f, NEW g, Places(r, es, f), Places(es, q, g)
    PROVE  Places(r, q, [k \in 1 .. Len(r) |-> g[f[k]]])
<1>1. Len(r) \in Nat /\ Len(es) \in Nat /\ Len(q) \in Nat
    OBVIOUS
<1>2. Ups([k \in 1 .. Len(r) |-> g[f[k]]], Len(r), Len(q))
    BY <1>1, UpsCompose DEF Places
<1>3. \A k \in 1 .. Len(r) : f[k] \in 1 .. Len(es)
    BY DEF Places, Ups
<1>4. \A k \in 1 .. Len(r) : r[k] = q[g[f[k]]]
    BY <1>3 DEF Places
<1> QED BY <1>2, <1>4 DEF Places

(* A subsequence is no longer; one as long is the whole. *)
LEMMA PlacesFull ==
    ASSUME NEW E, NEW r \in Seq(E), NEW es \in Seq(E), NEW f, Places(r, es, f)
    PROVE  Len(r) <= Len(es) /\ (Len(r) = Len(es) => r = es)
<1>1. Len(r) \in Nat /\ Len(es) \in Nat /\ Ups(f, Len(r), Len(es))
    BY DEF Places
<1>2. Len(r) <= Len(es)
    BY ONLY <1>1, UpsAbove
<1>3. ASSUME Len(r) = Len(es) PROVE r = es
  <2>1. \A k \in 1 .. Len(r) : f[k] = k
    BY ONLY <1>1, <1>3, UpsAll
  <2>2. \A k \in 1 .. Len(r) : r[k] = es[k]
    BY <2>1 DEF Places
  <2> QED BY <1>3, <2>2, SeqEqual
<1> QED BY <1>2, <1>3

(* What a loop returns is a subsequence. *)
LEMMA FilterPlaces ==
    ASSUME NEW E, NEW es \in Seq(E), NEW X
    PROVE  /\ Filter(es, X) \in Seq(E)
           /\ \A k \in 1 .. Len(Filter(es, X)) : Filter(es, X)[k] \in X
           /\ \E f : Picks(Filter(es, X), es, Len(es), X, f)
                     /\ Places(Filter(es, X), es, f)
<1> DEFINE r == Filter(es, X)
           n == Len(es)
<1>1. r \in Seq(E) /\ \E f : Picks(r, es, n, X, f)
    BY FilterPicks
<1>2. PICK f : Picks(r, es, n, X, f)
    BY <1>1
<1> HIDE DEF r
<1>3. Places(r, es, f)
    BY <1>2 DEF Picks, Places, Ups
<1>4. ASSUME NEW k \in 1 .. Len(r) PROVE r[k] \in X
  <2>1. f[k] \in 1 .. n /\ r[k] = es[f[k]]
    BY <1>2 DEF Picks
  <2>2. es[f[k]] \in X
    BY <1>2, <2>1 DEF Picks
  <2> QED BY <2>1, <2>2
<1> QED BY <1>1, <1>2, <1>3, <1>4 DEF r

(* The loop over one more event. *)
LEMMA FilterAppend ==
    ASSUME NEW E, NEW es \in Seq(E), NEW e \in E, NEW X
    PROVE  Filter(Append(es, e), X) =
               IF e \in X THEN Append(Filter(es, X), e) ELSE Filter(es, X)
<1> DEFINE r == Filter(es, X)
           n == Len(es)
           q == Append(es, e)
<1>1. r \in Seq(E) /\ \E f : Picks(r, es, n, X, f)
    BY FilterPicks
<1>2. PICK f : Picks(r, es, n, X, f)
    BY <1>1
<1>3. /\ n \in Nat /\ q \in Seq(E) /\ Len(q) = n + 1 /\ q[n + 1] = e
      /\ \A i \in 1 .. n : q[i] = es[i]
    OBVIOUS
<1> HIDE DEF r, q, n
<1>4. Picks(r, q, n, X, f)
    BY <1>2, <1>3 DEF Picks
<1>5. CASE e \in X
  <2>1. PICK g : Picks(Append(r, e), q, n + 1, X, g)
    BY <1>1, <1>3, <1>4, <1>5, PicksMore
  <2>2. Append(r, e) \in Seq(E)
    BY <1>1
  <2>3. Append(r, e) = Filter(q, X)
    BY ONLY <1>3, <2>1, <2>2, PicksUnique
  <2> QED BY <1>5, <2>3 DEF q, r
<1>6. CASE e \notin X
  <2>1. Picks(r, q, n + 1, X, f)
    BY <1>1, <1>3, <1>4, <1>6, PicksSame
  <2>2. r = Filter(q, X)
    BY ONLY <1>1, <1>3, <2>1, PicksUnique
  <2> QED BY <1>6, <2>2 DEF q, r
<1> QED BY <1>5, <1>6

(* A subsequence of es whose elements are in X is one of what the loop     *)
(* selects.                                                                *)
LEMMA PlacesInto ==
    ASSUME NEW E, NEW es \in Seq(E), NEW r \in Seq(E), NEW X, NEW f, Places(r, es, f),
           \A k \in 1 .. Len(r) : r[k] \in X
    PROVE  \E d : Places(r, Filter(es, X), d)
<1> DEFINE s == Filter(es, X)
           n == Len(es)
<1>1. s \in Seq(E) /\ \E a : Picks(s, es, n, X, a)
    BY FilterPicks
<1>2. PICK a : Picks(s, es, n, X, a)
    BY <1>1
<1>3. n \in Nat /\ Len(s) \in Nat /\ Len(r) \in Nat
    BY <1>1
<1> HIDE DEF s
<1>4. /\ \A k \in 1 .. Len(s) : a[k] \in 1 .. n /\ s[k] = es[a[k]]
      /\ \A i, j \in 1 .. Len(s) : i < j => a[i] < a[j]
      /\ \A i \in 1 .. n : es[i] \in X => \E k \in 1 .. Len(s) : a[k] = i
    BY <1>2 DEF Picks
<1>5. /\ \A k \in 1 .. Len(r) : f[k] \in 1 .. n /\ r[k] = es[f[k]]
      /\ \A i, j \in 1 .. Len(r) : i < j => f[i] < f[j]
    BY DEF Places, Ups
<1> DEFINE d == [k \in 1 .. Len(r) |-> CHOOSE j \in 1 .. Len(s) : a[j] = f[k]]
<1>6. ASSUME NEW k \in 1 .. Len(r) PROVE d[k] \in 1 .. Len(s) /\ a[d[k]] = f[k]
  <2>1. \E j \in 1 .. Len(s) : a[j] = f[k]
    BY <1>4, <1>5
  <2> QED BY <2>1
<1>7. d \in [1 .. Len(r) -> 1 .. Len(s)]
    BY <1>6
<1> HIDE DEF d, n
<1>8. ASSUME NEW i \in 1 .. Len(r), NEW j \in 1 .. Len(r), i < j PROVE d[i] < d[j]
  <2> SUFFICES ASSUME d[j] <= d[i] PROVE FALSE
    BY <1>3, <1>6
  <2>1. a[d[i]] < a[d[j]] /\ a[d[i]] \in Int /\ a[d[j]] \in Int
    BY <1>3, <1>4, <1>5, <1>6, <1>8
  <2>2. d[i] \in 1 .. Len(s) /\ d[j] \in 1 .. Len(s) /\ (d[j] = d[i] \/ d[j] < d[i])
    BY <1>3, <1>6
  <2>3. a[d[j]] <= a[d[i]]
    BY <1>4, <2>1, <2>2
  <2> QED BY <2>1, <2>3
<1>9. \A k \in 1 .. Len(r) : r[k] = s[d[k]]
    BY <1>4, <1>5, <1>6
<1>10. Places(r, s, d)
    BY <1>7, <1>8, <1>9 DEF Places, Ups
<1> QED BY <1>10 DEF s

(***************************************************************************)
(* Events carry distinct ids: a subsequence of the log is determined by    *)
(* the ids in it.                                                          *)
(***************************************************************************)
Distinct(es) == \A i, j \in 1 .. Len(es) : es[i].id = es[j].id => i = j

LEMMA ById ==
    ASSUME NEW es \in Seq(Event), NEW r \in Seq(Event), NEW f, Distinct(es), Places(r, es, f)
    PROVE  r = Filter(es, {e \in Event : e.id \in Ids(r)})
<1> DEFINE X == {e \in Event : e.id \in Ids(r)}
<1>1. /\ \A k \in 1 .. Len(r) : f[k] \in 1 .. Len(es) /\ r[k] = es[f[k]]
      /\ \A i \in 1 .. Len(es) : es[i] \in Event
    BY DEF Places, Ups
<1>2. Ids(r) = {r[k].id : k \in 1 .. Len(r)}
    BY DEF Ids
<1>3. ASSUME NEW i \in 1 .. Len(es)
      PROVE  es[i] \in X <=> \E k \in 1 .. Len(r) : f[k] = i
  <2>1. ASSUME es[i] \in X PROVE \E k \in 1 .. Len(r) : f[k] = i
    <3>1. PICK k \in 1 .. Len(r) : es[i].id = r[k].id
      BY <1>2, <2>1
    <3>2. f[k] = i
      BY <1>1, <3>1 DEF Distinct
    <3> QED BY <3>2
  <2>2. ASSUME NEW k \in 1 .. Len(r), f[k] = i PROVE es[i] \in X
    BY <1>1, <1>2, <2>2
  <2> QED BY <2>1, <2>2
<1>4. Picks(r, es, Len(es), X, f)
    BY <1>3 DEF Picks, Places, Ups
<1> HIDE DEF X
<1>5. r = Filter(es, X)
    BY <1>4, PicksUnique
<1> QED BY <1>5 DEF X

(***************************************************************************)
(* What the store holds, of the log: a subsequence, and what is missing is *)
(* older than the retention.                                               *)
(***************************************************************************)
Over(e, now) == Retention > 0 /\ e.at + Retention <= now

StoredOf(ev, lg, now) ==
    \E f : /\ Places(ev, lg, f)
           /\ \A i \in 1 .. Len(lg) :
                  (\A k \in 1 .. Len(ev) : f[k] # i) => Over(lg[i], now)

(* One more event at the end of both. *)
LEMMA PlacesAppend ==
    ASSUME NEW E, NEW r \in Seq(E), NEW es \in Seq(E), NEW e \in E, NEW f, Places(r, es, f)
    PROVE  Places(Append(r, e), Append(es, e),
                  [k \in 1 .. Len(r) + 1 |-> IF k = Len(r) + 1 THEN Len(es) + 1 ELSE f[k]])
<1> DEFINE m == Len(r)
           n == Len(es)
           q == Append(r, e)
           s == Append(es, e)
           g == [k \in 1 .. m + 1 |-> IF k = m + 1 THEN n + 1 ELSE f[k]]
<1>1. /\ m \in Nat /\ n \in Nat /\ Len(q) = m + 1 /\ Len(s) = n + 1
      /\ q[m + 1] = e /\ s[n + 1] = e
      /\ \A k \in 1 .. m : q[k] = r[k]
      /\ \A k \in 1 .. n : s[k] = es[k]
    OBVIOUS
<1>2. /\ \A k \in 1 .. m : f[k] \in 1 .. n /\ r[k] = es[f[k]]
      /\ \A i, j \in 1 .. m : i < j => f[i] < f[j]
    BY DEF Places, Ups
<1> HIDE DEF m, n, q, s
<1>3. /\ \A k \in 1 .. m : g[k] = f[k] /\ k \in 1 .. m + 1
      /\ g[m + 1] = n + 1 /\ g \in [1 .. m + 1 -> 1 .. n + 1]
    BY <1>1, <1>2
<1> HIDE DEF g
<1>4. \A k \in 1 .. m + 1 : k = m + 1 \/ k \in 1 .. m
    BY <1>1
<1>5. \A i, j \in 1 .. m + 1 : i < j => g[i] < g[j]
  <2> SUFFICES ASSUME NEW i \in 1 .. m + 1, NEW j \in 1 .. m + 1, i < j PROVE g[i] < g[j]
    OBVIOUS
  <2>1. i \in 1 .. m
    BY <1>1
  <2>2. CASE j = m + 1
    BY <1>1, <1>2, <1>3, <2>1, <2>2
  <2>3. CASE j \in 1 .. m
    BY <1>2, <1>3, <2>1, <2>3
  <2> QED BY <1>4, <2>2, <2>3
<1>6. \A k \in 1 .. m + 1 : q[k] = s[g[k]]
    BY <1>1, <1>2, <1>3, <1>4, SMTT(30)
<1>7. Places(q, s, g)
    BY <1>1, <1>3, <1>5, <1>6 DEF Places, Ups
<1> QED BY <1>7 DEF q, s, g, m, n

LEMMA StoredAppend ==
    ASSUME NEW ev \in Seq(Event), NEW lg \in Seq(Event), NEW e \in Event, NEW now,
           StoredOf(ev, lg, now)
    PROVE  StoredOf(Append(ev, e), Append(lg, e), now)
<1> DEFINE m == Len(ev)
           n == Len(lg)
           q == Append(ev, e)
           s == Append(lg, e)
<1>1. PICK f : /\ Places(ev, lg, f)
               /\ \A i \in 1 .. n : (\A k \in 1 .. m : f[k] # i) => Over(lg[i], now)
    BY DEF StoredOf
<1> DEFINE g == [k \in 1 .. m + 1 |-> IF k = m + 1 THEN n + 1 ELSE f[k]]
<1>2. Places(q, s, g)
    BY <1>1, PlacesAppend
<1>3. /\ m \in Nat /\ n \in Nat /\ Len(q) = m + 1 /\ Len(s) = n + 1
      /\ \A k \in 1 .. n : s[k] = lg[k]
      /\ m + 1 \in 1 .. m + 1
    OBVIOUS
<1> HIDE DEF m, n, q, s
<1>4. \A k \in 1 .. m : g[k] = f[k] /\ k \in 1 .. m + 1
    BY <1>3
<1>5. g[m + 1] = n + 1
    BY <1>3
<1> HIDE DEF g
<1>6. ASSUME NEW i \in 1 .. n + 1, \A k \in 1 .. m + 1 : g[k] # i PROVE Over(s[i], now)
  <2>1. i # n + 1
    BY <1>3, <1>5, <1>6
  <2>2. i \in 1 .. n
    BY <1>3, <2>1
  <2>3. \A k \in 1 .. m : f[k] # i
    BY <1>4, <1>6
  <2> QED BY <1>1, <1>3, <2>2, <2>3
<1>7. StoredOf(q, s, now)
    BY <1>2, <1>3, <1>6 DEF StoredOf
<1> QED BY <1>7 DEF q, s

LEMMA EventFields ==
    ASSUME NEW e \in Event
    PROVE  e.at \in 0 .. MaxTime /\ e.id \in 1 .. MaxEvents /\ e.session \in SessionIDs
BY EventBoundsAssumption DEF Event

LEMMA StoredLater ==
    ASSUME NEW ev, NEW lg \in Seq(Event), NEW now \in Int, NEW then \in Int, now <= then,
           StoredOf(ev, lg, now)
    PROVE  StoredOf(ev, lg, then)
<1>1. \A i \in 1 .. Len(lg) : lg[i].at \in Int
    BY EventBoundsAssumption, EventFields
<1>2. \A i \in 1 .. Len(lg) : Over(lg[i], now) => Over(lg[i], then)
    BY <1>1, EventBoundsAssumption DEF Over
<1> QED BY <1>2 DEF StoredOf

(* The pruner's loop. *)
LEMMA StoredPrune ==
    ASSUME NEW ev \in Seq(Event), NEW lg \in Seq(Event), NEW now \in Int, Retention > 0,
           StoredOf(ev, lg, now)
    PROVE  StoredOf(Filter(ev, {e \in Event : e.at > now - Retention}), lg, now)
<1> DEFINE U == {e \in Event : e.at > now - Retention}
           r == Filter(ev, U)
<1>1. PICK f : /\ Places(ev, lg, f)
               /\ \A i \in 1 .. Len(lg) :
                      (\A k \in 1 .. Len(ev) : f[k] # i) => Over(lg[i], now)
    BY DEF StoredOf
<1>2. r \in Seq(Event) /\ \E h : Picks(r, ev, Len(ev), U, h) /\ Places(r, ev, h)
  <2> HIDE DEF U
  <2> QED BY FilterPlaces
<1>3. PICK h : Picks(r, ev, Len(ev), U, h) /\ Places(r, ev, h)
    BY <1>2
<1> HIDE DEF r
<1> DEFINE g == [k \in 1 .. Len(r) |-> f[h[k]]]
<1>4. Places(r, lg, g)
    BY <1>1, <1>2, <1>3, PlacesCompose
<1>5. ASSUME NEW i \in 1 .. Len(lg), \A k \in 1 .. Len(r) : g[k] # i
      PROVE  Over(lg[i], now)
  <2>1. CASE \A k \in 1 .. Len(ev) : f[k] # i
    BY <1>1, <2>1
  <2>2. CASE \E k \in 1 .. Len(ev) : f[k] = i
    <3>1. PICK k \in 1 .. Len(ev) : f[k] = i
      BY <2>2
    <3>2. \A j \in 1 .. Len(r) : h[j] # k
      BY <1>5, <3>1
    <3>3. ev[k] \notin U
      BY <1>3, <3>2 DEF Picks
    <3>4. ev[k] = lg[i] /\ ev[k] \in Event /\ ev[k].at \in Int
      <4>1. ev[k] = lg[i] /\ ev[k] \in Event
        BY <1>1, <3>1 DEF Places
      <4> QED BY <4>1, EventBoundsAssumption, EventFields
    <3>5. ~ (ev[k].at > now - Retention)
      BY <3>3, <3>4
    <3> QED BY <3>4, <3>5, EventBoundsAssumption DEF Over
  <2> QED BY <2>1, <2>2
<1>6. StoredOf(r, lg, now)
  <2> HIDE DEF g
  <2> QED BY <1>4, <1>5 DEF StoredOf
<1> QED BY <1>6 DEF r

(***************************************************************************)
(* What a client that pages through a session has got: events it wants, a  *)
(* subsequence of the log.  The store may have lost events it wanted, so   *)
(* the k-th event it would find now comes no earlier in the log than the   *)
(* k-th it got: the next page begins after everything it has.              *)
(***************************************************************************)
Wanted(s, f) == {e \in Event : e.session = s /\ matchesFilter(e, f)}

GotOf(ev, lg, got, W) ==
    \E c, g : /\ Places(Filter(ev, W), lg, c)
              /\ Places(got, lg, g)
              /\ \A k \in 1 .. Len(got) : k <= Len(Filter(ev, W)) => g[k] <= c[k]

(* A subsequence of the log is one of the longer log. *)
LEMMA PlacesLonger ==
    ASSUME NEW E, NEW r \in Seq(E), NEW es \in Seq(E), NEW e \in E, NEW f, Places(r, es, f)
    PROVE  Places(r, Append(es, e), f)
<1>1. /\ Len(Append(es, e)) = Len(es) + 1 /\ Len(es) \in Nat
      /\ \A k \in 1 .. Len(es) : Append(es, e)[k] = es[k] /\ k \in 1 .. Len(es) + 1
    OBVIOUS
<1>2. \A k \in 1 .. Len(r) : f[k] \in 1 .. Len(es)
    BY DEF Places, Ups
<1>3. f \in [1 .. Len(r) -> 1 .. Len(es) + 1]
    BY <1>1, <1>2 DEF Places, Ups
<1> QED BY <1>1, <1>2, <1>3 DEF Places, Ups

LEMMA GotAppend ==
    ASSUME NEW ev \in Seq(Event), NEW lg \in Seq(Event), NEW got \in Seq(Event), NEW W,
           NEW e \in Event, GotOf(ev, lg, got, W)
    PROVE  GotOf(Append(ev, e), Append(lg, e), got, W)
<1> DEFINE r == Filter(ev, W)
           q == Filter(Append(ev, e), W)
           s == Append(lg, e)
<1>1. PICK c, g : /\ Places(r, lg, c)
                  /\ Places(got, lg, g)
                  /\ \A k \in 1 .. Len(got) : k <= Len(r) => g[k] <= c[k]
    BY DEF GotOf
<1>2. r \in Seq(Event) /\ q = IF e \in W THEN Append(r, e) ELSE r
    BY FilterPlaces, FilterAppend
<1> HIDE DEF r, q
<1>3. Places(got, s, g)
    BY <1>1, PlacesLonger
<1>4. CASE e \notin W
  <2>1. Places(r, s, c)
    BY <1>1, <1>2, PlacesLonger
  <2>2. q = r
    BY <1>2, <1>4
  <2>3. \E a, b : /\ Places(q, s, a)
                  /\ Places(got, s, b)
                  /\ \A k \in 1 .. Len(got) : k <= Len(q) => b[k] <= a[k]
    BY <1>1, <1>3, <2>1, <2>2
  <2> QED BY <2>3 DEF GotOf, q
<1>5. CASE e \in W
  <2> DEFINE m == Len(r)
             n == Len(lg)
             a == [k \in 1 .. m + 1 |-> IF k = m + 1 THEN n + 1 ELSE c[k]]
  <2>1. q = Append(r, e) /\ Places(q, s, a)
    BY <1>1, <1>2, <1>5, PlacesAppend
  <2>2. m \in Nat /\ n \in Nat /\ Len(q) = m + 1
    BY <1>2, <2>1
  <2>3. \A k \in 1 .. Len(got) : g[k] \in 1 .. n
    BY <1>1 DEF Places, Ups
  <2> HIDE DEF m, n
  <2>4. ASSUME NEW k \in 1 .. Len(got), k <= Len(q) PROVE g[k] <= a[k]
    <3>1. k \in 1 .. m + 1 /\ (k = m + 1 \/ k <= m) /\ g[k] \in 1 .. n
      BY <2>2, <2>3, <2>4
    <3>2. CASE k = m + 1
      BY <2>2, <3>1, <3>2
    <3>3. CASE k <= m
      <4>1. a[k] = c[k]
        BY <2>2, <3>1, <3>3
      <4> QED BY <1>1, <3>3, <4>1 DEF m
    <3> QED BY <3>1, <3>2, <3>3
  <2> HIDE DEF a
  <2>5. \E x, b : /\ Places(q, s, x)
                  /\ Places(got, s, b)
                  /\ \A k \in 1 .. Len(got) : k <= Len(q) => b[k] <= x[k]
    BY <1>3, <2>1, <2>4
  <2> QED BY <2>5 DEF GotOf, q
<1> QED BY <1>4, <1>5

LEMMA GotPrune ==
    ASSUME NEW ev \in Seq(Event), NEW lg \in Seq(Event), NEW got \in Seq(Event), NEW W,
           NEW U, GotOf(ev, lg, got, W)
    PROVE  GotOf(Filter(ev, U), lg, got, W)
<1> DEFINE r == Filter(ev, W)
           p == Filter(ev, U)
           q == Filter(p, W)
<1>1. PICK c, g : /\ Places(r, lg, c)
                  /\ Places(got, lg, g)
                  /\ \A k \in 1 .. Len(got) : k <= Len(r) => g[k] <= c[k]
    BY DEF GotOf
<1>2. p \in Seq(Event) /\ \E h : Places(p, ev, h)
    BY FilterPlaces
<1>3. /\ q \in Seq(Event) /\ \A k \in 1 .. Len(q) : q[k] \in W
      /\ \E b : Places(q, p, b)
  <2> HIDE DEF p
  <2> QED BY <1>2, FilterPlaces
<1>4. r \in Seq(Event)
    BY FilterPlaces
<1>5. PICK h : Places(p, ev, h)
    BY <1>2
<1>6. PICK b : Places(q, p, b)
    BY <1>3
<1> HIDE DEF p, q
<1>7. \E w : Places(q, ev, w)
    BY <1>2, <1>3, <1>5, <1>6, PlacesCompose
<1>8. PICK d : Places(q, r, d)
    BY <1>3, <1>7, PlacesInto
<1> HIDE DEF r
<1> DEFINE a == [k \in 1 .. Len(q) |-> c[d[k]]]
<1>9. Places(q, lg, a)
    BY <1>1, <1>3, <1>4, <1>8, PlacesCompose
<1>10. Len(q) \in Nat /\ Len(r) \in Nat /\ Len(lg) \in Nat /\ Len(got) \in Nat
    BY <1>3, <1>4
<1>11. Ups(d, Len(q), Len(r)) /\ Ups(c, Len(r), Len(lg)) /\ Ups(g, Len(got), Len(lg))
    BY <1>1, <1>8 DEF Places
<1>12. Len(q) <= Len(r) /\ \A k \in 1 .. Len(q) : k <= d[k]
    BY ONLY <1>10, <1>11, UpsAbove
<1>13. ASSUME NEW k \in 1 .. Len(got), k <= Len(q) PROVE g[k] <= a[k]
  <2>1. /\ k \in 1 .. Len(q) /\ k \in 1 .. Len(r) /\ d[k] \in 1 .. Len(r)
        /\ (k = d[k] \/ k < d[k])
    <3>1. k \in 1 .. Len(q) /\ k \in 1 .. Len(r)
      BY <1>10, <1>12, <1>13
    <3>2. d[k] \in 1 .. Len(r) /\ k <= d[k]
      BY <1>11, <1>12, <3>1 DEF Ups
    <3> QED BY <1>10, <3>1, <3>2
  <2>2. c[k] \in Int /\ c[d[k]] \in Int /\ g[k] \in Int /\ c[k] <= c[d[k]]
    BY <1>10, <1>11, <2>1 DEF Ups
  <2>3. g[k] <= c[k] /\ a[k] = c[d[k]]
    BY <1>1, <2>1
  <2> QED BY <2>2, <2>3
<1> HIDE DEF a
<1>14. \E x, y : /\ Places(q, lg, x)
                 /\ Places(got, lg, y)
                 /\ \A k \in 1 .. Len(got) : k <= Len(q) => y[k] <= x[k]
    BY <1>1, <1>9, <1>13
<1> QED BY <1>14 DEF GotOf, p, q

(* The next page. *)
LEMMA GotMore ==
    ASSUME NEW ev \in Seq(Event), NEW lg \in Seq(Event), NEW got \in Seq(Event), NEW W,
           NEW m \in Nat, Len(got) < m, m <= Len(Filter(ev, W)), GotOf(ev, lg, got, W)
    PROVE  GotOf(ev, lg, got \o SubSeq(Filter(ev, W), Len(got) + 1, m), W)
<1> DEFINE r == Filter(ev, W)
           o == Len(got)
           q == got \o SubSeq(r, o + 1, m)
<1>1. PICK c, g : /\ Places(r, lg, c)
                  /\ Places(got, lg, g)
                  /\ \A k \in 1 .. Len(got) : k <= Len(r) => g[k] <= c[k]
    BY DEF GotOf
<1>2. r \in Seq(Event) /\ Len(r) \in Nat /\ o \in Nat /\ o < m /\ m <= Len(r)
    BY FilterPlaces
<1> HIDE DEF r
<1>3. /\ q \in Seq(Event) /\ Len(q) = m
      /\ \A k \in 1 .. o : q[k] = got[k]
      /\ \A k \in o + 1 .. m : q[k] = r[k]
  <2>1. /\ SubSeq(r, o + 1, m) \in Seq(Event) /\ Len(SubSeq(r, o + 1, m)) = m - o
        /\ \A k \in 1 .. m - o : SubSeq(r, o + 1, m)[k] = r[o + k]
    BY <1>2
  <2> DEFINE p == SubSeq(r, o + 1, m)
  <2> HIDE DEF p
  <2>2. p \in Seq(Event) /\ Len(p) = m - o /\ \A k \in 1 .. m - o : p[k] = r[o + k]
    BY <2>1 DEF p
  <2>3. /\ got \o p \in Seq(Event) /\ Len(got \o p) = m
        /\ \A k \in 1 .. o : (got \o p)[k] = got[k]
        /\ \A k \in o + 1 .. m : (got \o p)[k] = p[k - o]
    BY <1>2, <2>2
  <2>4. ASSUME NEW k \in o + 1 .. m PROVE p[k - o] = r[k]
    <3>1. k - o \in 1 .. m - o /\ o + (k - o) = k
      BY <1>2
    <3> QED BY <2>2, <3>1
  <2> QED BY <2>3, <2>4 DEF p
<1>4. /\ \A k \in 1 .. o : g[k] \in 1 .. Len(lg) /\ got[k] = lg[g[k]]
      /\ \A k \in 1 .. Len(r) : c[k] \in 1 .. Len(lg) /\ r[k] = lg[c[k]]
      /\ \A i, j \in 1 .. o : i < j => g[i] < g[j]
      /\ \A i, j \in 1 .. Len(r) : i < j => c[i] < c[j]
      /\ \A k \in 1 .. o : g[k] <= c[k]
  <2>1. \A k \in 1 .. o : k <= Len(r)
    BY <1>2
  <2>2. \A k \in 1 .. o : g[k] <= c[k]
    BY <1>1, <2>1
  <2> QED BY <1>1, <2>2 DEF Places, Ups
<1> HIDE DEF o, q
<1> DEFINE a == [k \in 1 .. m |-> IF k <= o THEN g[k] ELSE c[k]]
<1>5. \A k \in 1 .. m : k \in 1 .. Len(r) /\ (k <= o => k \in 1 .. o)
                        /\ (~ (k <= o) => k \in o + 1 .. m)
    BY <1>2
<1>6. ASSUME NEW k \in 1 .. m
      PROVE  /\ a[k] \in 1 .. Len(lg) /\ q[k] = lg[a[k]]
             /\ (k <= o => a[k] = g[k]) /\ (~ (k <= o) => a[k] = c[k])
             /\ a[k] <= c[k]
  <2>1. CASE k <= o
    BY <1>3, <1>4, <1>5, <2>1
  <2>2. CASE ~ (k <= o)
    <3>1. a[k] = c[k]
      BY <2>2
    <3> QED BY <1>3, <1>4, <1>5, <2>2, <3>1
  <2> QED BY <2>1, <2>2
<1>7. a \in [1 .. m -> 1 .. Len(lg)]
    BY <1>6
<1> HIDE DEF a
<1>8. ASSUME NEW i \in 1 .. m, NEW j \in 1 .. m, i < j PROVE a[i] < a[j]
  <2>1. a[i] \in Int /\ a[j] \in Int /\ c[i] \in Int /\ c[j] \in Int
    BY <1>4, <1>5, <1>6
  <2>2. CASE j <= o
    <3>1. i <= o
      BY <1>2, <1>8, <2>2
    <3> QED BY <1>4, <1>5, <1>6, <1>8, <2>2, <3>1
  <2>3. CASE ~ (j <= o)
    <3>1. c[i] < c[j] /\ a[j] = c[j] /\ a[i] <= c[i]
      BY <1>4, <1>5, <1>6, <1>8, <2>3
    <3> QED BY <2>1, <3>1
  <2> QED BY <2>2, <2>3
<1>9. Places(q, lg, a)
    BY <1>3, <1>6, <1>7, <1>8 DEF Places, Ups
<1>10. \E x, y : /\ Places(r, lg, x)
                 /\ Places(q, lg, y)
                 /\ \A k \in 1 .. Len(q) : k <= Len(r) => y[k] <= x[k]
    BY <1>1, <1>3, <1>6, <1>9
<1> QED BY <1>10 DEF GotOf, q, r, o

LEMMA CutOfCut ==
    ASSUME NEW r \in Seq(Event), NEW o \in Nat, NEW b \in Nat, o < b, b <= Len(r)
    PROVE  /\ Len(SubSeq(r, 1, b)) = b
           /\ SubSeq(SubSeq(r, 1, b), o + 1, b) = SubSeq(r, o + 1, b)
<1> DEFINE c == SubSeq(r, 1, b)
<1>1. c \in Seq(Event) /\ Len(c) = b /\ \A k \in 1 .. b : c[k] = r[k]
    OBVIOUS
<1> HIDE DEF c
<1> DEFINE x == SubSeq(c, o + 1, b)
           y == SubSeq(r, o + 1, b)
<1>2. x \in Seq(Event) /\ Len(x) = b - o /\ \A k \in 1 .. b - o : x[k] = c[o + k]
    BY <1>1
<1>3. y \in Seq(Event) /\ Len(y) = b - o /\ \A k \in 1 .. b - o : y[k] = r[o + k]
    OBVIOUS
<1>4. \A k \in 1 .. b - o : o + k \in 1 .. b
    OBVIOUS
<1> HIDE DEF x, y
<1>5. \A k \in 1 .. Len(x) : x[k] = y[k]
    BY <1>1, <1>2, <1>3, <1>4
<1>6. x = y
    BY <1>2, <1>3, <1>5, SeqEqual
<1> QED BY <1>1, <1>6 DEF c, x, y

(* A page is what follows the offset, limit events of it or all: also when *)
(* limit + offset wraps around, which lifts the limit.                     *)
Follows(page, r, l, o) ==
    \/ page = <<>> /\ Len(r) <= o
    \/ \E m \in Nat : /\ o < m /\ m <= Len(r)
                      /\ page = SubSeq(r, o + 1, m)
                      /\ m = Len(r) \/ m = o + l

LEMMA PageIs ==
    ASSUME events \in Seq(Event), NEW s, NEW f, NEW l \in Limits, NEW o \in 0 .. MaxInt
    PROVE  Follows(Page(s, f, l, o), Filter(events, Wanted(s, f)), l, o)
<1> DEFINE r == Filter(events, Wanted(s, f))
           page == Page(s, f, l, o)
           b == Plus(l, o)
           cut == IF b > 0 /\ b < Len(r) THEN SubSeq(r, 1, b) ELSE r
<1>1. r \in Seq(Event) /\ Len(r) \in Nat
    BY FilterPlaces
<1>2. page = IF o < Len(cut) THEN SubSeq(cut, o + 1, Len(cut)) ELSE <<>>
    BY DEF Page, GetEvents, Matching, Wanted
<1>3. MaxInt \in Nat /\ l \in 1 .. MaxInt
    BY EventBoundsAssumption
<1>4. b \in Int /\ (b < 0 \/ b = l + o)
    BY <1>3 DEF Plus
<1> HIDE DEF r, page, b
<1>5. CASE b > 0 /\ b < Len(r)
  <2>1. b = l + o /\ b \in Nat /\ o < b /\ b <= Len(r) /\ o \in Nat
    BY <1>1, <1>3, <1>4, <1>5
  <2>2. page = SubSeq(r, o + 1, b)
    <3>1. cut = SubSeq(r, 1, b)
      BY <1>5
    <3>2. Len(cut) = b /\ SubSeq(cut, o + 1, b) = SubSeq(r, o + 1, b)
      BY <1>1, <2>1, <3>1, CutOfCut
    <3> QED BY <1>2, <2>1, <3>2
  <2> QED BY <1>3, <2>1, <2>2 DEF Follows, r, page
<1>6. CASE ~ (b > 0 /\ b < Len(r))
  <2>1. page = IF o < Len(r) THEN SubSeq(r, o + 1, Len(r)) ELSE <<>>
    BY <1>2, <1>6
  <2>2. CASE o < Len(r)
    BY <1>1, <2>1, <2>2 DEF Follows, r, page
  <2>3. CASE ~ (o < Len(r))
    BY <1>1, <2>1, <2>3 DEF Follows, r, page
  <2> QED BY <2>2, <2>3
<1> QED BY <1>5, <1>6

(***************************************************************************)
(* The inductive invariant.                                                *)
(***************************************************************************)
Emission == {<<>>} \cup {<<e>> : e \in Event}
Fields == {"state", "session", "filter", "got", "offset", "pages", "due"}
ReaderOf(rd) == DOMAIN rd = Fields /\ rd.got \in Seq(Event)

EventTyped ==
    /\ clock \in 0 .. MaxTime
    /\ events \in Seq(Event) /\ log \in Seq(Event)
    /\ emitting \in [Emitters -> Emission]
    /\ built \in 0 .. MaxEvents
    /\ pruner \in {"waiting", "gone"} /\ stopCh \in {"open", "closed"}
    /\ ticked \in BOOLEAN /\ panicked \in BOOLEAN
    /\ ReaderOf(reader)
    /\ pruner = "waiting" => Retention > 0

(* Every event built has an id of its own. *)
IdsDrawn ==
    /\ Distinct(log)
    /\ \A i \in 1 .. Len(log) : log[i].id <= built
    /\ \A p \in Emitters : emitting[p] # <<>> =>
           /\ emitting[p][1].id <= built
           /\ \A i \in 1 .. Len(log) : log[i].id # emitting[p][1].id
    /\ \A p, q \in Emitters :
           p # q /\ emitting[p] # <<>> /\ emitting[q] # <<>> =>
               emitting[p][1].id # emitting[q][1].id

WantedBy(rd) == Wanted(rd.session, rd.filter)

ReadOf(ev, lg, rd) ==
    /\ rd.offset = Len(rd.got)
    /\ \A k \in 1 .. Len(rd.got) : rd.got[k] \in WantedBy(rd)
    /\ GotOf(ev, lg, rd.got, WantedBy(rd))

(* While nothing was pruned the client has the beginning of what it wants, *)
(* and all of it when it finished.                                         *)
BeginningOf(lg, rd) ==
    /\ Len(rd.got) <= Len(Filter(lg, WantedBy(rd)))
    /\ \A k \in 1 .. Len(rd.got) : rd.got[k] = Filter(lg, WantedBy(rd))[k]
    /\ rd.state = "finished" => Len(rd.got) = rd.due
UnprunedOf(ev, lg, rd) == Len(ev) = Len(lg) => BeginningOf(lg, rd)

EventInv ==
    /\ EventTyped
    /\ IdsDrawn
    /\ StoredOf(events, log, clock)
    /\ ReadOf(events, log, reader)
    /\ UnprunedOf(events, log, reader)

(* Ids are drawn from 1 .. built: the log is no longer than built. *)
LEMMA LogBounded ==
    ASSUME EventTyped, IdsDrawn
    PROVE  Len(log) <= built
<1> DEFINE S == 1 .. Len(log)
           T == 1 .. built
           f == [i \in S |-> log[i].id]
<1>1. Len(log) \in Nat /\ built \in Nat
    BY EventBoundsAssumption DEF EventTyped
<1>2. \A i \in S : log[i] \in Event /\ log[i].id \in T
  <2>1. \A i \in S : log[i] \in Event
    BY DEF EventTyped
  <2>2. \A i \in S : log[i].id \in 1 .. MaxEvents /\ log[i].id <= built
    BY <2>1, EventFields DEF IdsDrawn
  <2> QED BY <1>1, <2>1, <2>2, EventBoundsAssumption
<1>3. f \in [S -> T] /\ \A i, j \in S : f[i] = f[j] => i = j
    BY <1>2 DEF IdsDrawn, Distinct
<1>4. f \in Injection(S, T)
    BY <1>3 DEF Injection, IsInjective
<1>5. /\ IsFiniteSet(T) /\ Cardinality(T) = built
      /\ IsFiniteSet(S) /\ Cardinality(S) = Len(log)
  <2>1. ASSUME NEW n \in Nat PROVE IsFiniteSet(1 .. n) /\ Cardinality(1 .. n) = n
    <3>1. 1 \in Int /\ n \in Int
      OBVIOUS
    <3>2. IsFiniteSet(1 .. n) /\ Cardinality(1 .. n) = IF 1 > n THEN 0 ELSE n - 1 + 1
      BY <3>1, FS_Interval
    <3> QED BY <3>2
  <2> QED BY <1>1, <2>1
<1>6. Cardinality(S) <= Cardinality(T)
    BY <1>4, <1>5, FS_Injection
<1> QED BY <1>5, <1>6

LEMMA EventInvInit == Init => EventInv
<1> SUFFICES ASSUME Init PROVE EventInv
    OBVIOUS
<1>1. EventTyped
  <2>1. ReaderOf(NoReader)
    BY DEF NoReader, ReaderOf, Fields
  <2>2. emitting \in [Emitters -> Emission]
    BY DEF Init, Emission
  <2>3. clock \in 0 .. MaxTime /\ built \in 0 .. MaxEvents
    BY EventBoundsAssumption DEF Init
  <2>4. pruner \in {"waiting", "gone"} /\ (pruner = "waiting" => Retention > 0)
    BY DEF Init
  <2>5. ticked \in BOOLEAN /\ panicked \in BOOLEAN
    BY DEF Init
  <2>6. events \in Seq(Event) /\ log \in Seq(Event) /\ stopCh \in {"open", "closed"}
        /\ ReaderOf(reader)
    BY <2>1 DEF Init
  <2> QED BY <2>2, <2>3, <2>4, <2>5, <2>6 DEF EventTyped
<1>2. IdsDrawn
    BY DEF Init, IdsDrawn, Distinct
<1>3. events = <<>> /\ log = <<>> /\ reader.got = <<>> /\ reader.offset = 0
      /\ reader.state = "idle"
    BY DEF Init, NoReader
<1>4. Places(<<>>, <<>>, <<>>)
    BY DEF Places, Ups
<1>5. StoredOf(events, log, clock)
    BY <1>3, <1>4 DEF StoredOf
<1> DEFINE W == WantedBy(reader)
<1>6. Filter(<<>>, W) = <<>>
  <2> HIDE DEF W
  <2>1. <<>> \in Seq(Event)
    OBVIOUS
  <2>2. Picks(<<>>, <<>>, Len(<<>>), W, <<>>)
    BY DEF Picks
  <2> QED BY <2>1, <2>2, PicksUnique
<1> HIDE DEF W
<1>7. GotOf(<<>>, <<>>, <<>>, W)
  <2>1. \A k \in 1 .. Len(<<>>) : FALSE
    OBVIOUS
  <2> QED BY <1>4, <1>6, <2>1 DEF GotOf
<1>8. ReadOf(events, log, reader)
    BY <1>3, <1>7 DEF ReadOf, W
<1>9. UnprunedOf(events, log, reader)
    BY <1>3, <1>6 DEF UnprunedOf, BeginningOf, W
<1> QED BY <1>1, <1>2, <1>5, <1>8, <1>9 DEF EventInv

(* Store: the event an emitter holds goes to the end of both. *)
LEMMA StoreKeeps ==
    ASSUME EventInv, NEW p \in Emitters, Store(p)
    PROVE  EventInv'
<1> DEFINE e == emitting[p][1]
           W == WantedBy(reader)
<1>1. /\ emitting[p] # <<>> /\ events' = events \o emitting[p] /\ log' = log \o emitting[p]
      /\ emitting' = [emitting EXCEPT ![p] = <<>>]
      /\ UNCHANGED <<clock, built, ticked, pruner, stopCh, stopping, panicked, reader>>
    BY DEF Store
<1>2. /\ events \in Seq(Event) /\ log \in Seq(Event) /\ ReaderOf(reader)
      /\ emitting \in [Emitters -> Emission] /\ built \in 0 .. MaxEvents
    BY DEF EventInv, EventTyped
<1>3. e \in Event /\ emitting[p] = <<e>>
    BY <1>1, <1>2 DEF Emission
<1> HIDE DEF e
<1>4. events' = Append(events, e) /\ log' = Append(log, e)
    BY <1>1, <1>2, <1>3
<1>5. events' \in Seq(Event) /\ log' \in Seq(Event)
    BY <1>2, <1>3, <1>4
<1>6. reader.got \in Seq(Event)
    BY <1>2 DEF ReaderOf
<1>7. EventTyped'
  <2>1. emitting' \in [Emitters -> Emission]
    BY <1>1, <1>2 DEF Emission
  <2> QED BY <1>1, <1>5, <2>1 DEF EventInv, EventTyped
<1>8. IdsDrawn'
  <2> DEFINE n == Len(log)
  <2>1. /\ n \in Nat /\ Len(log') = n + 1 /\ log'[n + 1] = e
        /\ \A i \in 1 .. n : log'[i] = log[i]
        /\ \A i \in 1 .. n + 1 : i = n + 1 \/ i \in 1 .. n
    BY <1>2, <1>3, <1>4
  <2>2. e.id <= built /\ \A i \in 1 .. n : log[i].id # e.id
    BY <1>1, <1>3, SMTT(30) DEF EventInv, IdsDrawn
  <2>3. Distinct(log')
    <3>1. Distinct(log)
      BY DEF EventInv, IdsDrawn
    <3> HIDE DEF n
    <3>2. \A i, j \in 1 .. n : log[i].id = log[j].id => i = j
      BY <3>1 DEF Distinct, n
    <3>3. \A i, j \in 1 .. n + 1 : log'[i].id = log'[j].id => i = j
      BY <2>1, <2>2, <3>2
    <3> QED BY <2>1, <3>3 DEF Distinct
  <2>4. \A i \in 1 .. Len(log') : log'[i].id <= built
    <3>1. \A i \in 1 .. n : log[i].id <= built
      BY DEF EventInv, IdsDrawn
    <3> HIDE DEF n
    <3> QED BY <2>1, <2>2, <3>1
  <2>5. \A q \in Emitters : emitting'[q] # <<>> => q # p /\ emitting'[q] = emitting[q]
    BY <1>1, <1>2
  <2>6. ASSUME NEW q \in Emitters, emitting'[q] # <<>>
        PROVE  /\ emitting'[q][1].id <= built
               /\ \A i \in 1 .. Len(log') : log'[i].id # emitting'[q][1].id
    <3>1. q # p /\ emitting'[q] = emitting[q]
      BY <2>5, <2>6
    <3>2. /\ emitting[q][1].id <= built
          /\ \A i \in 1 .. n : log[i].id # emitting[q][1].id
          /\ e.id # emitting[q][1].id
      BY <1>1, <2>6, <3>1 DEF EventInv, IdsDrawn, e
    <3> HIDE DEF n
    <3> QED BY <2>1, <3>1, <3>2
  <2>7. \A q, r \in Emitters :
            q # r /\ emitting'[q] # <<>> /\ emitting'[r] # <<>> =>
                emitting'[q][1].id # emitting'[r][1].id
    BY <2>5 DEF EventInv, IdsDrawn
  <2>8. built' = built
    BY <1>1
  <2> QED BY <2>3, <2>4, <2>6, <2>7, <2>8 DEF IdsDrawn
<1>9. StoredOf(events', log', clock')
  <2>1. StoredOf(Append(events, e), Append(log, e), clock)
    BY <1>2, <1>3, StoredAppend DEF EventInv
  <2> QED BY <1>1, <1>4, <2>1
<1>10. reader' = reader
    BY <1>1
<1>11. ReadOf(events', log', reader')
  <2>1. GotOf(events, log, reader.got, W)
    BY DEF EventInv, ReadOf
  <2> HIDE DEF W
  <2>2. GotOf(Append(events, e), Append(log, e), reader.got, W)
    BY <1>2, <1>3, <1>6, <2>1, GotAppend
  <2>3. GotOf(events', log', reader.got, W)
    BY <1>4, <2>2
  <2> QED BY <1>10, <2>3 DEF EventInv, ReadOf, W
<1>12. UnprunedOf(events', log', reader')
  <2> SUFFICES ASSUME Len(events') = Len(log') PROVE BeginningOf(log', reader)
    BY <1>10 DEF UnprunedOf
  <2>1. Len(events) = Len(log)
    BY <1>2, <1>3, <1>4
  <2> DEFINE a == Filter(log, W)
             b == Filter(log', W)
  <2>2. /\ Len(reader.got) <= Len(a)
        /\ \A k \in 1 .. Len(reader.got) : reader.got[k] = a[k]
        /\ reader.state = "finished" => Len(reader.got) = reader.due
    BY <2>1 DEF EventInv, UnprunedOf, BeginningOf
  <2> HIDE DEF W
  <2>3. a \in Seq(Event)
    BY <1>2, FilterPlaces
  <2>4. b = IF e \in W THEN Append(a, e) ELSE a
    <3>1. Filter(Append(log, e), W) = IF e \in W THEN Append(Filter(log, W), e)
                                      ELSE Filter(log, W)
      BY <1>2, <1>3, FilterAppend
    <3> QED BY <1>4, <3>1
  <2> HIDE DEF a, b
  <2>5. Len(a) \in Nat /\ Len(a) <= Len(b) /\ \A k \in 1 .. Len(a) : b[k] = a[k]
    <3>1. CASE e \in W
      BY <1>3, <2>3, <2>4, <3>1
    <3>2. CASE e \notin W
      BY <2>3, <2>4, <3>2
    <3> QED BY <3>1, <3>2
  <2>6. Len(reader.got) \in Nat /\ Len(b) \in Nat
    BY <1>3, <1>6, <2>3, <2>4
  <2>7. /\ Len(reader.got) <= Len(b)
        /\ \A k \in 1 .. Len(reader.got) : k \in 1 .. Len(a)
    BY <2>2, <2>5, <2>6
  <2>8. \A k \in 1 .. Len(reader.got) : reader.got[k] = b[k]
    BY <2>2, <2>5, <2>7
  <2> QED BY <2>2, <2>7, <2>8 DEF BeginningOf, b, W
<1> QED BY <1>7, <1>8, <1>9, <1>11, <1>12 DEF EventInv

LEMMA BuildKeeps ==
    ASSUME EventInv, NEW p \in Emitters, NEW k \in EventTypes, NEW s \in SessionIDs,
           NEW t \in ToolNames, BuildEvent(p, k, s, t)
    PROVE  EventInv'
<1> DEFINE e == [id |-> built + 1, type |-> k, session |-> s, tool |-> t, at |-> clock]
<1>1. /\ built < MaxEvents /\ built' = built + 1 /\ emitting[p] = <<>>
      /\ emitting' = [emitting EXCEPT ![p] = <<e>>]
      /\ clock' = clock /\ events' = events /\ log' = log /\ ticked' = ticked
      /\ pruner' = pruner /\ stopCh' = stopCh /\ panicked' = panicked /\ reader' = reader
    BY DEF BuildEvent
<1>2. /\ built \in 0 .. MaxEvents /\ clock \in 0 .. MaxTime /\ log \in Seq(Event)
      /\ emitting \in [Emitters -> Emission] /\ MaxEvents \in Nat
    BY EventBoundsAssumption DEF EventInv, EventTyped
<1>3. e \in Event /\ e.id = built + 1
  <2>1. built + 1 \in 1 .. MaxEvents
    BY <1>1, <1>2
  <2> QED BY <1>2, <2>1 DEF Event
<1> HIDE DEF e
<1>4. EventTyped'
  <2>1. emitting' \in [Emitters -> Emission]
    BY <1>1, <1>2, <1>3 DEF Emission
  <2>2. built' \in 0 .. MaxEvents
    BY <1>1, <1>2
  <2> QED BY <1>1, <2>1, <2>2 DEF EventInv, EventTyped
<1>5. IdsDrawn'
  <2>1. /\ \A i \in 1 .. Len(log) : log[i].id \in Int
        /\ \A q \in Emitters : emitting[q] # <<>> => emitting[q][1].id \in Int
    <3>1. \A d \in Event : d.id \in Int
      BY <1>2, EventFields
    <3>2. \A q \in Emitters : emitting[q] # <<>> => emitting[q][1] \in Event
      BY <1>2 DEF Emission
    <3> QED BY <1>2, <3>1, <3>2
  <2>2. emitting'[p] = <<e>> /\ \A q \in Emitters : q # p => emitting'[q] = emitting[q]
    BY <1>1, <1>2
  <2>3. \A i \in 1 .. Len(log) : log[i].id <= built
    BY DEF EventInv, IdsDrawn
  <2>4. \A q \in Emitters : emitting[q] # <<>> =>
            /\ emitting[q][1].id <= built
            /\ \A i \in 1 .. Len(log) : log[i].id # emitting[q][1].id
    BY DEF EventInv, IdsDrawn
  <2>5. \A i \in 1 .. Len(log') : log'[i].id <= built'
    BY <1>1, <1>2, <2>1, <2>3
  <2>6. ASSUME NEW q \in Emitters, emitting'[q] # <<>>
        PROVE  /\ emitting'[q][1].id <= built'
               /\ \A i \in 1 .. Len(log') : log'[i].id # emitting'[q][1].id
    <3>1. CASE q = p
      <4>1. emitting'[q][1].id = built + 1
        BY <1>3, <2>2, <3>1
      <4>2. \A i \in 1 .. Len(log) : log[i].id # built + 1
        BY <1>2, <2>1, <2>3
      <4>3. built + 1 <= built'
        BY <1>1, <1>2
      <4> QED BY <1>1, <4>1, <4>2, <4>3
    <3>2. CASE q # p
      <4>1. emitting'[q] = emitting[q]
        BY <2>2, <3>2
      <4>2. /\ emitting[q][1].id <= built /\ emitting[q][1].id \in Int
            /\ \A i \in 1 .. Len(log) : log[i].id # emitting[q][1].id
        BY <2>1, <2>4, <2>6, <4>1
      <4>3. emitting[q][1].id <= built'
        BY <1>1, <1>2, <4>2
      <4> QED BY <1>1, <4>1, <4>2, <4>3
    <3> QED BY <3>1, <3>2
  <2>7. ASSUME NEW q \in Emitters, NEW r \in Emitters, q # r,
               emitting'[q] # <<>>, emitting'[r] # <<>>
        PROVE  emitting'[q][1].id # emitting'[r][1].id
    <3>1. \A x \in Emitters : x # p /\ emitting'[x] # <<>> => emitting'[x][1].id # built + 1
      BY <1>2, <2>1, <2>2, <2>4
    <3>2. emitting'[p][1].id = built + 1
      BY <1>3, <2>2
    <3>3. CASE q = p \/ r = p
      BY <2>7, <3>1, <3>2, <3>3
    <3>4. CASE q # p /\ r # p
      BY <2>2, <2>7, <3>4 DEF EventInv, IdsDrawn
    <3> QED BY <3>3, <3>4
  <2>8. Distinct(log')
    BY <1>1 DEF EventInv, IdsDrawn
  <2> QED BY <2>5, <2>6, <2>7, <2>8 DEF IdsDrawn
<1> QED BY <1>1, <1>4, <1>5 DEF EventInv

LEMMA TickKeeps ==
    ASSUME EventInv, Tick
    PROVE  EventInv'
<1>1. /\ clock' = IF clock < MaxTime THEN clock + 1 ELSE clock
      /\ ticked' = (pruner = "waiting")
      /\ events' = events /\ log' = log /\ emitting' = emitting /\ built' = built
      /\ pruner' = pruner /\ stopCh' = stopCh /\ panicked' = panicked /\ reader' = reader
    BY DEF Tick
<1>2. clock \in 0 .. MaxTime /\ log \in Seq(Event) /\ MaxTime \in Nat
    BY EventBoundsAssumption DEF EventInv, EventTyped
<1>3. clock' \in 0 .. MaxTime /\ clock \in Int /\ clock' \in Int /\ clock <= clock'
    BY <1>1, <1>2
<1>4. ticked' \in BOOLEAN
    BY <1>1
<1>5. EventTyped'
    BY <1>1, <1>3, <1>4 DEF EventInv, EventTyped
<1>6. IdsDrawn'
    BY <1>1 DEF EventInv, IdsDrawn
<1>7. StoredOf(events, log, clock')
    BY <1>2, <1>3, StoredLater DEF EventInv
<1> QED BY <1>1, <1>5, <1>6, <1>7 DEF EventInv

LEMMA PruneKeeps ==
    ASSUME EventInv, Prune
    PROVE  EventInv'
<1> DEFINE U == {e \in Event : e.at > clock - Retention}
           W == WantedBy(reader)
<1>1. /\ pruner = "waiting" /\ events' = Filter(events, U) /\ ticked' = FALSE
      /\ clock' = clock /\ log' = log /\ emitting' = emitting /\ built' = built
      /\ pruner' = pruner /\ stopCh' = stopCh /\ panicked' = panicked /\ reader' = reader
    BY DEF Prune, pruneExpired, Unexpired
<1>2. /\ events \in Seq(Event) /\ log \in Seq(Event) /\ clock \in Int /\ Retention > 0
      /\ reader.got \in Seq(Event)
    BY <1>1, EventBoundsAssumption DEF EventInv, EventTyped, ReaderOf
<1>3. StoredOf(Filter(events, U), log, clock)
    BY <1>2, StoredPrune DEF EventInv
<1> HIDE DEF U
<1>4. events' \in Seq(Event) /\ \E h : Places(events', events, h)
  <2>1. Filter(events, U) \in Seq(Event) /\ \E h : Places(Filter(events, U), events, h)
    BY <1>2, FilterPlaces
  <2> QED BY <1>1, <2>1
<1>5. EventTyped'
  <2>1. ticked' \in BOOLEAN
    BY <1>1
  <2> QED BY <1>1, <1>4, <2>1 DEF EventInv, EventTyped
<1>6. IdsDrawn'
    BY <1>1 DEF EventInv, IdsDrawn
<1>7. ReadOf(events', log', reader')
  <2>1. GotOf(events, log, reader.got, W)
    BY DEF EventInv, ReadOf
  <2> HIDE DEF W
  <2>2. GotOf(Filter(events, U), log, reader.got, W)
    BY <1>2, <2>1, GotPrune
  <2>3. GotOf(events', log', reader.got, W)
    BY <1>1, <2>2
  <2> QED BY <1>1, <2>3 DEF EventInv, ReadOf, W
<1>8. UnprunedOf(events', log', reader')
  <2> SUFFICES ASSUME Len(events') = Len(log) PROVE BeginningOf(log, reader)
    BY <1>1 DEF UnprunedOf
  <2>1. PICK h : Places(events', events, h)
    BY <1>4
  <2>2. Len(events') <= Len(events)
    BY <1>2, <1>4, <2>1, PlacesFull
  <2>3. PICK f : Places(events, log, f)
    BY DEF EventInv, StoredOf
  <2>4. Len(events) <= Len(log)
    BY <1>2, <2>3, PlacesFull
  <2>5. Len(events) = Len(log)
    BY <1>2, <1>4, <2>2, <2>4
  <2> QED BY <2>5 DEF EventInv, UnprunedOf
<1>9. StoredOf(events', log', clock')
    BY <1>1, <1>3
<1> QED BY <1>5, <1>6, <1>7, <1>8, <1>9 DEF EventInv

(* Steps of Stop and the end of the pruner touch no event. *)
LEMMA StopKeeps ==
    ASSUME EventInv, PrunerStops \/ \E q \in Stoppers : StopCheck(q) \/ StopClose(q)
    PROVE  EventInv'
<1>1. /\ clock' = clock /\ events' = events /\ log' = log /\ emitting' = emitting
      /\ built' = built /\ reader' = reader
      /\ pruner' = pruner \/ pruner' = "gone"
      /\ stopCh' = stopCh \/ stopCh' = "closed"
    BY DEF PrunerStops, StopCheck, StopClose
<1>2. ticked' = ticked \/ ticked' = FALSE
    BY DEF PrunerStops, StopCheck, StopClose
<1>3. panicked' = panicked \/ panicked' = (stopCh = "closed")
    BY DEF PrunerStops, StopCheck, StopClose
<1>4. ticked' \in BOOLEAN /\ panicked' \in BOOLEAN
    BY <1>2, <1>3 DEF EventInv, EventTyped
<1>5. pruner' \in {"waiting", "gone"} /\ (pruner' = "waiting" => Retention > 0)
      /\ stopCh' \in {"open", "closed"}
    BY <1>1 DEF EventInv, EventTyped
<1>6. EventTyped'
    BY <1>1, <1>4, <1>5 DEF EventInv, EventTyped
<1>7. IdsDrawn'
    BY <1>1 DEF EventInv, IdsDrawn
<1> QED BY <1>1, <1>6, <1>7 DEF EventInv

LEMMA StartKeeps ==
    ASSUME EventInv, NEW s \in SessionIDs, NEW f \in Filters, StartReading(s, f)
    PROVE  EventInv'
<1> DEFINE R == [NoReader EXCEPT !.state = "reading", !.session = s, !.filter = f]
           W == WantedBy(R)
<1>1. /\ reader' = R
      /\ clock' = clock /\ events' = events /\ log' = log /\ emitting' = emitting
      /\ built' = built /\ ticked' = ticked /\ pruner' = pruner /\ stopCh' = stopCh
      /\ panicked' = panicked
    BY DEF StartReading
<1>2. ReaderOf(R) /\ R.got = <<>> /\ R.offset = 0 /\ R.state = "reading"
  <2>1. R.got = <<>> /\ R.offset = 0 /\ R.state = "reading"
    BY DEF NoReader
  <2>2. DOMAIN R = Fields
    BY DEF NoReader, Fields
  <2> HIDE DEF R
  <2> QED BY <2>1, <2>2 DEF ReaderOf
<1>3. events \in Seq(Event) /\ log \in Seq(Event)
    BY DEF EventInv, EventTyped
<1> HIDE DEF R, W
<1>4. EventTyped'
    BY <1>1, <1>2 DEF EventInv, EventTyped
<1>5. IdsDrawn'
    BY <1>1 DEF EventInv, IdsDrawn
<1>6. GotOf(events, log, <<>>, W)
  <2> DEFINE r == Filter(events, W)
  <2>1. r \in Seq(Event) /\ \E h : Places(r, events, h)
    BY <1>3, FilterPlaces
  <2>2. PICK h : Places(r, events, h)
    BY <2>1
  <2>3. PICK g : Places(events, log, g)
    BY DEF EventInv, StoredOf
  <2> HIDE DEF r
  <2>4. \E c : Places(r, log, c)
    BY <1>3, <2>1, <2>2, <2>3, PlacesCompose
  <2>5. Places(<<>>, log, <<>>)
    BY <1>3 DEF Places, Ups
  <2>6. \A k \in 1 .. Len(<<>>) : FALSE
    OBVIOUS
  <2> QED BY <2>4, <2>5, <2>6 DEF GotOf, r
<1>7. ReadOf(events', log', reader')
  <2>1. ReadOf(events, log, R)
    BY <1>2, <1>6 DEF ReadOf, W
  <2> QED BY <1>1, <2>1
<1>8. UnprunedOf(events', log', reader')
  <2>1. Len(Filter(log, W)) \in Nat
    BY <1>3, FilterPlaces
  <2>2. BeginningOf(log, R)
    BY <1>2, <2>1 DEF BeginningOf, W
  <2> QED BY <1>1, <2>2 DEF UnprunedOf
<1>9. StoredOf(events', log', clock')
    BY <1>1 DEF EventInv
<1> QED BY <1>4, <1>5, <1>7, <1>8, <1>9 DEF EventInv

(* What a page adds.  o: the offset; r: what the store has of what the     *)
(* client wants.                                                           *)
LEMMA PageKeeps ==
    ASSUME EventInv, NEW l \in Limits, ReadPage(l)
    PROVE  EventInv'
<1> DEFINE s == reader.session
           f == reader.filter
           o == reader.offset
           page == Page(s, f, l, o)
           W == WantedBy(reader)
           r == Filter(events, W)
           due == Len(Filter(log, W))
           st == IF Len(page) < l THEN "finished" ELSE "reading"
<1>1. /\ clock' = clock /\ events' = events /\ log' = log /\ emitting' = emitting
      /\ built' = built /\ ticked' = ticked /\ pruner' = pruner /\ stopCh' = stopCh
      /\ panicked' = panicked
    BY DEF ReadPage
<1>2. reader' = [reader EXCEPT !.got = @ \o page, !.offset = @ + Len(page),
                               !.pages = @ + 1, !.due = due, !.state = st]
    BY DEF ReadPage, Matching, WantedBy, Wanted
<1>3. /\ events \in Seq(Event) /\ log \in Seq(Event) /\ ReaderOf(reader)
      /\ reader.got \in Seq(Event) /\ Len(reader.got) \in Nat /\ Len(log) \in Nat
    BY DEF EventInv, EventTyped, ReaderOf
<1>4. /\ o = Len(reader.got)
      /\ \A k \in 1 .. Len(reader.got) : reader.got[k] \in W
      /\ GotOf(events, log, reader.got, W)
    BY DEF EventInv, ReadOf
<1>5. o \in 0 .. MaxInt
  <2>1. PICK g : Places(reader.got, log, g)
    BY <1>4 DEF GotOf
  <2>2. o <= Len(log)
    BY <1>3, <1>4, <2>1, PlacesFull
  <2>3. Len(log) <= built /\ built <= MaxEvents /\ built \in Int
    BY LogBounded, EventBoundsAssumption DEF EventInv, EventTyped
  <2> QED BY <1>3, <1>4, <2>2, <2>3, EventBoundsAssumption
<1>6. /\ r \in Seq(Event) /\ Len(r) \in Nat
      /\ \A k \in 1 .. Len(r) : r[k] \in W
  <2> HIDE DEF W
  <2> QED BY <1>3, FilterPlaces
<1>7. \/ page = <<>> /\ Len(r) <= o
      \/ \E m \in Nat : /\ o < m /\ m <= Len(r)
                        /\ page = SubSeq(r, o + 1, m)
                        /\ m = Len(r) \/ m = o + l
  <2>1. Follows(Page(s, f, l, o), Filter(events, Wanted(s, f)), l, o)
    BY <1>3, <1>5, PageIs
  <2> QED BY <2>1 DEF Follows, WantedBy
<1> DEFINE got == reader.got
           new == reader.got \o page
<1>8. /\ page \in Seq(Event) /\ new \in Seq(Event)
      /\ Len(page) \in Nat /\ Len(new) = o + Len(page)
  <2> HIDE DEF page, r
  <2>1. page \in Seq(Event)
    <3>1. CASE page = <<>>
      BY <3>1
    <3>2. ASSUME NEW m \in Nat, o < m, m <= Len(r), page = SubSeq(r, o + 1, m)
          PROVE  page \in Seq(Event)
      BY <1>5, <1>6, <3>2
    <3> QED BY <1>7, <3>1, <3>2
  <2> QED BY <1>3, <1>4, <2>1
<1>9. /\ reader'.got = new /\ reader'.offset = o + Len(page) /\ reader'.due = due
      /\ reader'.state = st /\ reader'.session = s /\ reader'.filter = f
      /\ reader'.pages = reader.pages + 1
  <2> HIDE DEF page, due, st
  <2> QED BY <1>2, <1>3 DEF ReaderOf, Fields
<1>10. WantedBy(reader') = W
    BY <1>9 DEF WantedBy
<1>12. ReaderOf(reader')
  <2> HIDE DEF page, due, st
  <2>1. DOMAIN reader' = DOMAIN reader
    BY <1>2
  <2> QED BY <1>3, <1>8, <1>9, <2>1 DEF ReaderOf
<1>13. EventTyped'
    BY <1>1, <1>12 DEF EventInv, EventTyped
<1>14. IdsDrawn'
    BY <1>1 DEF EventInv, IdsDrawn
<1> HIDE DEF page, W, r, o, due, st
<1>15. \A k \in 1 .. Len(new) : new[k] \in W
  <2>1. CASE page = <<>>
    BY <1>3, <1>4, <2>1
  <2>2. ASSUME NEW m \in Nat, o < m, m <= Len(r), page = SubSeq(r, o + 1, m),
               NEW k \in 1 .. Len(new)
        PROVE  new[k] \in W
    <3>1. o \in Nat
      BY <1>3, <1>4
    <3>2. Len(page) = m - o /\ \A i \in 1 .. m - o : page[i] = r[o + i]
      BY <1>6, <2>2, <3>1
    <3>3. CASE k <= o
      <4>1. k \in 1 .. Len(reader.got) /\ new[k] = reader.got[k]
        BY <1>3, <1>4, <1>8, <3>3
      <4> QED BY <1>4, <4>1
    <3>4. CASE ~ (k <= o)
      <4>1. k - o \in 1 .. m - o /\ o + (k - o) = k /\ k \in 1 .. Len(r)
        BY <1>6, <1>8, <2>2, <3>1, <3>2, <3>4
      <4>2. new[k] = page[k - o]
        BY <1>3, <1>4, <1>8, <3>2, <4>1
      <4>3. new[k] = r[k]
        BY <3>2, <4>1, <4>2
      <4> QED BY <1>6, <4>1, <4>3
    <3> QED BY <3>3, <3>4
  <2> QED BY <1>7, <2>1, <2>2
<1>16. GotOf(events, log, new, W)
  <2>1. CASE page = <<>>
    <3>1. new = reader.got
      BY <1>3, <2>1
    <3> QED BY <1>4, <3>1
  <2>2. ASSUME NEW m \in Nat, o < m, m <= Len(r), page = SubSeq(r, o + 1, m)
        PROVE  GotOf(events, log, new, W)
    <3>1. GotOf(events, log, reader.got \o SubSeq(Filter(events, W), Len(reader.got) + 1, m), W)
      BY <1>3, <1>4, <2>2, GotMore DEF r
    <3> QED BY <1>4, <2>2, <3>1 DEF r
  <2> QED BY <1>7, <2>1, <2>2
<1>17. ReadOf(events', log', reader')
    BY <1>1, <1>8, <1>9, <1>10, <1>15, <1>16 DEF ReadOf
<1>18. UnprunedOf(events', log', reader')
  <2> SUFFICES ASSUME Len(events) = Len(log)
               PROVE  /\ Len(new) <= Len(r)
                      /\ \A k \in 1 .. Len(new) : new[k] = r[k]
                      /\ st = "finished" => Len(new) = Len(r)
                      /\ r = Filter(log, W)
    BY <1>1, <1>9, <1>10 DEF UnprunedOf, BeginningOf, due
  <2>1. events = log
    <3>1. PICK g : Places(events, log, g)
      BY DEF EventInv, StoredOf
    <3> QED BY <1>3, <3>1, PlacesFull
  <2>2. r = Filter(log, W)
    BY <2>1 DEF r
  <2>3. o <= Len(r) /\ \A k \in 1 .. o : reader.got[k] = r[k]
    BY <1>4, <2>2 DEF EventInv, UnprunedOf, BeginningOf, W
  <2>4. o \in Nat /\ l \in Nat
    BY <1>3, <1>4, EventBoundsAssumption
  <2>5. CASE page = <<>> /\ Len(r) <= o
    <3>1. new = reader.got /\ o = Len(r) /\ Len(new) = o
      BY <1>3, <1>4, <1>6, <2>3, <2>4, <2>5
    <3> QED BY <2>2, <2>3, <3>1
  <2>6. ASSUME NEW m \in Nat, o < m, m <= Len(r), page = SubSeq(r, o + 1, m),
               m = Len(r) \/ m = o + l
        PROVE  /\ Len(new) <= Len(r)
               /\ \A k \in 1 .. Len(new) : new[k] = r[k]
               /\ st = "finished" => Len(new) = Len(r)
    <3>1. Len(page) = m - o /\ \A i \in 1 .. m - o : page[i] = r[o + i]
      BY <1>6, <2>4, <2>6
    <3>2. Len(new) = m
      BY <1>8, <2>4, <3>1
    <3>3. ASSUME NEW k \in 1 .. m PROVE new[k] = r[k]
      <4>1. CASE k <= o
        <5>1. k \in 1 .. Len(reader.got) /\ k \in 1 .. o /\ new[k] = reader.got[k]
          BY <1>3, <1>4, <1>8, <4>1
        <5> QED BY <2>3, <5>1
      <4>2. CASE ~ (k <= o)
        <5>1. k - o \in 1 .. m - o /\ o + (k - o) = k
          BY <2>4, <4>2
        <5>2. new[k] = page[k - o]
          BY <1>3, <1>4, <1>8, <3>1, <5>1
        <5> QED BY <3>1, <5>1, <5>2
      <4> QED BY <4>1, <4>2
    <3>4. ASSUME st = "finished" PROVE m = Len(r)
      <4>1. Len(page) < l
        BY <3>4 DEF st
      <4> QED BY <2>4, <2>6, <3>1, <4>1
    <3> QED BY <2>6, <3>2, <3>3, <3>4
  <2> QED BY <1>7, <2>2, <2>5, <2>6
<1>19. StoredOf(events', log', clock')
    BY <1>1 DEF EventInv
<1> QED BY <1>13, <1>14, <1>17, <1>18, <1>19 DEF EventInv

(* The invariant of every step. *)
LEMMA EventInvStep == EventInv /\ [Next]_evars => EventInv'
<1> SUFFICES ASSUME EventInv, [Next]_evars PROVE EventInv'
    OBVIOUS
<1>1. CASE UNCHANGED evars
  <2>1. /\ clock' = clock /\ events' = events /\ log' = log /\ emitting' = emitting
        /\ built' = built /\ ticked' = ticked /\ pruner' = pruner /\ stopCh' = stopCh
        /\ panicked' = panicked /\ reader' = reader
    BY <1>1 DEF evars
  <2> QED BY <2>1 DEF EventInv, EventTyped, IdsDrawn
<1>2. ASSUME NEW p \in Emitters, Store(p) PROVE EventInv'
    BY <1>2, StoreKeeps
<1>3. ASSUME NEW p \in Emitters, NEW k \in EventTypes, NEW s \in SessionIDs,
             NEW t \in ToolNames, BuildEvent(p, k, s, t)
      PROVE  EventInv'
    BY <1>3, BuildKeeps
<1>4. CASE Tick
    BY <1>4, TickKeeps
<1>5. CASE Prune
    BY <1>5, PruneKeeps
<1>6. CASE PrunerStops \/ \E q \in Stoppers : StopCheck(q) \/ StopClose(q)
    BY <1>6, StopKeeps
<1>7. ASSUME NEW s \in SessionIDs, NEW f \in Filters, StartReading(s, f) PROVE EventInv'
    BY <1>7, StartKeeps
<1>8. ASSUME NEW l \in Limits, ReadPage(l) PROVE EventInv'
    BY <1>8, PageKeeps
<1> QED BY <1>1, <1>2, <1>3, <1>4, <1>5, <1>6, <1>7, <1>8 DEF Next

(***************************************************************************)
(* In every reachable state of the event store its variables have their    *)
(* types, the log holds no more events than were built and a client's      *)
(* offset is within it.                                                    *)
(***************************************************************************)
THEOREM EventTypeCorrect == Spec => []EventTypeOK
<1>1. EventInv => EventTypeOK
  <2> SUFFICES ASSUME EventInv PROVE EventTypeOK
    OBVIOUS
  <2>1. Len(log) <= built
    BY LogBounded DEF EventInv
  <2>2. PICK g : Places(reader.got, log, g)
    BY DEF EventInv, ReadOf, GotOf
  <2>3. reader.got \in Seq(Event) /\ log \in Seq(Event)
    BY DEF EventInv, EventTyped, ReaderOf
  <2>4. Len(reader.got) <= Len(log)
    BY <2>2, <2>3, PlacesFull
  <2>5. reader.offset <= Len(log)
    BY <2>4 DEF EventInv, ReadOf
  <2>6. \A p \in Emitters : emitting[p] \in Seq(Event) /\ Len(emitting[p]) <= 1
    <3>1. \A x \in Emission : x \in Seq(Event) /\ Len(x) <= 1
      <4> SUFFICES ASSUME NEW x \in Emission PROVE x \in Seq(Event) /\ Len(x) <= 1
        OBVIOUS
      <4>1. CASE x = <<>>
        BY <4>1
      <4>2. CASE x # <<>>
        <5>1. PICK e \in Event : x = <<e>>
          BY <4>2 DEF Emission
        <5> QED BY <5>1
      <4> QED BY <4>1, <4>2
    <3> QED BY <3>1 DEF EventInv, EventTyped
  <2> QED BY <2>1, <2>3, <2>5, <2>6 DEF EventInv, EventTyped, EventTypeOK
<1> QED BY <1>1, EventInvInit, EventInvStep, PTL DEF Spec

(***************************************************************************)
(* Whatever the order in which concurrent emitters reach Store, and        *)
(* whenever the pruner's in-place filter runs, the store is the log        *)
(* without events whose retention is over, in the log's order              *)
(* (memory_event_store.go, Store and pruneExpired).                        *)
(***************************************************************************)
THEOREM PruningKeepsTheRest == Spec => []NothingLostEarly
<1>1. EventInv => NothingLostEarly
  <2> SUFFICES ASSUME EventInv PROVE NothingLostEarly
    OBVIOUS
  <2>1. events \in Seq(Event) /\ log \in Seq(Event) /\ Distinct(log)
    BY DEF EventInv, EventTyped, IdsDrawn
  <2>2. PICK f : /\ Places(events, log, f)
                 /\ \A i \in 1 .. Len(log) :
                        (\A k \in 1 .. Len(events) : f[k] # i) => Over(log[i], clock)
    BY DEF EventInv, StoredOf
  <2>3. events = Filter(log, {e \in Event : e.id \in Ids(events)})
    BY <2>1, <2>2, ById
  <2>4. ASSUME NEW i \in DOMAIN log, log[i].id \notin Ids(events)
        PROVE  Retention > 0 /\ log[i].at + Retention <= clock
    <3>1. i \in 1 .. Len(log) /\ DOMAIN events = 1 .. Len(events)
      BY <2>1
    <3>2. \A k \in 1 .. Len(events) : events[k] = log[f[k]]
      BY <2>2 DEF Places
    <3>3. \A k \in 1 .. Len(events) : f[k] # i
      BY <2>4, <3>1, <3>2 DEF Ids
    <3> QED BY <2>2, <3>1, <3>3 DEF Over
  <2> QED BY <2>3, <2>4 DEF NothingLostEarly
<1> QED BY <1>1, EventInvInit, EventInvStep, PTL DEF Spec

(***************************************************************************)
(* A client that pages while events are stored and pruned sees no event    *)
(* twice and none out of order; while nothing was pruned it has no gap,    *)
(* and everything once a page was not full (main.go, the events handler:   *)
(* limit + offset, wrap-around included).                                  *)
(***************************************************************************)
THEOREM PagesAreFaithful == Spec => []PagesFaithful
<1>1. EventInv => PagesFaithful
  <2> SUFFICES ASSUME EventInv PROVE PagesFaithful
    OBVIOUS
  <2> DEFINE seen == reader.got
             W == WantedBy(reader)
             all == Filter(log, W)
  <2>1. log \in Seq(Event) /\ Distinct(log) /\ seen \in Seq(Event)
    BY DEF EventInv, EventTyped, IdsDrawn, ReaderOf
  <2>2. PICK g : Places(seen, log, g)
    BY DEF EventInv, ReadOf, GotOf
  <2>3. \A k \in 1 .. Len(seen) : seen[k] \in W
    BY DEF EventInv, ReadOf
  <2>4. Len(events) = Len(log) =>
            /\ Len(seen) <= Len(all) /\ \A k \in 1 .. Len(seen) : seen[k] = all[k]
            /\ reader.state = "finished" => Len(seen) = reader.due
    BY DEF EventInv, UnprunedOf, BeginningOf
  <2>5. Matching(log, reader.session, reader.filter) = all
    BY DEF Matching, WantedBy, Wanted
  <2> HIDE DEF W, seen
  <2>6. all \in Seq(Event) /\ \E a : Places(all, log, a)
    BY <2>1, FilterPlaces
  <2>7. PICK a : Places(all, log, a)
    BY <2>6
  <2>8. PICK d : Places(seen, all, d)
    BY <2>1, <2>2, <2>3, PlacesInto
  <2> HIDE DEF all
  <2>9. Distinct(all)
    <3>1. \A k \in 1 .. Len(all) : a[k] \in 1 .. Len(log) /\ all[k] = log[a[k]]
      BY <2>7 DEF Places, Ups
    <3>2. \A i, j \in 1 .. Len(all) : i < j => a[i] < a[j]
      BY <2>7 DEF Places, Ups
    <3>3. ASSUME NEW i \in 1 .. Len(all), NEW j \in 1 .. Len(all), all[i].id = all[j].id
          PROVE  i = j
      <4>1. a[i] = a[j] /\ a[i] \in Int
        BY <2>1, <3>1, <3>3, SMTT(30) DEF Distinct
      <4>2. ~ (i < j) /\ ~ (j < i)
        BY <3>2, <4>1
      <4> QED BY <2>6, <4>2
    <3> QED BY <3>3 DEF Distinct
  <2>10. seen = Filter(all, {e \in Event : e.id \in Ids(seen)})
    BY <2>1, <2>6, <2>8, <2>9, ById
  <2>11. ASSUME Len(events) = Len(log)
         PROVE  IsPrefix(seen, all) /\ (reader.state = "finished" => Len(seen) = reader.due)
    <3>1. SubSeq(seen, 1, Len(seen)) = SubSeq(all, 1, Len(seen))
      BY <2>1, <2>4, <2>6, <2>11
    <3> QED BY <2>4, <2>11, <3>1 DEF IsPrefix
  <2> QED BY <2>5, <2>10, <2>11 DEF PagesFaithful, seen
<1> QED BY <1>1, EventInvInit, EventInvStep, PTL DEF Spec

(***************************************************************************)
(* Statistics.  The loop keeps as many as there are places with an event   *)
(* of X.                                                                   *)
(***************************************************************************)
PlacesOf(es, X) == {i \in 1 .. Len(es) : es[i] \in X}

LEMMA PlacesOfFinite ==
    ASSUME NEW E, NEW es \in Seq(E), NEW X
    PROVE  IsFiniteSet(PlacesOf(es, X))
<1>1. 1 \in Int /\ Len(es) \in Int
    OBVIOUS
<1>2. IsFiniteSet(1 .. Len(es))
    BY <1>1, FS_Interval
<1>3. PlacesOf(es, X) \in SUBSET (1 .. Len(es))
    BY DEF PlacesOf
<1> QED BY <1>2, <1>3, FS_Subset

LEMMA FilterCount ==
    ASSUME NEW E, NEW es \in Seq(E), NEW X
    PROVE  Len(Filter(es, X)) = Cardinality(PlacesOf(es, X))
<1> DEFINE r == Filter(es, X)
           n == Len(r)
           T == PlacesOf(es, X)
<1>1. r \in Seq(E) /\ \E f : Picks(r, es, Len(es), X, f)
    BY FilterPicks
<1>2. PICK f : Picks(r, es, Len(es), X, f)
    BY <1>1
<1>3. n \in Nat
    BY <1>1
<1> HIDE DEF r
<1>4. /\ f \in [1 .. n -> 1 .. Len(es)]
      /\ \A i, j \in 1 .. n : i < j => f[i] < f[j]
      /\ \A i \in 1 .. Len(es) : es[i] \in X <=> \E k \in 1 .. n : f[k] = i
    BY <1>2 DEF Picks
<1> HIDE DEF n
<1>5. \A k \in 1 .. n : f[k] \in T
    BY <1>4 DEF PlacesOf
<1>6. f \in [1 .. n -> T]
    BY <1>4, <1>5
<1>7. ASSUME NEW i \in 1 .. n, NEW j \in 1 .. n, f[i] = f[j] PROVE i = j
  <2>1. f[i] \in Int /\ f[j] \in Int
    BY <1>4
  <2>2. ~ (i < j) /\ ~ (j < i)
    BY <1>4, <1>7, <2>1
  <2> QED BY <1>3, <2>2
<1>8. \A t \in T : \E k \in 1 .. n : f[k] = t
    BY <1>4 DEF PlacesOf
<1>9. f \in Bijection(1 .. n, T)
    BY <1>6, <1>7, <1>8 DEF Bijection, Injection, Surjection, IsInjective
<1>10. ExistsBijection(1 .. n, T)
    BY <1>9 DEF ExistsBijection
<1> HIDE DEF T
<1>11. Cardinality(T) = n
    BY <1>3, <1>10, FS_CountingElements
<1> QED BY <1>11 DEF T, n, r

(* The events of session s with a type of ks; no restriction if it is {}.  *)
AskedOf(s, ks) == {e \in Event : e.session = s /\ (ks # {} => e.type \in ks)}

LEMMA AskedIs ==
    ASSUME events \in Seq(Event), NEW s, NEW ks
    PROVE  GetEvents(s, [types |-> ks, tools |-> {}, start |-> 0, end |-> 0], 0)
               = Filter(events, AskedOf(s, ks))
<1> DEFINE f == [types |-> ks, tools |-> {}, start |-> 0, end |-> 0]
<1>1. f.types = ks /\ f.tools = {} /\ f.start = 0 /\ f.end = 0
    OBVIOUS
<1> HIDE DEF f
<1>2. {e \in Event : e.session = s /\ matchesFilter(e, f)} = AskedOf(s, ks)
    BY <1>1 DEF AskedOf, matchesFilter
<1>3. GetEvents(s, f, 0) = Matching(events, s, f)
    BY DEF GetEvents
<1>4. Matching(events, s, f) = Filter(events, AskedOf(s, ks))
    BY <1>2 DEF Matching
<1> QED BY <1>3, <1>4 DEF f

(* The answers for all sessions together are, place by place, the events   *)
(* of the type: every event belongs to one session.                        *)
LEMMA AnswersCount ==
    ASSUME NEW es \in Seq(Event), NEW k \in EventTypes
    PROVE  Cardinality(UNION {{s} \X DOMAIN Filter(es, AskedOf(s, {k})) : s \in SessionIDs})
               = Cardinality(PlacesOf(es, {e \in Event : e.type = k}))
<1> DEFINE r(s) == Filter(es, AskedOf(s, {k}))
           A == UNION {{s} \X DOMAIN r(s) : s \in SessionIDs}
           T == PlacesOf(es, {e \in Event : e.type = k})
           P == [s \in SessionIDs |-> CHOOSE f : Picks(r(s), es, Len(es), AskedOf(s, {k}), f)]
           h == [x \in A |-> P[x[1]][x[2]]]
<1>1. ASSUME NEW s \in SessionIDs
      PROVE  /\ Picks(r(s), es, Len(es), AskedOf(s, {k}), P[s])
             /\ DOMAIN r(s) = 1 .. Len(r(s)) /\ Len(r(s)) \in Nat
  <2>1. r(s) \in Seq(Event) /\ \E f : Picks(r(s), es, Len(es), AskedOf(s, {k}), f)
    BY FilterPicks
  <2>2. P[s] = CHOOSE f : Picks(r(s), es, Len(es), AskedOf(s, {k}), f)
    OBVIOUS
  <2> HIDE DEF P, r
  <2>3. Picks(r(s), es, Len(es), AskedOf(s, {k}), P[s])
    BY <2>1, <2>2
  <2> QED BY <2>1, <2>3
<1> HIDE DEF P
<1>2. ASSUME NEW s \in SessionIDs
      PROVE  /\ \A i \in DOMAIN r(s) : P[s][i] \in 1 .. Len(es)
             /\ \A i, j \in DOMAIN r(s) : P[s][i] = P[s][j] => i = j
             /\ \A i \in 1 .. Len(es) :
                    es[i] \in AskedOf(s, {k}) <=> \E j \in DOMAIN r(s) : P[s][j] = i
  <2> DEFINE q == r(s)
             f == P[s]
  <2>1. /\ Picks(q, es, Len(es), AskedOf(s, {k}), f)
        /\ DOMAIN q = 1 .. Len(q) /\ Len(q) \in Nat
    BY <1>1
  <2> HIDE DEF q, f
  <2>2. /\ \A i \in 1 .. Len(q) : f[i] \in 1 .. Len(es)
        /\ \A i, j \in 1 .. Len(q) : i < j => f[i] < f[j]
        /\ \A i \in 1 .. Len(es) :
               es[i] \in AskedOf(s, {k}) <=> \E j \in 1 .. Len(q) : f[j] = i
    BY <2>1 DEF Picks
  <2>3. ASSUME NEW i \in 1 .. Len(q), NEW j \in 1 .. Len(q), f[i] = f[j] PROVE i = j
    <3>1. f[i] \in Int /\ f[j] \in Int
      BY <2>2
    <3>2. ~ (i < j) /\ ~ (j < i)
      BY <2>2, <2>3, <3>1
    <3> QED BY <2>1, <3>2
  <2> QED BY <2>1, <2>2, <2>3 DEF q, f
<1> DEFINE D(s) == DOMAIN r(s)
<1>3. /\ \A x \in A : x[1] \in SessionIDs /\ x[2] \in D(x[1]) /\ x = <<x[1], x[2]>>
      /\ \A s \in SessionIDs : \A j \in D(s) : <<s, j>> \in A
  <2> HIDE DEF r, D
  <2>1. A = UNION {{s} \X D(s) : s \in SessionIDs}
    BY DEF D
  <2> QED BY <2>1
<1>4. \A i \in 1 .. Len(es) : /\ es[i] \in Event /\ es[i].session \in SessionIDs
                              /\ \A s : es[i] \in AskedOf(s, {k}) <=>
                                            es[i].session = s /\ es[i].type = k
  <2>1. \A i \in 1 .. Len(es) : es[i] \in Event
    OBVIOUS
  <2> QED BY <2>1, EventFields DEF AskedOf
<1> HIDE DEF r, D, A
<1>5. \A x \in A : h[x] = P[x[1]][x[2]]
    OBVIOUS
<1>6. ASSUME NEW x \in A
      PROVE  /\ h[x] \in 1 .. Len(es) /\ h[x] \in T
             /\ es[h[x]].session = x[1]
  <2>1. x[1] \in SessionIDs /\ x[2] \in D(x[1])
    BY <1>3
  <2>2. h[x] \in 1 .. Len(es) /\ es[h[x]] \in AskedOf(x[1], {k})
    BY <1>2, <1>5, <2>1 DEF D
  <2> QED BY <1>4, <2>2 DEF PlacesOf
<1>7. h \in [A -> T]
    BY <1>6
<1> HIDE DEF h
<1>8. ASSUME NEW x \in A, NEW y \in A, h[x] = h[y] PROVE x = y
  <2>1. x[1] = y[1]
    <3>1. es[h[x]].session = x[1] /\ es[h[y]].session = y[1]
      BY <1>6
    <3> QED BY <1>8, <3>1
  <2>2. x[2] = y[2]
    BY <1>2, <1>3, <1>5, <1>8, <2>1 DEF D
  <2> QED BY <1>3, <2>1, <2>2
<1>9. ASSUME NEW i \in T PROVE \E x \in A : h[x] = i
  <2>1. /\ i \in 1 .. Len(es) /\ es[i] \in AskedOf(es[i].session, {k})
        /\ es[i].session \in SessionIDs
    BY <1>4 DEF PlacesOf
  <2>2. PICK j \in D(es[i].session) : P[es[i].session][j] = i
    BY <1>2, <2>1 DEF D
  <2> DEFINE x == <<es[i].session, j>>
  <2>3. x \in A /\ x[1] = es[i].session /\ x[2] = j
    BY <1>3, <2>1, <2>2
  <2> QED BY <1>5, <2>2, <2>3
<1>10. h \in Bijection(A, T)
    BY <1>7, <1>8, <1>9 DEF Bijection, Injection, Surjection, IsInjective
<1>11. ExistsBijection(A, T)
    BY <1>10 DEF ExistsBijection
<1>12. IsFiniteSet(T)
    BY PlacesOfFinite
<1> HIDE DEF T
<1>13. ExistsBijection(T, A)
    BY <1>11, Fun_ExistsBijSymmetric
<1>14. Cardinality(A) = Cardinality(T)
    BY <1>12, <1>13, FS_Bijection
<1> QED BY <1>14 DEF A, T, r

(***************************************************************************)
(* Whatever was stored and pruned, the statistics count for each type what *)
(* the queries of the sessions return together, and as active the sessions *)
(* whose query returns something (memory_event_store.go, GetStats against  *)
(* GetEvents).                                                             *)
(***************************************************************************)
THEOREM StatsAgreeWithQueries == Spec => []StatsMatchQueries
<1>1. EventInv => StatsMatchQueries
  <2> SUFFICES ASSUME EventInv PROVE StatsMatchQueries
    OBVIOUS
  <2>1. events \in Seq(Event)
    BY DEF EventInv, EventTyped
  <2> DEFINE asked(s, ks) == GetEvents(s, [types |-> ks, tools |-> {}, start |-> 0,
                                           end |-> 0], 0)
  <2>2. \A s, ks : asked(s, ks) = Filter(events, AskedOf(s, ks))
    BY <2>1, AskedIs
  <2>3. ASSUME NEW k \in EventTypes
        PROVE  GetStats.EventsByType[k] =
                   Cardinality(UNION {{s} \X DOMAIN asked(s, {k}) : s \in SessionIDs})
    <3>1. GetStats.EventsByType[k] = Len(Filter(events, {e \in Event : e.type = k}))
      BY DEF GetStats, Count
    <3> DEFINE X == {e \in Event : e.type = k}
    <3>2. Len(Filter(events, X)) = Cardinality(PlacesOf(events, X))
      <4> HIDE DEF X
      <4> QED BY <2>1, FilterCount
    <3>3. Cardinality(UNION {{s} \X DOMAIN Filter(events, AskedOf(s, {k})) : s \in SessionIDs})
              = Cardinality(PlacesOf(events, X))
      BY <2>1, AnswersCount
    <3> HIDE DEF asked, X
    <3>4. UNION {{s} \X DOMAIN Filter(events, AskedOf(s, {k})) : s \in SessionIDs}
              = UNION {{s} \X DOMAIN asked(s, {k}) : s \in SessionIDs}
      BY <2>2
    <3> QED BY <3>1, <3>2, <3>3, <3>4 DEF X
  <2>4. {events[i].session : i \in DOMAIN events} = {s \in SessionIDs : asked(s, {}) # <<>>}
    <3>1. ASSUME NEW s
          PROVE  asked(s, {}) # <<>> <=> \E i \in 1 .. Len(events) : events[i].session = s
      <4> DEFINE Y == AskedOf(s, {})
                 r == Filter(events, Y)
      <4>1. asked(s, {}) = r
        BY <2>2
      <4>2. r \in Seq(Event) /\ \E f : Picks(r, events, Len(events), Y, f)
        <5> HIDE DEF Y
        <5> QED BY <2>1, FilterPicks
      <4>3. PICK f : Picks(r, events, Len(events), Y, f)
        BY <4>2
      <4> HIDE DEF r, asked
      <4>4. /\ \A i \in 1 .. Len(r) : f[i] \in 1 .. Len(events)
            /\ \A i \in 1 .. Len(events) :
                   events[i] \in Y <=> \E j \in 1 .. Len(r) : f[j] = i
        BY <4>3 DEF Picks
      <4>5. r # <<>> <=> \E j \in 1 .. Len(r) : TRUE
        BY <4>2
      <4>6. \A i \in 1 .. Len(events) : events[i] \in Y <=> events[i].session = s
        BY <2>1 DEF AskedOf
      <4> HIDE DEF Y
      <4>7. (\E j \in 1 .. Len(r) : TRUE) <=> \E i \in 1 .. Len(events) : events[i] \in Y
        BY <4>4
      <4> QED BY <4>1, <4>5, <4>6, <4>7
    <3>2. /\ DOMAIN events = 1 .. Len(events)
          /\ \A i \in DOMAIN events : events[i].session \in SessionIDs
      <4>1. DOMAIN events = 1 .. Len(events) /\ \A i \in DOMAIN events : events[i] \in Event
        BY <2>1
      <4> QED BY <4>1, EventFields
    <3> HIDE DEF asked
    <3> QED BY <3>1, <3>2
  <2>5. GetStats.ActiveSessions = Cardinality({events[i].session : i \in DOMAIN events})
    BY DEF GetStats
  <2>6. GetStats.ActiveSessions = Cardinality({s \in SessionIDs : asked(s, {}) # <<>>})
    BY <2>4, <2>5
  <2> QED BY <2>3, <2>6 DEF StatsMatchQueries
<1> QED BY <1>1, EventInvInit, EventInvStep, PTL DEF Spec
============================================================================
