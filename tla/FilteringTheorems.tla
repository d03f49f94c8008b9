-------------------------- MODULE FilteringTheorems --------------------------
(***************************************************************************)
(* Induction over the natural numbers and definitions by recursion, stated *)
(* for sets and functions, and with them what Where returns for every      *)
(* sequence.                                                               *)
(***************************************************************************)
EXTENDS Filtering, Functions, WellFoundedInduction, TLAPS


\* Every inhabited set of natural numbers has a least element.
LEMMA LeastNumber ==
    ASSUME NEW T \in SUBSET Nat, T # {}
    PROVE  \E x \in T : \A y \in T : x <= y
<1> DEFINE R == OpToRel(<, Nat)
<1>1. IsWellFoundedOn(R, Nat)
  BY NatLessThanWellFounded, Zenon
<1>2. \A x, y \in Nat : <<y, x>> \in R <=> y < x
  BY Zenon DEF OpToRel
<1> HIDE DEF R
<1>3. PICK x \in T : \A y \in T : ~(<<y, x>> \in R)
  BY <1>1, WFMin, Zenon
<1>4. ASSUME NEW y \in T PROVE x <= y
  <2>1. ~(y < x)
    BY <1>2, <1>3, Zenon
  <2> QED
    BY <2>1
<1> QED
  BY <1>4, Zenon

\* Induction, for a set instead of a predicate.
LEMMA SetInduction ==
    ASSUME NEW S \in SUBSET Nat, 0 \in S, \A n \in S : n + 1 \in S
    PROVE  S = Nat
<1> SUFFICES ASSUME Nat \ S # {} PROVE FALSE
  BY Zenon
<1>1. PICK x \in Nat \ S : \A y \in Nat \ S : x <= y
  BY LeastNumber, Zenon
<1> QED
  BY <1>1

\* A bounded set of numbers has a greatest one.
LEMMA GreatestNumber ==
    ASSUME NEW n \in Nat, NEW T \in SUBSET (0 .. n), T # {}
    PROVE  \E x \in T : \A y \in T : x >= y
<1> DEFINE D == {n - x : x \in T}
<1>1. D \in SUBSET Nat /\ D # {}
  <2>1. \A x \in T : n - x \in Nat
    OBVIOUS
  <2> QED
    BY <2>1, Zenon
<1>2. PICK d \in D : \A y \in D : d <= y
  BY <1>1, LeastNumber, Zenon
<1>3. PICK x \in T : d = n - x
  BY Zenon
<1>4. ASSUME NEW y \in T PROVE x >= y
  <2>1. d <= n - y
    BY <1>2, Zenon
  <2> QED
    BY <1>3, <2>1
<1> QED
  BY <1>4, Zenon

\* A function given by its first value and by a step exists.
LEMMA Recursion ==
    ASSUME NEW X, NEW first \in X, NEW n \in Nat, NEW step \in [1 .. n -> [X -> X]]
    PROVE  \E f \in [0 .. n -> X] : f[0] = first /\ \A i \in 1 .. n : f[i] = step[i][f[i - 1]]
<1> DEFINE Good(f, m) == f[0] = first /\ \A i \in 1 .. m : f[i] = step[i][f[i - 1]]
           S == {m \in Nat : m <= n => \E f \in [0 .. m -> X] : Good(f, m)}
<1>1. 0 \in S
  <2>1. [i \in 0 .. 0 |-> first] \in [0 .. 0 -> X] /\ Good([i \in 0 .. 0 |-> first], 0)
    OBVIOUS
  <2> QED
    BY <2>1, Zenon
<1>2. ASSUME NEW m \in S PROVE m + 1 \in S
  <2> SUFFICES ASSUME m \in Nat, m + 1 <= n
               PROVE  \E f \in [0 .. m + 1 -> X] : Good(f, m + 1)
    <3> HIDE DEF Good
    <3> QED
      OBVIOUS
  <2>1. PICK f \in [0 .. m -> X] : Good(f, m)
    OBVIOUS
  <2> DEFINE g == [i \in 0 .. m + 1 |-> IF i <= m THEN f[i] ELSE step[m + 1][f[m]]]
  <2>2. m \in Nat /\ m + 1 \in 1 .. n
    OBVIOUS
  <2>3. g \in [0 .. m + 1 -> X]
    <3>1. step[m + 1][f[m]] \in X
      BY <2>2
    <3> QED
      BY <2>2, <3>1
  <2>4. g[0] = first /\ g[m + 1] = step[m + 1][g[m]]
    BY <2>1, <2>2
  <2>5. \A i \in 1 .. m : g[i] = step[i][g[i - 1]]
    BY <2>1, <2>2
  <2>6. Good(g, m + 1)
    <3> HIDE DEF g
    <3> QED
      BY <2>2, <2>4, <2>5
  <2> QED
    BY <2>3, <2>6, Zenon
<1>3. S = Nat
  <2> HIDE DEF S
  <2>1. S \in SUBSET Nat
    BY Zenon DEF S
  <2> QED
    BY <1>1, <1>2, <2>1, SetInduction, Zenon
<1> QED
  BY <1>3

\* The elements at the positions h, in their order, are those of s that belong to S.
Picks(s, S, w, h, n) ==
    /\ h \in [1 .. Len(w) -> 1 .. n]
    /\ \A i, j \in 1 .. Len(w) : i < j => h[i] < h[j]
    /\ \A i \in 1 .. Len(w) : w[i] = s[h[i]] /\ s[h[i]] \in S
    /\ \A k \in 1 .. n : s[k] \in S => \E i \in 1 .. Len(w) : h[i] = k

\* Where keeps the elements of s that belong to S, each once, and their order.
LEMMA WherePicks ==
    ASSUME NEW T, NEW s \in Seq(T), NEW S
    PROVE  Where(s, S) \in Seq(T) /\ \E h : Picks(s, S, Where(s, S), h, Len(s))
<1> DEFINE N == Len(s)
           Kept(f) == [n \in 0 .. N |->
                         IF n = 0 THEN <<>>
                         ELSE IF s[n] \in S THEN Append(f[n - 1], s[n]) ELSE f[n - 1]]
<1>1. \E f : f = Kept(f)
  <2> DEFINE step == [i \in 1 .. N |-> [q \in Seq(T) |->
                        IF s[i] \in S THEN Append(q, s[i]) ELSE q]]
  <2>1. step \in [1 .. N -> [Seq(T) -> Seq(T)]] /\ <<>> \in Seq(T) /\ N \in Nat
    OBVIOUS
  <2>2. PICK f \in [0 .. N -> Seq(T)] :
            f[0] = <<>> /\ \A i \in 1 .. N : f[i] = step[i][f[i - 1]]
    <3> DEFINE X == Seq(T)
               first == <<>>
    <3>1. step \in [1 .. N -> [X -> X]] /\ first \in X /\ N \in Nat
      BY <2>1, Zenon
    <3> HIDE DEF step, N, Kept, X, first
    <3>2. \E f \in [0 .. N -> X] : f[0] = first /\ \A i \in 1 .. N : f[i] = step[i][f[i - 1]]
      BY <3>1, Recursion
    <3> QED
      BY <3>2, Zenon DEF X, first
  <2>3. ASSUME NEW i \in 1 .. N
        PROVE  f[i] = IF s[i] \in S THEN Append(f[i - 1], s[i]) ELSE f[i - 1]
    <3>1. f[i - 1] \in Seq(T)
      <4> HIDE DEF step, N, Kept
      <4> QED
        BY <2>1
    <3>2. step[i][f[i - 1]] = IF s[i] \in S THEN Append(f[i - 1], s[i]) ELSE f[i - 1]
      BY <3>1, Zenon
    <3> HIDE DEF step
    <3> QED
      BY <2>2, <3>2, Zenon
  <2>4. f = Kept(f)
    <3> HIDE DEF step, N
    <3>1. ASSUME NEW n \in 0 .. N PROVE f[n] = Kept(f)[n]
      <4>1. CASE n = 0
        BY <2>1, <2>2, <4>1, Zenon
      <4>2. CASE n # 0
        <5>1. n \in 1 .. N
          BY <2>1, <4>2
        <5>2. Kept(f)[n] = IF s[n] \in S THEN Append(f[n - 1], s[n]) ELSE f[n - 1]
          BY <4>2, Zenon
        <5> HIDE DEF Kept
        <5> QED
          BY <5>1, <5>2, <2>3, Zenon
      <4> QED
        BY <4>1, <4>2, Zenon
    <3> QED
      BY <3>1, Zenon
  <2> QED
    BY <2>4, Zenon
<1>2. PICK f : f = Kept(f) /\ Where(s, S) = f[N]
  BY <1>1, Zenon DEF Where
<1> DEFINE A == {n \in Nat : n <= N => f[n] \in Seq(T) /\ \E h : Picks(s, S, f[n], h, n)}
<1>3. 0 \in A
  <2>1. f[0] = <<>>
    BY <1>2
  <2>2. Picks(s, S, f[0], [i \in 1 .. 0 |-> 1], 0)
    BY <2>1 DEF Picks
  <2>3. f[0] \in Seq(T) /\ \E h : Picks(s, S, f[0], h, 0)
    BY <2>1, <2>2
  <2> HIDE DEF Kept, N
  <2> QED
    BY <2>3, Zenon
<1>4. ASSUME NEW n \in A PROVE n + 1 \in A
  <2> SUFFICES ASSUME n + 1 <= N
               PROVE  f[n + 1] \in Seq(T) /\ \E h : Picks(s, S, f[n + 1], h, n + 1)
    OBVIOUS
  <2>1. f[n] \in Seq(T) /\ n \in Nat /\ s[n + 1] \in T
    OBVIOUS
  <2>2. PICK h : Picks(s, S, f[n], h, n)
    OBVIOUS
  <2>3. f[n + 1] = IF s[n + 1] \in S THEN Append(f[n], s[n + 1]) ELSE f[n]
    <3>1. f[n + 1] = Kept(f)[n + 1]
      BY <1>2, Zenon
    <3>2. n + 1 \in 0 .. N /\ n + 1 # 0 /\ (n + 1) - 1 = n
      BY <2>1
    <3> QED
      BY <3>1, <3>2, Zenon
  <2> HIDE DEF A, Kept
  <2>4. CASE s[n + 1] \in S
    <3> DEFINE m == Len(f[n]) + 1
               g == [i \in 1 .. m |-> IF i = m THEN n + 1 ELSE h[i]]
    <3>1. /\ f[n + 1] \in Seq(T) /\ Len(f[n + 1]) = m /\ f[n + 1][m] = s[n + 1]
          /\ \A i \in 1 .. m - 1 : f[n + 1][i] = f[n][i]
          /\ m \in Nat \ {0}
      BY <2>1, <2>3, <2>4
    <3> HIDE DEF m
    <3>2. Len(f[n]) = m - 1
      BY <3>1 DEF m
    <3>3. Picks(s, S, f[n + 1], g, n + 1)
      <4>1. g \in [1 .. m -> 1 .. n + 1]
        BY <2>1, <2>2, <3>1, <3>2 DEF Picks
      <4>2. \A i, j \in 1 .. m : i < j => g[i] < g[j]
        BY <2>1, <2>2, <3>1, <3>2 DEF Picks
      <4>3. \A i \in 1 .. m : f[n + 1][i] = s[g[i]] /\ s[g[i]] \in S
        BY <2>1, <2>2, <3>1, <3>2, <2>4 DEF Picks
      <4>4. \A k \in 1 .. n + 1 : s[k] \in S => \E i \in 1 .. m : g[i] = k
        <5> TAKE k \in 1 .. n + 1
        <5> HAVE s[k] \in S
        <5>1. CASE k = n + 1
          BY <5>1, <3>1
        <5>2. CASE k # n + 1
          <6>1. k \in 1 .. n
            BY <5>2, <2>1
          <6>2. PICK i \in 1 .. m - 1 : h[i] = k
            BY <6>1, <2>2, <3>2, Zenon DEF Picks
          <6> QED
            BY <6>2, <3>1
        <5> QED
          BY <5>1, <5>2, Zenon
      <4> QED
        BY <3>1, <4>1, <4>2, <4>3, <4>4, Zenon DEF Picks
    <3> QED
      BY <3>1, <3>3, Zenon
  <2>5. CASE s[n + 1] \notin S
    <3>1. f[n + 1] = f[n]
      BY <2>3, <2>5, Zenon
    <3>2. Picks(s, S, f[n], h, n + 1)
      BY <2>1, <2>2, <2>5 DEF Picks
    <3> QED
      BY <2>1, <3>1, <3>2, Zenon
  <2> QED
    BY <2>4, <2>5, Zenon
<1>5. A = Nat
  <2> HIDE DEF A
  <2>1. A \in SUBSET Nat
    BY Zenon DEF A
  <2> QED
    BY <1>3, <1>4, <2>1, SetInduction, Zenon
<1>6. N \in A
  BY <1>5
<1> QED
  BY <1>2, <1>6

\* Nothing else is kept, and nothing that belongs to S is lost.
LEMMA WhereRange ==
    ASSUME NEW T, NEW s \in Seq(T), NEW S
    PROVE  Range(Where(s, S)) = Range(s) \cap S
<1> DEFINE w == Where(s, S)
<1>1. w \in Seq(T) /\ \E h : Picks(s, S, w, h, Len(s))
  BY WherePicks, Zenon
<1> HIDE DEF w
<1>2. PICK h : Picks(s, S, w, h, Len(s))
  BY <1>1, Zenon
<1>3. DOMAIN s = 1 .. Len(s) /\ DOMAIN w = 1 .. Len(w)
  BY <1>1
<1>4. ASSUME NEW x \in Range(w) PROVE x \in Range(s) \cap S
  <2>1. PICK i \in 1 .. Len(w) : x = w[i]
    BY <1>3, Zenon DEF Range
  <2> QED
    BY <1>2, <1>3, <2>1, Zenon DEF Picks, Range
<1>5. ASSUME NEW x \in Range(s) \cap S PROVE x \in Range(w)
  <2>1. PICK k \in 1 .. Len(s) : x = s[k]
    BY <1>3, Zenon DEF Range
  <2>2. PICK i \in 1 .. Len(w) : h[i] = k
    BY <1>2, <2>1, Zenon DEF Picks
  <2> QED
    BY <1>2, <1>3, <2>1, <2>2, Zenon DEF Picks, Range
<1>6. Range(w) = Range(s) \cap S
  BY <1>4, <1>5, Zenon
<1> QED
  BY <1>6, Zenon DEF w

\* What is kept in order was there in order.
LEMMA WhereOrder ==
    ASSUME NEW T, NEW s \in Seq(T), NEW S,
           NEW i \in 1 .. Len(Where(s, S)), NEW j \in 1 .. Len(Where(s, S)), i < j
    PROVE  \E k, l \in 1 .. Len(s) : k < l /\ Where(s, S)[i] = s[k] /\ Where(s, S)[j] = s[l]
<1> DEFINE w == Where(s, S)
<1>1. \E h : Picks(s, S, w, h, Len(s))
  BY WherePicks, Zenon
<1> HIDE DEF w
<1>2. PICK h : Picks(s, S, w, h, Len(s))
  BY <1>1, Zenon
<1>3. i \in 1 .. Len(w) /\ j \in 1 .. Len(w)
  BY Zenon DEF w
<1>4. h[i] \in 1 .. Len(s) /\ h[j] \in 1 .. Len(s) /\ h[i] < h[j]
  BY <1>2, <1>3, Zenon DEF Picks
<1>5. w[i] = s[h[i]] /\ w[j] = s[h[j]]
  BY <1>2, <1>3, Zenon DEF Picks
<1>6. \E k, l \in 1 .. Len(s) : k < l /\ w[i] = s[k] /\ w[j] = s[l]
  BY <1>4, <1>5, Zenon
<1> QED
  BY <1>6, Zenon DEF w

\* A filter that all elements pass changes nothing.
LEMMA WhereAll ==
    ASSUME NEW T, NEW s \in Seq(T), NEW S, \A k \in 1 .. Len(s) : s[k] \in S
    PROVE  Where(s, S) = s
<1> DEFINE w == Where(s, S)
           n == Len(s)
           m == Len(w)
<1>1. w \in Seq(T) /\ \E h : Picks(s, S, w, h, n)
  BY WherePicks, Zenon
<1> HIDE DEF w
<1>2. PICK h : Picks(s, S, w, h, n)
  BY <1>1, Zenon
<1>3. n \in Nat /\ m \in Nat
  BY <1>1
<1>4. /\ h \in [1 .. m -> 1 .. n]
      /\ \A i, j \in 1 .. m : i < j => h[i] < h[j]
      /\ \A i \in 1 .. m : w[i] = s[h[i]]
      /\ \A k \in 1 .. n : \E i \in 1 .. m : h[i] = k
  BY <1>2, Zenon DEF Picks
<1> HIDE DEF n, m
<1> DEFINE A == {k \in Nat : \A i \in 1 .. k : i <= m => h[i] = i}
<1>5. 0 \in A
  OBVIOUS
<1>6. ASSUME NEW k \in A PROVE k + 1 \in A
  <2>1. k \in Nat /\ \A i \in 1 .. k : i <= m => h[i] = i
    BY Zenon
  <2>2. ASSUME k + 1 <= m PROVE h[k + 1] = k + 1
    <3>1. k + 1 \in 1 .. m /\ h[k + 1] \in 1 .. n
      BY <1>3, <1>4, <2>1, <2>2
    <3>2. h[k + 1] >= k + 1
      BY <1>3, <1>4, <2>1, <2>2, <3>1
    <3>3. ASSUME h[k + 1] > k + 1 PROVE FALSE
      <4>1. k + 1 \in 1 .. n
        BY <1>3, <2>1, <3>1, <3>3
      <4>2. PICK i \in 1 .. m : h[i] = k + 1
        BY <1>4, <4>1, Zenon
      <4>3. i \notin 1 .. k
        BY <2>1, <4>2
      <4>4. i # k + 1 /\ ~(k + 1 < i)
        BY <1>4, <3>1, <3>3, <4>2
      <4> QED
        BY <2>1, <1>3, <4>3, <4>4
    <3> QED
      BY <1>3, <2>1, <3>1, <3>2, <3>3
  <2> QED
    BY <2>1, <2>2
<1>7. A = Nat
  <2> HIDE DEF A
  <2>1. A \in SUBSET Nat
    BY Zenon DEF A
  <2> QED
    BY <1>5, <1>6, <2>1, SetInduction, Zenon
<1>8. \A i \in 1 .. m : h[i] = i
  <2>1. m \in A
    BY <1>3, <1>7, Zenon
  <2> QED
    BY <1>3, <2>1
<1>9. m = n
  <2>1. ASSUME m > n PROVE FALSE
    BY <1>3, <1>4, <1>8, <2>1
  <2>2. ASSUME m < n PROVE FALSE
    <3>1. m + 1 \in 1 .. n
      BY <1>3, <2>2
    <3>2. PICK i \in 1 .. m : h[i] = m + 1
      BY <1>4, <3>1, Zenon
    <3> QED
      BY <1>3, <1>8, <3>2
  <2> QED
    BY <1>3, <2>1, <2>2
<1>10. \A i \in 1 .. n : w[i] = s[i]
  BY <1>4, <1>8, <1>9, Zenon
<1> QED
  BY <1>1, <1>9, <1>10 DEF n, m, w

\* What is kept of a sequence without repetitions has none.
LEMMA WhereInjective ==
    ASSUME NEW T, NEW s \in Seq(T), NEW S,
           \A i, k \in 1 .. Len(s) : s[i] = s[k] => i = k
    PROVE  \A i, k \in 1 .. Len(Where(s, S)) : Where(s, S)[i] = Where(s, S)[k] => i = k
<1> DEFINE w == Where(s, S)
<1>1. w \in Seq(T)
  BY WherePicks, Zenon
<1>2. ASSUME NEW i \in 1 .. Len(w), NEW k \in 1 .. Len(w), i < k PROVE w[i] # w[k]
  <2>1. PICK a, c \in 1 .. Len(s) : a < c /\ w[i] = s[a] /\ w[k] = s[c]
    BY <1>2, WhereOrder
  <2> QED
    BY <2>1
<1>3. \A i, k \in 1 .. Len(w) : i = k \/ i < k \/ k < i
  BY <1>1
<1> QED
  BY <1>2, <1>3, Zenon

\* There is no injection of 1 .. m into 1 .. n for a smaller n.
LEMMA PigeonHole ==
    ASSUME NEW m \in Nat, NEW n \in Nat, NEW f \in [1 .. m -> 1 .. n],
           \A i, k \in 1 .. m : f[i] = f[k] => i = k
    PROVE  m <= n
<1> DEFINE Injective(g, l) == \A i, k \in 1 .. l : g[i] = g[k] => i = k
           A == {p \in Nat : \A l \in Nat : \A g \in [1 .. l -> 1 .. p] : Injective(g, l) => l <= p}
<1>1. 0 \in A
  <2>1. ASSUME NEW l \in Nat, NEW g \in [1 .. l -> 1 .. 0] PROVE l <= 0
    <3>1. 1 \in 1 .. l => g[1] \in 1 .. 0
      OBVIOUS
    <3> QED
      BY <3>1
  <2> QED
    BY <2>1
<1>2. ASSUME NEW p \in A PROVE p + 1 \in A
  <2>1. ASSUME NEW l \in Nat, NEW g \in [1 .. l -> 1 .. p + 1], Injective(g, l) PROVE l <= p + 1
    <3>1. CASE l = 0
      BY <3>1
    <3>2. CASE l # 0
      <4> DEFINE h == [i \in 1 .. l - 1 |-> IF g[i] = p + 1 THEN g[l] ELSE g[i]]
      <4>1. \A i \in 1 .. l - 1 : i \in 1 .. l /\ i # l
        BY <3>2
      <4>2. l \in 1 .. l /\ l - 1 \in Nat
        BY <3>2
      <4>3. \A i \in 1 .. l - 1 : g[i] # g[l]
        BY <2>1, <4>1, <4>2, Zenon
      <4>4. h \in [1 .. l - 1 -> 1 .. p]
        BY <4>1, <4>2, <4>3
      <4>5. Injective(h, l - 1)
        <5>1. ASSUME NEW i \in 1 .. l - 1, NEW k \in 1 .. l - 1, h[i] = h[k] PROVE i = k
          <6>1. g[i] = g[k] => i = k
            BY <2>1, <4>1, Zenon
          <6>2. h[i] = (IF g[i] = p + 1 THEN g[l] ELSE g[i]) /\ h[k] = (IF g[k] = p + 1 THEN g[l] ELSE g[k])
            BY Zenon
          <6> QED
            BY <4>3, <5>1, <6>1, <6>2, Zenon
        <5> QED
          BY <5>1, Zenon
      <4> HIDE DEF h
      <4>6. l - 1 <= p
        BY <4>2, <4>4, <4>5, Zenon
      <4> QED
        BY <4>6
    <3> QED
      BY <3>1, <3>2
  <2>2. p + 1 \in Nat
    OBVIOUS
  <2> QED
    BY <2>1, <2>2, Zenon
<1>3. A = Nat
  <2> HIDE DEF A
  <2>1. A \in SUBSET Nat
    BY Zenon DEF A
  <2> QED
    BY <1>1, <1>2, <2>1, SetInduction, Zenon
<1>4. n \in A
  BY <1>3, Zenon
<1> QED
  BY <1>4, Zenon

\* The rest of a sequence without repetitions.
LEMMA TailFacts ==
    ASSUME NEW T, NEW s \in Seq(T), s # <<>>,
           \A i, k \in 1 .. Len(s) : s[i] = s[k] => i = k
    PROVE  /\ Head(s) \in T /\ Tail(s) \in Seq(T)
           /\ Range(s) = {Head(s)} \cup Range(Tail(s))
           /\ Head(s) \notin Range(Tail(s))
           /\ Range(Tail(s)) = {s[i] : i \in {k \in 1 .. Len(s) : k > 1}}
           /\ Range(s) = {s[i] : i \in 1 .. Len(s)}
           /\ \A i, k \in 1 .. Len(Tail(s)) : Tail(s)[i] = Tail(s)[k] => i = k
<1> DEFINE rest == Tail(s)
<1>1. /\ Len(s) \in Nat \ {0} /\ rest \in Seq(T) /\ Len(rest) = Len(s) - 1
      /\ DOMAIN rest = 1 .. Len(rest) /\ DOMAIN s = 1 .. Len(s)
      /\ \A i \in 1 .. Len(rest) : rest[i] = s[i + 1] /\ i + 1 \in 1 .. Len(s)
      /\ Head(s) = s[1] /\ s[1] \in T
  OBVIOUS
<1> HIDE DEF rest
<1>2. Range(rest) = {s[i] : i \in {k \in 1 .. Len(s) : k > 1}}
  <2>1. ASSUME NEW x \in Range(rest) PROVE \E i \in 1 .. Len(s) : i > 1 /\ s[i] = x
    <3>1. PICK i \in 1 .. Len(rest) : rest[i] = x
      BY <1>1, Zenon DEF Range
    <3> QED
      BY <1>1, <3>1
  <2>2. ASSUME NEW i \in 1 .. Len(s), i > 1 PROVE s[i] \in Range(rest)
    <3>1. i - 1 \in 1 .. Len(rest) /\ (i - 1) + 1 = i
      BY <1>1, <2>2
    <3> QED
      BY <1>1, <3>1 DEF Range
  <2> QED
    BY <2>1, <2>2
<1>3. Range(s) = {s[i] : i \in 1 .. Len(s)}
  BY <1>1, Zenon DEF Range
<1>4. \A i \in 1 .. Len(s) : i = 1 \/ i > 1
  BY <1>1
<1>5. 1 \in 1 .. Len(s) /\ \A i \in 1 .. Len(s) : i > 1 => i # 1
  BY <1>1
<1>6. Range(s) = {Head(s)} \cup Range(rest) /\ Head(s) \notin Range(rest)
  <2>1. Head(s) \notin Range(rest)
    BY <1>1, <1>2, <1>5
  <2>2. Range(s) = {s[1]} \cup {s[i] : i \in {k \in 1 .. Len(s) : k > 1}}
    BY <1>3, <1>4, <1>5, Zenon
  <2> QED
    BY <1>1, <1>2, <2>1, <2>2, Zenon
<1>7. \A i, k \in 1 .. Len(rest) : rest[i] = rest[k] => i = k
  BY <1>1
<1> QED
  BY <1>1, <1>2, <1>3, <1>6, <1>7, Zenon DEF rest

=============================================================================
