----------------------------- MODULE FoldLemmas -----------------------------
(* Induction, and the functions that folds and loops are defined by: that   *)
(* they exist, and that their values follow from one another.  A step is a  *)
(* function H, as a lemma cannot take an operator for one.                  *)
EXTENDS Integers, Sequences, FiniteSetsExt, FiniteSetTheorems, WellFoundedInduction, TLAPS

(* A set of natural numbers that has 0 and the successors of its members    *)
(* has them all; a proof by induction names the set and cites this.         *)
LEMMA Induction ==
  ASSUME NEW T, 0 \in T, \A n \in Nat : n \in T => n + 1 \in T
  PROVE  \A n \in Nat : n \in T
<1> SUFFICES ASSUME Nat \ T # {} PROVE FALSE
  OBVIOUS
<1> DEFINE L == Nat \ T
<1>1. \E n \in L : \A m \in L : ~(<<m, n>> \in OpToRel(<, Nat))
  BY NatLessThanWellFounded, WFMin
<1>2. PICK n \in L : \A m \in L : ~(<<m, n>> \in OpToRel(<, Nat))
  BY <1>1
<1>3. \A m \in L : ~(m < n)
  BY <1>2 DEF OpToRel
<1>4. n # 0 /\ n - 1 \in Nat /\ n - 1 \in T
  BY <1>3
<1> QED BY <1>4

(* The same up to a bound. *)
LEMMA UpTo ==
  ASSUME NEW n \in Nat, NEW T, 0 \in T, \A k \in 0 .. n - 1 : k \in T => k + 1 \in T
  PROVE  \A k \in 0 .. n : k \in T
<1> DEFINE U == {k \in Nat : k <= n => k \in T}
<1>1. 0 \in U /\ \A k \in Nat : k \in U => k + 1 \in U
  OBVIOUS
<1> HIDE DEF U
<1>2. \A k \in Nat : k \in U
  BY <1>1, Induction
<1> QED BY <1>2 DEF U
-----------------------------------------------------------------------------
LEMMA MaxIs ==
  ASSUME NEW S, S \subseteq Int, NEW m \in S, \A y \in S : m >= y
  PROVE  Max(S) = m
<1> DEFINE M == CHOOSE x \in S : \A y \in S : x >= y
<1>1. M \in S /\ \A y \in S : M >= y
  OBVIOUS
<1>2. Max(S) = M
  BY DEF Max
<1> HIDE DEF M
<1>3. M = m
  BY <1>1
<1> QED BY <1>2, <1>3

LEMMA MinIs ==
  ASSUME NEW S, S \subseteq Int, NEW m \in S, \A y \in S : m <= y
  PROVE  Min(S) = m
<1> DEFINE M == CHOOSE x \in S : \A y \in S : x <= y
<1>1. M \in S /\ \A y \in S : M <= y
  OBVIOUS
<1>2. Min(S) = M
  BY DEF Min
<1> HIDE DEF M
<1>3. M = m
  BY <1>1
<1> QED BY <1>2, <1>3

(* A set of numbers with a bound above has its greatest. *)
LEMMA MaxExists ==
  ASSUME NEW n \in Int, NEW S, S \subseteq Int, S # {}, \A y \in S : y <= n
  PROVE  Max(S) \in S /\ \A y \in S : Max(S) >= y
<1> SUFFICES \E m \in S : \A y \in S : m >= y
  BY MaxIs
<1> SUFFICES ASSUME \A m \in S : \E y \in S : y > m PROVE FALSE
  OBVIOUS
<1> PICK z \in S : TRUE
  OBVIOUS
<1> DEFINE T == {k \in Nat : \E y \in S : y >= z + k}
<1>1. 0 \in T
  OBVIOUS
<1>2. \A k \in Nat : k \in T => k + 1 \in T
  <2> SUFFICES ASSUME NEW k \in Nat, NEW y \in S, y >= z + k PROVE k + 1 \in T
    OBVIOUS
  <2>1. PICK x \in S : x > y
    OBVIOUS
  <2> QED BY <2>1
<1> HIDE DEF T
<1>3. n - z + 1 \in Nat
  OBVIOUS
<1>4. n - z + 1 \in T
  BY <1>1, <1>2, <1>3, Induction
<1> QED BY <1>4 DEF T

(* And one of natural numbers its least. *)
LEMMA MinExists ==
  ASSUME NEW n \in Int, NEW S, S \subseteq Int, S # {}, \A y \in S : n <= y
  PROVE  Min(S) \in S /\ \A y \in S : Min(S) <= y
<1> SUFFICES \E m \in S : \A y \in S : m <= y
  BY MinIs
<1> SUFFICES ASSUME \A m \in S : \E y \in S : y < m PROVE FALSE
  OBVIOUS
<1> PICK z \in S : TRUE
  OBVIOUS
<1> DEFINE T == {k \in Nat : \E y \in S : y <= z - k}
<1>1. 0 \in T
  OBVIOUS
<1>2. \A k \in Nat : k \in T => k + 1 \in T
  <2> SUFFICES ASSUME NEW k \in Nat, NEW y \in S, y <= z - k PROVE k + 1 \in T
    OBVIOUS
  <2>1. PICK x \in S : x < y
    OBVIOUS
  <2> QED BY <2>1
<1> HIDE DEF T
<1>3. z - n + 1 \in Nat
  OBVIOUS
<1>4. z - n + 1 \in T
  BY <1>1, <1>2, <1>3, Induction
<1> QED BY <1>4 DEF T
-----------------------------------------------------------------------------
(* A fold takes the greatest number out of a set until none is left.  The   *)
(* function on sets that it is defined by exists when the steps stay in X.  *)
Folding(n, base, H, g) ==
  g = [s \in SUBSET (1 .. n) |->
         IF s = {} THEN base ELSE H[<<Max(s), g[s \ {Max(s)}]>>]]

LEMMA MaxOfSome ==
  ASSUME NEW n \in Nat, NEW s, s \subseteq 1 .. n, s # {}
  PROVE  /\ Max(s) \in s /\ Max(s) \in 1 .. n
         /\ s \ {Max(s)} \subseteq 1 .. Max(s) - 1
<1>1. n \in Int /\ s \subseteq Int /\ \A y \in s : y <= n
  OBVIOUS
<1>2. Max(s) \in s /\ \A y \in s : Max(s) >= y
  BY <1>1, MaxExists
<1>3. PICK m \in 1 .. n : m = Max(s)
  BY <1>2
<1>4. \A y \in s \ {m} : y \in 1 .. m - 1
  BY <1>1, <1>2, <1>3
<1> QED BY <1>2, <1>3, <1>4

LEMMA FoldExists ==
  ASSUME NEW n \in Nat, NEW X, NEW base \in X, NEW H \in [(1 .. n) \X X -> X]
  PROVE  \E g \in [SUBSET (1 .. n) -> X] : Folding(n, base, H, g)
<1> DEFINE Exists(k) == \E g \in [SUBSET (1 .. k) -> X] : Folding(k, base, H, g)
           T == {k \in Nat : k <= n => Exists(k)}
<1>1. Exists(0)
  <2> DEFINE g == [s \in SUBSET (1 .. 0) |-> base]
  <2>1. \A s \in SUBSET (1 .. 0) : s = {}
    OBVIOUS
  <2>2. Folding(0, base, H, g) /\ g \in [SUBSET (1 .. 0) -> X]
    BY <2>1 DEF Folding
  <2> QED BY <2>2
<1>2. ASSUME NEW k \in Nat, Exists(k), k + 1 <= n PROVE Exists(k + 1)
  <2>1. PICK g \in [SUBSET (1 .. k) -> X] : Folding(k, base, H, g)
    BY <1>2
  <2> DEFINE N == 1 .. k + 1
             h == [s \in SUBSET N |->
                     IF s = {} THEN base ELSE H[<<Max(s), g[s \ {Max(s)}]>>]]
  <2>2. ASSUME NEW t \in SUBSET (1 .. k) PROVE t \in SUBSET N /\ h[t] = g[t]
    <3>1. t \in SUBSET N
      OBVIOUS
    <3>2. g[t] = IF t = {} THEN base ELSE H[<<Max(t), g[t \ {Max(t)}]>>]
      BY <2>1 DEF Folding
    <3> QED BY <3>1, <3>2
  <2>3. ASSUME NEW s \in SUBSET N, s # {}
        PROVE  Max(s) \in 1 .. n /\ s \ {Max(s)} \in SUBSET (1 .. k)
    <3>1. k + 1 \in Nat /\ s \subseteq 1 .. k + 1
      OBVIOUS
    <3>2. Max(s) \in 1 .. k + 1 /\ s \ {Max(s)} \subseteq 1 .. Max(s) - 1
      BY <2>3, <3>1, MaxOfSome
    <3>3. Max(s) \in 1 .. n /\ \A y \in 1 .. Max(s) - 1 : y \in 1 .. k
      BY <3>2, <1>2
    <3> QED BY <3>2, <3>3
  <2>4. ASSUME NEW s \in SUBSET N
        PROVE  /\ h[s] \in X
               /\ h[s] = IF s = {} THEN base ELSE H[<<Max(s), h[s \ {Max(s)}]>>]
    <3>1. CASE s = {}
      BY <3>1
    <3>2. CASE s # {}
      <4>1. Max(s) \in 1 .. n /\ s \ {Max(s)} \in SUBSET (1 .. k)
        BY <2>3, <3>2
      <4>2. h[s \ {Max(s)}] = g[s \ {Max(s)}]
        BY <4>1, <2>2
      <4>3. h[s] = H[<<Max(s), g[s \ {Max(s)}]>>]
        BY <3>2
      <4> HIDE DEF h
      <4>4. g[s \ {Max(s)}] \in X
        BY <4>1
      <4>5. H[<<Max(s), g[s \ {Max(s)}]>>] \in X
        BY <4>1, <4>4
      <4> QED BY <4>2, <4>3, <4>5, <3>2
    <3> QED BY <3>1, <3>2
  <2>5. h \in [SUBSET N -> X] /\ h = [s \in SUBSET N |-> h[s]]
    BY <2>4
  <2>6. Folding(k + 1, base, H, h)
    <3>1. \A s \in SUBSET N :
            h[s] = IF s = {} THEN base ELSE H[<<Max(s), h[s \ {Max(s)}]>>]
      BY <2>4
    <3> HIDE DEF h
    <3> QED BY <2>5, <3>1 DEF Folding
  <2> HIDE DEF h
  <2> QED BY <2>5, <2>6
<1> HIDE DEF Exists
<1>3. 0 \in T
  BY <1>1
<1>4. \A k \in Nat : k \in T => k + 1 \in T
  BY <1>2
<1>5. n \in T
  <2> HIDE DEF T
  <2> QED BY <1>3, <1>4, Induction
<1>6. Exists(n)
  BY <1>5
<1> QED BY <1>6 DEF Exists

(* What is left of 1 .. k without its greatest. *)
LEMMA Initial ==
  ASSUME NEW n \in Nat, NEW k \in 1 .. n
  PROVE  /\ 1 .. k \in SUBSET (1 .. n) /\ 1 .. k # {} /\ Max(1 .. k) = k
         /\ (1 .. k) \ {k} = 1 .. k - 1
<1>1. \A S : S = 1 .. k => S \subseteq Int /\ k \in S /\ \A y \in S : k >= y
  OBVIOUS
<1>2. Max(1 .. k) = k
  BY <1>1, MaxIs
<1> QED BY <1>2
-----------------------------------------------------------------------------
(* The first k steps of a fold, one after the other. *)
LEMMA FoldSteps ==
  ASSUME NEW n \in Nat, NEW base, NEW H, NEW g, Folding(n, base, H, g)
  PROVE  /\ g[{}] = base /\ g[1 .. 0] = base
         /\ \A k \in 1 .. n : g[1 .. k] = H[<<k, g[1 .. k - 1]>>]
<1>1. {} \in SUBSET (1 .. n) /\ 1 .. 0 = {}
  OBVIOUS
<1>2. g[{}] = base
  BY <1>1 DEF Folding
<1>3. ASSUME NEW k \in 1 .. n PROVE g[1 .. k] = H[<<k, g[1 .. k - 1]>>]
  <2>1. /\ 1 .. k \in SUBSET (1 .. n) /\ 1 .. k # {} /\ Max(1 .. k) = k
        /\ (1 .. k) \ {k} = 1 .. k - 1
    BY Initial
  <2> QED BY <2>1 DEF Folding
<1> QED BY <1>1, <1>2, <1>3

(* FoldLeft() over a sequence takes its places in this way. *)
FoldingOver(q, base, H, g) ==
  g = [s \in SUBSET DOMAIN q |->
         IF s = {} THEN base ELSE H[<<q[Max(s)], g[s \ {Max(s)}]>>]]

LEMMA PlacesOf ==
  ASSUME NEW n \in Nat, NEW q, DOMAIN q = 1 .. n
  PROVE  /\ \A s \in SUBSET DOMAIN q : s # {} =>
               Max(s) \in DOMAIN q /\ s \ {Max(s)} \in SUBSET DOMAIN q
         /\ {} \in SUBSET DOMAIN q /\ 1 .. 0 = {}
         /\ \A k \in 1 .. n : /\ 1 .. k \in SUBSET DOMAIN q /\ 1 .. k # {}
                              /\ Max(1 .. k) = k /\ (1 .. k) \ {k} = 1 .. k - 1
<1>1. ASSUME NEW s \in SUBSET DOMAIN q, s # {}
      PROVE  Max(s) \in DOMAIN q /\ s \ {Max(s)} \in SUBSET DOMAIN q
  <2>1. s \subseteq 1 .. n
    OBVIOUS
  <2>2. Max(s) \in 1 .. n
    BY <1>1, <2>1, MaxOfSome
  <2> QED BY <2>1, <2>2
<1>2. \A k \in 1 .. n : /\ 1 .. k \in SUBSET (1 .. n) /\ 1 .. k # {}
                        /\ Max(1 .. k) = k /\ (1 .. k) \ {k} = 1 .. k - 1
  BY Initial
<1>3. 1 .. 0 = {}
  OBVIOUS
<1> QED BY <1>1, <1>2, <1>3

LEMMA FoldOverExists ==
  ASSUME NEW n \in Nat, NEW q, DOMAIN q = 1 .. n, NEW S, \A i \in 1 .. n : q[i] \in S,
         NEW X, NEW base \in X, NEW H \in [S \X X -> X]
  PROVE  \E g \in [SUBSET DOMAIN q -> X] : FoldingOver(q, base, H, g)
<1> DEFINE K == [p \in (1 .. n) \X X |-> H[<<q[p[1]], p[2]>>]]
<1>1. K \in [(1 .. n) \X X -> X]
  OBVIOUS
<1>2. \A i \in 1 .. n, x \in X : K[<<i, x>>] = H[<<q[i], x>>]
  OBVIOUS
<1> HIDE DEF K
<1>3. PICK g \in [SUBSET (1 .. n) -> X] : Folding(n, base, K, g)
  BY <1>1, FoldExists
<1>4. ASSUME NEW s \in SUBSET DOMAIN q
      PROVE  g[s] = IF s = {} THEN base ELSE H[<<q[Max(s)], g[s \ {Max(s)}]>>]
  <2>1. s # {} => Max(s) \in DOMAIN q /\ s \ {Max(s)} \in SUBSET DOMAIN q
    BY PlacesOf
  <2>2. g[s] = IF s = {} THEN base ELSE K[<<Max(s), g[s \ {Max(s)}]>>]
    BY <1>3 DEF Folding
  <2> QED BY <2>1, <2>2, <1>2
<1>5. FoldingOver(q, base, H, g)
  BY <1>4 DEF FoldingOver
<1> QED BY <1>5

(* Its value is reached in rounds, one for each place. *)
FoldedBy(q, base, H, X, It) ==
  /\ It[{}] = base
  /\ \A s \in SUBSET DOMAIN q :
       s # {} /\ It[s \ {Max(s)}] \in X =>
         It[s] = H[<<q[Max(s)], It[s \ {Max(s)}]>>]
FoldRun(n, q, base, H, x, result) ==
  /\ x[0] = base /\ x[n] = result
  /\ \A k \in 1 .. n : x[k] = H[<<q[k], x[k - 1]>>]

LEMMA FoldRounds ==
  ASSUME NEW n \in Nat, NEW q, DOMAIN q = 1 .. n, NEW D, \A i \in 1 .. n : q[i] \in D,
         NEW X, NEW base \in X, NEW H \in [D \X X -> X], NEW It,
         FoldedBy(q, base, H, X, It)
  PROVE  \E x \in [0 .. n -> X] : FoldRun(n, q, base, H, x, It[DOMAIN q])
<1> DEFINE x == [k \in 0 .. n |-> It[1 .. k]]
<1>1. x[0] = base
  BY PlacesOf DEF FoldedBy
<1>2. ASSUME NEW k \in 1 .. n, x[k - 1] \in X
      PROVE  x[k] = H[<<q[k], x[k - 1]>>] /\ x[k] \in X
  <2>1. /\ 1 .. k \in SUBSET DOMAIN q /\ 1 .. k # {}
        /\ Max(1 .. k) = k /\ (1 .. k) \ {k} = 1 .. k - 1
    BY PlacesOf
  <2>2. x[k] = It[1 .. k] /\ x[k - 1] = It[1 .. k - 1]
    OBVIOUS
  <2>3. q[k] \in D
    OBVIOUS
  <2> HIDE DEF x
  <2> QED BY <1>2, <2>1, <2>2, <2>3 DEF FoldedBy
<1>3. x[n] = It[DOMAIN q]
  OBVIOUS
<1> HIDE DEF x
<1> DEFINE T == {k \in Nat : x[k] \in X}
<1>4. 0 \in T /\ \A k \in 0 .. n - 1 : k \in T => k + 1 \in T
  <2>1. 0 \in T
    BY <1>1
  <2>2. ASSUME NEW k \in 0 .. n - 1, k \in T PROVE k + 1 \in T
    <3>1. k + 1 \in 1 .. n /\ (k + 1) - 1 = k /\ x[k] \in X
      BY <2>2
    <3>2. x[(k + 1) - 1] \in X
      BY <3>1
    <3>3. x[k + 1] \in X
      BY <1>2, <3>1, <3>2
    <3> QED BY <3>3
  <2> HIDE DEF T
  <2> QED BY <2>1, <2>2
<1>5. \A k \in 0 .. n : k \in T
  <2> HIDE DEF T
  <2> QED BY <1>4, UpTo
<1>6. x \in [0 .. n -> X]
  BY <1>5 DEF x
<1>7. \A k \in 1 .. n : x[k] = H[<<q[k], x[k - 1]>>]
  <2> SUFFICES ASSUME NEW k \in 1 .. n PROVE x[k] = H[<<q[k], x[k - 1]>>]
    OBVIOUS
  <2>1. k - 1 \in 0 .. n
    OBVIOUS
  <2> QED BY <1>2, <1>5, <2>1
<1> QED BY <1>1, <1>3, <1>6, <1>7 DEF FoldRun

(* A loop with a counter: the value at i is made of the one at i - 1. *)
Looping(n, base, H, g) ==
  g = [i \in 0 .. n |-> IF i = 0 THEN base ELSE H[<<i, g[i - 1]>>]]

LEMMA LoopExists ==
  ASSUME NEW n \in Nat, NEW X, NEW base \in X, NEW H \in [(1 .. n) \X X -> X]
  PROVE  \E g \in [0 .. n -> X] : Looping(n, base, H, g)
<1>1. PICK f \in [SUBSET (1 .. n) -> X] : Folding(n, base, H, f)
  BY FoldExists
<1> DEFINE g == [i \in 0 .. n |-> f[1 .. i]]
<1>2. ASSUME NEW i \in 0 .. n PROVE g[i] \in X
  <2>1. 1 .. i \in SUBSET (1 .. n)
    OBVIOUS
  <2> QED BY <2>1
<1>3. ASSUME NEW i \in 0 .. n PROVE g[i] = IF i = 0 THEN base ELSE H[<<i, g[i - 1]>>]
  <2>1. CASE i = 0
    BY <2>1, <1>1, FoldSteps
  <2>2. CASE i # 0
    <3>1. i \in 1 .. n /\ i - 1 \in 0 .. n
      BY <2>2
    <3>2. f[1 .. i] = H[<<i, f[1 .. i - 1]>>]
      BY <1>1, <3>1, FoldSteps
    <3> QED BY <3>1, <3>2, <2>2
  <2> QED BY <2>1, <2>2
<1>4. g \in [0 .. n -> X] /\ DOMAIN g = 0 .. n
  BY <1>2
<1> HIDE DEF g
<1>5. Looping(n, base, H, g)
  BY <1>3, <1>4 DEF Looping
<1> QED BY <1>4, <1>5

(* All of D is in T if each member is that has all below it in T, m being a *)
(* height in D.                                                             *)
LEMMA HeightInduction ==
  ASSUME NEW D, NEW m \in [D -> Nat], NEW T,
         \A d \in D : (\A e \in D : m[e] < m[d] => e \in T) => d \in T
  PROVE  \A d \in D : d \in T
<1> DEFINE U == {k \in Nat : \A d \in D : m[d] < k => d \in T}
<1>1. 0 \in U
  OBVIOUS
<1>2. \A k \in Nat : k \in U => k + 1 \in U
  <2> SUFFICES ASSUME NEW k \in Nat, k \in U, NEW d \in D, m[d] < k + 1
               PROVE  d \in T
    OBVIOUS
  <2>1. \A e \in D : m[e] < m[d] => e \in T
    OBVIOUS
  <2> QED BY <2>1
<1>3. \A k \in Nat : k \in U
  <2> HIDE DEF U
  <2> QED BY <1>1, <1>2, Induction
<1>4. \A d \in D : m[d] + 1 \in U /\ m[d] < m[d] + 1
  <2> HIDE DEF U
  <2> QED BY <1>3
<1> QED BY <1>4

(* A recursion that goes from d to next[d] and makes its value of the one    *)
(* there, or ends with out[d]: the function exists if the height falls.     *)
Recursion(D, Stop, out, next, H, f) ==
  f = [d \in D |-> IF d \in Stop THEN out[d] ELSE H[<<d, f[next[d]]>>]]

LEMMA RecursionExists ==
  ASSUME NEW D, NEW R, NEW Stop, NEW out \in [D -> R], NEW next \in [D -> D],
         NEW H \in [D \X R -> R], NEW m \in [D -> Nat], \A d \in D : d \in Stop \/ m[next[d]] < m[d]
  PROVE  \E f \in [D -> R] : Recursion(D, Stop, out, next, H, f)
<1> DEFINE Right(k, f) ==
             \A d \in D : m[d] < k =>
               f[d] = IF d \in Stop THEN out[d] ELSE H[<<d, f[next[d]]>>]
           Good(k) == \E f \in [D -> R] : Right(k, f)
           Same(k) == \A f, g \in [D -> R] : Right(k, f) /\ Right(k, g) =>
                        \A d \in D : m[d] < k => f[d] = g[d]
           F(k) == CHOOSE f \in [D -> R] : Right(k, f)
<1>1. \A k \in Nat : Good(k)
  <2> DEFINE T == {k \in Nat : Good(k)}
  <2>1. Good(0)
    OBVIOUS
  <2>2. ASSUME NEW k \in Nat, Good(k) PROVE Good(k + 1)
    <3>1. PICK f \in [D -> R] : Right(k, f)
      BY <2>2
    <3> DEFINE g == [d \in D |-> IF d \in Stop THEN out[d] ELSE H[<<d, f[next[d]]>>]]
    <3>2. g \in [D -> R]
      <4>1. \A d \in D : f[next[d]] \in R
        OBVIOUS
      <4> QED BY <4>1
    <3>3. ASSUME NEW d \in D, m[d] < k + 1
          PROVE  g[d] = IF d \in Stop THEN out[d] ELSE H[<<d, g[next[d]]>>]
      <4>1. CASE d \in Stop
        BY <4>1
      <4>2. CASE d \notin Stop
        <5>1. next[d] \in D /\ m[next[d]] < k
          BY <4>2, <3>3
        <5>2. f[next[d]] = g[next[d]]
          BY <5>1, <3>1
        <5> QED BY <4>2, <5>2
      <4> QED BY <4>1, <4>2
    <3> HIDE DEF g
    <3>4. Right(k + 1, g)
      BY <3>3
    <3> HIDE DEF Right
    <3> QED BY <3>2, <3>4
  <2> HIDE DEF Good
  <2>3. 0 \in T /\ \A k \in Nat : k \in T => k + 1 \in T
    BY <2>1, <2>2
  <2>4. \A k \in Nat : k \in T
    <3> HIDE DEF T
    <3> QED BY <2>3, Induction
  <2> QED BY <2>4
<1>2. \A k \in Nat : Same(k)
  <2> DEFINE T == {k \in Nat : Same(k)}
  <2>1. Same(0)
    OBVIOUS
  <2>2. ASSUME NEW k \in Nat, Same(k) PROVE Same(k + 1)
    <3> SUFFICES ASSUME NEW f \in [D -> R], NEW g \in [D -> R],
                        Right(k + 1, f), Right(k + 1, g),
                        NEW d \in D, m[d] < k + 1
                 PROVE  f[d] = g[d]
      OBVIOUS
    <3>1. CASE d \in Stop
      BY <3>1
    <3>2. CASE d \notin Stop
      <4>1. next[d] \in D /\ m[next[d]] < k
        BY <3>2
      <4>2. Right(k, f) /\ Right(k, g)
        OBVIOUS
      <4>3. f[next[d]] = g[next[d]]
        BY <4>1, <4>2, <2>2
      <4> QED BY <3>2, <4>3
    <3> QED BY <3>1, <3>2
  <2> HIDE DEF Same
  <2>3. 0 \in T /\ \A k \in Nat : k \in T => k + 1 \in T
    BY <2>1, <2>2
  <2>4. \A k \in Nat : k \in T
    <3> HIDE DEF T
    <3> QED BY <2>3, Induction
  <2> QED BY <2>4
<1> DEFINE h == [d \in D |-> F(m[d] + 1)[d]]
<1>3. \A k \in Nat : F(k) \in [D -> R] /\ Right(k, F(k))
  <2> HIDE DEF Right
  <2> QED BY <1>1
<1>4. ASSUME NEW d \in D
      PROVE  /\ h[d] \in R
             /\ h[d] = IF d \in Stop THEN out[d] ELSE H[<<d, h[next[d]]>>]
  <2> DEFINE f == F(m[d] + 1)  g == F(m[next[d]] + 1)
  <2>1. m[d] + 1 \in Nat /\ m[next[d]] + 1 \in Nat /\ next[d] \in D
    OBVIOUS
  <2>2. f \in [D -> R] /\ Right(m[d] + 1, f) /\ g \in [D -> R]
        /\ Right(m[next[d]] + 1, g) /\ h[d] = f[d] /\ h[next[d]] = g[next[d]]
    <3> HIDE DEF F, Right
    <3> QED BY <2>1, <1>3
  <2> HIDE DEF f, g, h
  <2>3. CASE d \in Stop
    <3>1. m[d] < m[d] + 1
      BY <2>1
    <3>2. f[d] = out[d]
      BY <2>2, <2>3, <3>1
    <3> QED BY <2>2, <2>3, <3>2
  <2>4. CASE d \notin Stop
    <3>1. m[next[d]] + 1 <= m[d] + 1 /\ m[next[d]] < m[next[d]] + 1
      BY <2>1, <2>4
    <3>2. Right(m[next[d]] + 1, f)
      BY <2>1, <2>2, <3>1
    <3>3. f[next[d]] = g[next[d]]
      <4> HIDE DEF Right
      <4>1. Same(m[next[d]] + 1)
        BY <2>1, <1>2
      <4> QED BY <2>1, <2>2, <3>1, <3>2, <4>1
    <3> QED BY <2>1, <2>2, <2>4, <3>3
  <2> QED BY <2>3, <2>4
<1>5. h \in [D -> R] /\ DOMAIN h = D
  BY <1>4
<1> HIDE DEF h
<1>6. Recursion(D, Stop, out, next, H, h)
  BY <1>4, <1>5 DEF Recursion
<1> QED BY <1>5, <1>6

(* The same where the last value is that of the whole, as in a loop. *)
Rounds(D, Stop, out, next, f) ==
  f = [d \in D |-> IF d \in Stop THEN out[d] ELSE f[next[d]]]

LEMMA RoundsExist ==
  ASSUME NEW D, NEW R, NEW Stop, NEW out \in [D -> R], NEW next \in [D -> D],
         NEW m \in [D -> Nat], \A d \in D : d \in Stop \/ m[next[d]] < m[d]
  PROVE  \E f \in [D -> R] : Rounds(D, Stop, out, next, f)
<1> DEFINE H == [p \in D \X R |-> p[2]]
<1>1. H \in [D \X R -> R]
  OBVIOUS
<1> HIDE DEF H
<1>2. PICK f \in [D -> R] : Recursion(D, Stop, out, next, H, f)
  BY <1>1, RecursionExists
<1>3. \A d \in D : H[<<d, f[next[d]]>>] = f[next[d]]
  BY DEF H
<1>4. Rounds(D, Stop, out, next, f)
  BY <1>2, <1>3 DEF Recursion, Rounds
<1> QED BY <1>4
-----------------------------------------------------------------------------
(* Sums over a finite set, taken in the order that CHOOSE gives. *)
Summing(S, f, g) ==
  g = [s \in SUBSET S |->
         IF s = {} THEN 0
         ELSE f[CHOOSE x \in s : TRUE] + g[s \ {CHOOSE x \in s : TRUE}]]
Total(f) == (CHOOSE g : Summing(DOMAIN f, f, g))[DOMAIN f]

LEMMA OneLess ==
  ASSUME NEW S, IsFiniteSet(S), NEW s \in SUBSET S, NEW x \in s
  PROVE  /\ IsFiniteSet(s) /\ Cardinality(s) \in Nat /\ s \ {x} \in SUBSET S
         /\ Cardinality(s \ {x}) = Cardinality(s) - 1
<1>1. IsFiniteSet(s) /\ Cardinality(s) \in Nat
  BY FS_Subset, FS_CardinalityType
<1>2. Cardinality(s \ {x}) = Cardinality(s) - 1
  BY <1>1, FS_RemoveElement
<1> QED BY <1>1, <1>2

LEMMA SumExists ==
  ASSUME NEW S, IsFiniteSet(S), NEW f \in [S -> Int]
  PROVE  \E g \in [SUBSET S -> Int] : Summing(S, f, g)
<1> DEFINE D == SUBSET S
           x(s) == CHOOSE x \in s : TRUE
           next == [s \in D |-> s \ {x(s)}]
           out == [s \in D |-> 0]
           m == [s \in D |-> Cardinality(s)]
           H == [p \in D \X Int |-> IF p[1] = {} THEN 0 ELSE f[x(p[1])] + p[2]]
<1>1. out \in [D -> Int] /\ next \in [D -> D]
  OBVIOUS
<1>2. m \in [D -> Nat]
  <2> SUFFICES ASSUME NEW s \in D PROVE Cardinality(s) \in Nat
    OBVIOUS
  <2> QED BY FS_Subset, FS_CardinalityType
<1>3. ASSUME NEW s \in D PROVE s = {} \/ x(s) \in s
  OBVIOUS
<1>4. H \in [D \X Int -> Int]
  <2> SUFFICES ASSUME NEW s \in D, NEW v \in Int, s # {} PROVE f[x(s)] + v \in Int
    OBVIOUS
  <2>1. x(s) \in S
    BY <1>3
  <2> HIDE DEF x
  <2> QED BY <2>1
<1>5. \A s \in D : s \in {{}} \/ m[next[s]] < m[s]
  <2> SUFFICES ASSUME NEW s \in D, s # {} PROVE Cardinality(s \ {x(s)}) < Cardinality(s)
    OBVIOUS
  <2>1. x(s) \in s
    BY <1>3
  <2> HIDE DEF x
  <2>2. Cardinality(s) \in Nat /\ Cardinality(s \ {x(s)}) = Cardinality(s) - 1
    BY <2>1, OneLess
  <2> QED BY <2>2
<1>6. ASSUME NEW g \in [D -> Int], Recursion(D, {{}}, out, next, H, g)
      PROVE  Summing(S, f, g)
  <2>1. ASSUME NEW s \in D
        PROVE  g[s] = IF s = {} THEN 0 ELSE f[x(s)] + g[s \ {x(s)}]
    <3>1. g[s] = IF s \in {{}} THEN out[s] ELSE H[<<s, g[next[s]]>>]
      BY <1>6 DEF Recursion
    <3>2. CASE s = {}
      BY <3>1, <3>2
    <3>3. CASE s # {}
      <4>1. next[s] = s \ {x(s)} /\ s \ {x(s)} \in D
        OBVIOUS
      <4> HIDE DEF next, x
      <4>2. g[s \ {x(s)}] \in Int
        BY <4>1
      <4> QED BY <3>1, <3>3, <4>1, <4>2
    <3> QED BY <3>2, <3>3
  <2>2. DOMAIN g = D
    OBVIOUS
  <2>3. g = [s \in D |-> g[s]]
    OBVIOUS
  <2> QED BY <2>1, <2>3 DEF Summing
<1> HIDE DEF next, out, m, H, D
<1>7. PICK g \in [D -> Int] : Recursion(D, {{}}, out, next, H, g)
  BY <1>1, <1>2, <1>4, <1>5, RecursionExists
<1> QED BY <1>6, <1>7 DEF D

LEMMA SumStep ==
  ASSUME NEW S, NEW f, NEW g, Summing(S, f, g), NEW s \in SUBSET S
  PROVE  /\ s = {} => g[s] = 0
         /\ s # {} => \E x \in s : g[s] = f[x] + g[s \ {x}]
<1>1. g[s] = IF s = {} THEN 0
             ELSE f[CHOOSE x \in s : TRUE] + g[s \ {CHOOSE x \in s : TRUE}]
  BY DEF Summing
<1>2. s # {} => (CHOOSE x \in s : TRUE) \in s
  OBVIOUS
<1> QED BY <1>1, <1>2

(* Sums are whole numbers, and depend on the members of the set alone. *)
LEMMA SumAgree ==
  ASSUME NEW S, IsFiniteSet(S), NEW f \in [S -> Int], NEW g, Summing(S, f, g),
         NEW T, NEW e, NEW h, Summing(T, e, h),
         NEW s \in SUBSET S, s \in SUBSET T, \A x \in s : e[x] = f[x]
  PROVE  g[s] \in Int /\ h[s] = g[s]
<1> DEFINE D == SUBSET S
           m == [t \in D |-> Cardinality(t)]
           Even(t) == /\ g[t] \in Int
                      /\ t \in SUBSET T /\ (\A x \in t : e[x] = f[x]) => h[t] = g[t]
           U == {t \in D : Even(t)}
<1>1. m \in [D -> Nat]
  <2> SUFFICES ASSUME NEW t \in D PROVE Cardinality(t) \in Nat
    OBVIOUS
  <2> QED BY FS_Subset, FS_CardinalityType
<1>2. ASSUME NEW d \in D, \A t \in D : m[t] < m[d] => t \in U PROVE Even(d)
  <2>1. CASE d = {}
    BY <2>1, SumStep
  <2>2. CASE d # {}
    <3> DEFINE x == CHOOSE x \in d : TRUE
    <3>1. x \in d /\ x \in S
      BY <2>2
    <3>2. g[d] = f[x] + g[d \ {x}]
      BY <2>2 DEF Summing
    <3>3. d \in SUBSET T => h[d] = e[x] + h[d \ {x}]
      BY <2>2 DEF Summing
    <3> HIDE DEF x
    <3>4. d \ {x} \in D /\ m[d \ {x}] < m[d]
      <4>1. Cardinality(d) \in Nat /\ Cardinality(d \ {x}) = Cardinality(d) - 1
        BY <3>1, OneLess
      <4> QED BY <4>1
    <3>5. Even(d \ {x})
      BY <3>4, <1>2
    <3>6. f[x] \in Int
      BY <3>1
    <3>7. ASSUME d \in SUBSET T, \A y \in d : e[y] = f[y] PROVE h[d] = g[d]
      <4>1. d \ {x} \in SUBSET T /\ \A y \in d \ {x} : e[y] = f[y]
        BY <3>7
      <4> QED BY <3>1, <3>2, <3>3, <3>5, <3>7, <4>1
    <3> QED BY <3>2, <3>5, <3>6, <3>7
  <2> QED BY <2>1, <2>2
<1>3. \A d \in D : (\A t \in D : m[t] < m[d] => t \in U) => d \in U
  <2> HIDE DEF Even, m
  <2> QED BY <1>2
<1>4. \A d \in D : d \in U
  <2> HIDE DEF D, U, m
  <2> QED BY <1>1, <1>3, HeightInduction
<1> QED BY <1>4

(* Any member may be taken first. *)
LEMMA SumRemove ==
  ASSUME NEW S, IsFiniteSet(S), NEW f \in [S -> Int], NEW g, Summing(S, f, g),
         NEW s \in SUBSET S, NEW y \in s
  PROVE  g[s] = f[y] + g[s \ {y}]
<1> DEFINE D == SUBSET S
           m == [t \in D |-> Cardinality(t)]
           Any(t) == \A z \in t : g[t] = f[z] + g[t \ {z}]
           U == {t \in D : Any(t)}
<1>1. m \in [D -> Nat]
  <2> SUFFICES ASSUME NEW t \in D PROVE Cardinality(t) \in Nat
    OBVIOUS
  <2> QED BY FS_Subset, FS_CardinalityType
<1>0. \A t \in D : g[t] \in Int
  BY SumAgree
<1>2. ASSUME NEW d \in D, \A t \in D : m[t] < m[d] => t \in U PROVE Any(d)
  <2> SUFFICES ASSUME NEW z \in d PROVE g[d] = f[z] + g[d \ {z}]
    OBVIOUS
  <2>1. PICK x \in d : g[d] = f[x] + g[d \ {x}]
    BY SumStep
  <2>2. CASE x = z
    BY <2>1, <2>2
  <2>3. CASE x # z
    <3> DEFINE b == (d \ {x}) \ {z}
    <3>1. /\ d \ {x} \in D /\ m[d \ {x}] < m[d]
          /\ d \ {z} \in D /\ m[d \ {z}] < m[d]
      <4>1. /\ Cardinality(d) \in Nat /\ Cardinality(d \ {x}) = Cardinality(d) - 1
            /\ Cardinality(d \ {z}) = Cardinality(d) - 1
        BY OneLess
      <4> QED BY <4>1
    <3>2. z \in d \ {x} /\ x \in d \ {z} /\ (d \ {z}) \ {x} = b /\ b \in D
      BY <2>3
    <3>3. g[d \ {x}] = f[z] + g[b]
      BY <3>1, <3>2, <1>2
    <3>4. g[d \ {z}] = f[x] + g[b]
      <4>1. Any(d \ {z})
        BY <3>1, <1>2
      <4>2. g[d \ {z}] = f[x] + g[(d \ {z}) \ {x}]
        BY <3>2, <4>1
      <4> QED BY <3>2, <4>2
    <3>5. f[x] \in Int /\ f[z] \in Int /\ g[b] \in Int
      BY <3>2, <1>0
    <3> QED BY <2>1, <3>3, <3>4, <3>5
  <2> QED BY <2>2, <2>3
<1>3. \A d \in D : (\A t \in D : m[t] < m[d] => t \in U) => d \in U
  <2> HIDE DEF Any, m
  <2> QED BY <1>2
<1>4. \A d \in D : d \in U
  <2> HIDE DEF D, U, m
  <2> QED BY <1>1, <1>3, HeightInduction
<1> QED BY <1>4

(* The laws of Total. *)
LEMMA SumIs ==
  ASSUME NEW S, IsFiniteSet(S), NEW f \in [S -> Int], NEW g, Summing(S, f, g)
  PROVE  Total(f) = g[S] /\ g[S] \in Int
<1> DEFINE h == CHOOSE h : Summing(S, f, h)
<1>1. Summing(S, f, h)
  BY SumExists
<1>2. Total(f) = h[S]
  BY DEF Total
<1> HIDE DEF h
<1>3. S \in SUBSET S
  OBVIOUS
<1>4. h[S] = g[S] /\ g[S] \in Int
  BY <1>1, <1>3, SumAgree
<1> QED BY <1>2, <1>4

LEMMA SumLaws ==
  ASSUME NEW S, IsFiniteSet(S), NEW f \in [S -> Int]
  PROVE  /\ Total(f) \in Int
         /\ S = {} => Total(f) = 0
         /\ \A y \in S : Total(f) = f[y] + Total([x \in S \ {y} |-> f[x]])
<1>1. PICK g : Summing(S, f, g)
  BY SumExists
<1>2. Total(f) = g[S] /\ Total(f) \in Int
  BY <1>1, SumIs
<1>3. S = {} => Total(f) = 0
  BY <1>1, <1>2, SumStep
<1>4. ASSUME NEW y \in S PROVE Total(f) = f[y] + Total([x \in S \ {y} |-> f[x]])
  <2> DEFINE T == S \ {y}
             e == [x \in T |-> f[x]]
  <2>1. IsFiniteSet(T) /\ T \in SUBSET S /\ T \in SUBSET T
    BY FS_Subset
  <2>2. e \in [T -> Int] /\ \A x \in T : e[x] = f[x]
    OBVIOUS
  <2> HIDE DEF e
  <2>3. PICK h : Summing(T, e, h)
    BY <2>1, <2>2, SumExists
  <2>4. Total(e) = h[T]
    BY <2>1, <2>2, <2>3, SumIs
  <2>5. h[T] = g[T]
    BY <1>1, <2>1, <2>2, <2>3, SumAgree
  <2>6. S \in SUBSET S
    OBVIOUS
  <2>7. g[S] = f[y] + g[T]
    BY <1>1, <2>6, SumRemove
  <2> QED BY <1>2, <2>4, <2>5, <2>7 DEF e
<1> QED BY <1>2, <1>3, <1>4

(* Two functions that differ at one place, or in the order of two. *)
LEMMA SumChange ==
  ASSUME NEW S, IsFiniteSet(S), NEW f \in [S -> Int], NEW h \in [S -> Int],
         NEW i \in S, \A x \in S \ {i} : h[x] = f[x]
  PROVE  Total(h) = Total(f) - f[i] + h[i]
<1> DEFINE T == S \ {i}
           e == [x \in T |-> f[x]]
<1>1. [x \in T |-> h[x]] = e
  OBVIOUS
<1>2. Total(f) = f[i] + Total(e) /\ Total(h) = h[i] + Total(e) /\ Total(f) \in Int
  BY <1>1, SumLaws
<1>3. Total(e) \in Int
  <2>1. IsFiniteSet(T) /\ e \in [T -> Int]
    BY FS_Subset
  <2> HIDE DEF e, T
  <2> QED BY <2>1, SumLaws
<1> QED BY <1>2, <1>3

LEMMA SumSwap ==
  ASSUME NEW S, IsFiniteSet(S), NEW f \in [S -> Int], NEW h \in [S -> Int],
         NEW i \in S, NEW j \in S, h[i] = f[j], h[j] = f[i],
         \A x \in S \ {i, j} : h[x] = f[x]
  PROVE  Total(h) = Total(f)
<1> DEFINE e == [f EXCEPT ![i] = f[j]]
<1>1. e \in [S -> Int] /\ e[i] = f[j] /\ \A x \in S \ {i} : e[x] = f[x]
  OBVIOUS
<1>2. \A x \in S \ {j} : h[x] = e[x]
  OBVIOUS
<1>3. i # j => e[j] = f[j]
  OBVIOUS
<1> HIDE DEF e
<1>4. Total(e) = Total(f) - f[i] + e[i]
  BY <1>1, SumChange
<1>5. Total(h) = Total(e) - e[j] + h[j]
  BY <1>1, <1>2, SumChange
<1>6. Total(f) \in Int
  BY SumLaws
<1> QED BY <1>1, <1>3, <1>4, <1>5, <1>6

(* A function that goes one further. *)
LEMMA SumMore ==
  ASSUME NEW S, IsFiniteSet(S), NEW i, i \notin S, NEW T, T = S \cup {i},
         NEW f \in [S -> Int], NEW h \in [T -> Int], \A x \in S : h[x] = f[x]
  PROVE  Total(h) = Total(f) + h[i]
<1>1. IsFiniteSet(T) /\ i \in T /\ T \ {i} = S
  BY FS_AddElement
<1>2. [x \in S |-> h[x]] = f
  OBVIOUS
<1>3. Total(h) = h[i] + Total([x \in T \ {i} |-> h[x]])
  BY <1>1, SumLaws
<1>4. Total(f) \in Int /\ h[i] \in Int
  BY <1>1, SumLaws
<1> QED BY <1>1, <1>2, <1>3, <1>4

(* Elements of P counted by what h makes of them. *)
Fibre(P, h, j) == {i \in P : h[i] = j}
Fibres(P, h, S) == {i \in P : h[i] \in S}

LEMMA SumOfFibres ==
  ASSUME NEW P, IsFiniteSet(P), NEW h, NEW S, IsFiniteSet(S), NEW f \in [S -> Int],
         \A j \in S : f[j] = Cardinality(Fibre(P, h, j))
  PROVE  Total(f) = Cardinality(Fibres(P, h, S))
<1> DEFINE D == SUBSET S
           Among(s) == Fibres(P, h, s)
           m == [s \in D |-> Cardinality(s)]
<1>1. PICK g : Summing(S, f, g)
  BY SumExists
<1> DEFINE Right(s) == g[s] = Cardinality(Among(s))
           U == {s \in D : Right(s)}
<1>2. m \in [D -> Nat]
  <2> SUFFICES ASSUME NEW s \in D PROVE Cardinality(s) \in Nat
    OBVIOUS
  <2> QED BY FS_Subset, FS_CardinalityType
<1>3. ASSUME NEW d \in D, \A s \in D : m[s] < m[d] => s \in U PROVE Right(d)
  <2>1. CASE d = {}
    <3>1. Among(d) = {} /\ g[d] = 0
      BY <1>1, <2>1, SumStep DEF Fibres
    <3> QED BY <3>1, FS_EmptySet
  <2>2. CASE d # {}
    <3> DEFINE x == CHOOSE x \in d : TRUE
    <3>1. x \in d /\ x \in S
      BY <2>2
    <3>2. g[d] = f[x] + g[d \ {x}]
      BY <1>1, <2>2 DEF Summing
    <3> HIDE DEF x
    <3>3. d \ {x} \in D /\ m[d \ {x}] < m[d]
      <4>1. Cardinality(d) \in Nat /\ Cardinality(d \ {x}) = Cardinality(d) - 1
        BY <3>1, OneLess
      <4> QED BY <4>1
    <3>4. Right(d \ {x})
      BY <3>3, <1>3
    <3> DEFINE One == Fibre(P, h, x)  Rest == Among(d \ {x})
    <3>5. Among(d) = One \cup Rest /\ One \cap Rest = {}
      BY <3>1 DEF Fibre, Fibres
    <3>6. IsFiniteSet(One) /\ IsFiniteSet(Rest)
      <4>1. One \in SUBSET P /\ Rest \in SUBSET P
        BY DEF Fibre, Fibres
      <4> HIDE DEF One, Rest
      <4> QED BY <4>1, FS_Subset
    <3>7. f[x] = Cardinality(One)
      BY <3>1
    <3> HIDE DEF One, Rest
    <3>8. Cardinality(One \cup Rest) = Cardinality(One) + Cardinality(Rest)
      <4>1. Cardinality(One) \in Nat /\ Cardinality(Rest) \in Nat
            /\ Cardinality(One \cap Rest) = 0
        BY <3>5, <3>6, FS_CardinalityType, FS_EmptySet
      <4>2. Cardinality(One \cup Rest)
              = Cardinality(One) + Cardinality(Rest) - Cardinality(One \cap Rest)
        BY <3>6, FS_Union
      <4> QED BY <4>1, <4>2
    <3> QED BY <3>2, <3>4, <3>5, <3>7, <3>8 DEF Rest
  <2> QED BY <2>1, <2>2
<1>4. \A d \in D : (\A s \in D : m[s] < m[d] => s \in U) => d \in U
  <2> HIDE DEF Right, m
  <2> QED BY <1>3
<1>5. \A d \in D : d \in U
  <2> HIDE DEF D, U, m
  <2> QED BY <1>2, <1>4, HeightInduction
<1>6. S \in D
  OBVIOUS
<1>7. Total(f) = g[S]
  BY <1>1, SumIs
<1> QED BY <1>5, <1>6, <1>7

(* The sum of the community modules. *)
SumOver(f, S) == MapThenSumSet(LAMBDA i : f[i], S)

LEMMA SumOverIs ==
  ASSUME NEW S, IsFiniteSet(S), NEW f, \A i \in S : f[i] \in Int
  PROVE  SumOver(f, S) = Total([i \in S |-> f[i]])
<1> DEFINE e == [i \in S |-> f[i]]
           Is(iter) == iter = [s \in SUBSET S |->
                         IF s = {} THEN 0
                         ELSE f[CHOOSE x \in s : TRUE]
                              + iter[s \ {CHOOSE x \in s : TRUE}]]
           It == CHOOSE iter : Is(iter)
<1>1. SumOver(f, S) = It[S]
  BY DEF SumOver, MapThenSumSet, MapThenFoldSet
<1>2. e \in [S -> Int] /\ \A i \in S : e[i] = f[i]
  OBVIOUS
<1> HIDE DEF e
<1>3. PICK g : Summing(S, e, g)
  BY <1>2, SumExists
<1>4. ASSUME NEW s \in SUBSET S, s # {} PROVE e[CHOOSE x \in s : TRUE] = f[CHOOSE x \in s : TRUE]
  <2>1. (CHOOSE x \in s : TRUE) \in S
    BY <1>4
  <2> QED BY <1>2, <2>1
<1>5. Is(g)
  <2>1. ASSUME NEW s \in SUBSET S
        PROVE  g[s] = IF s = {} THEN 0
                      ELSE f[CHOOSE x \in s : TRUE]
                           + g[s \ {CHOOSE x \in s : TRUE}]
    BY <1>3, <1>4 DEF Summing
  <2> QED BY <1>3, <2>1 DEF Summing
<1>6. Is(It)
  BY <1>5
<1> HIDE DEF It
<1>7. Summing(S, e, It)
  <2>1. ASSUME NEW s \in SUBSET S
        PROVE  It[s] = IF s = {} THEN 0
                       ELSE e[CHOOSE x \in s : TRUE]
                            + It[s \ {CHOOSE x \in s : TRUE}]
    BY <1>4, <1>6
  <2> QED BY <1>6, <2>1 DEF Summing
<1>8. It[S] = Total(e)
  BY <1>2, <1>7, SumIs
<1> QED BY <1>1, <1>8 DEF e
=============================================================================
